--------------------------- MODULE EvaluationOrder ---------------------------
(***************************************************************************)
(* In which order the streams of a cycle are evaluated                     *)
(* (frontend/src/analysis/graph_based_analysis/evaluation_order.rs).       *)
(*                                                                         *)
(* Every stream has four steps, and every access makes a step of the       *)
(* reader depend on one of the stream it reads.  Layer by layer, the steps *)
(* all of whose dependencies are in earlier layers are taken out of the    *)
(* graph.  There is a graph of the inputs and the event-driven outputs and *)
(* one of the periodic outputs; no edge connects them, so they are treated *)
(* together here.                                                          *)
(***************************************************************************)
EXTENDS LolaSpec

CONSTANT Specifications \* those the frontend is given
ASSUME SpecificationAssumption ==
    \A s \in Specifications : IsSpecification(s)

VARIABLES
    spec,      \* the specification
    remaining, \* the nodes of the compute graph
    round,     \* the number of layers so far
    layer      \* the evaluation layer of each stream

orderVars == <<remaining, round, layer>>

Steps == {"invoke", "extend", "evaluate", "terminate"}
Nodes == Streams \X Steps

(***************************************************************************)
(* An access to the current value needs the value, an offset only whether  *)
(* there is a new one.                                                     *)
(***************************************************************************)
ExtendOnly(r) == <<r.to, "extend">> \* wrong variant: never the value
StepRead(r) == <<r.to, IF Weight(r) = 0 THEN "evaluate" ELSE "extend">>

ReadsInGraph(s) ==
    {r \in spec.reads[s] : /\ SameClass(spec, s, r.to)
                           /\ r.kind = "window" => r.to # s}

Neighbors(s, step) ==
    CASE step = "invoke" -> {}
      [] step \in {"extend", "terminate"} -> {<<s, "invoke">>}
      [] step = "evaluate" ->
             {<<s, "extend">>} \cup
             (IF s \in Outputs THEN {StepRead(r) : r \in ReadsInGraph(s)}
              ELSE {})

OrderInit ==
    /\ spec \in {s \in Specifications : Accepted(s)}
    /\ remaining = Nodes
    /\ round = 0
    /\ layer = [s \in Streams |-> 0]

Front == {n \in remaining : Neighbors(n[1], n[2]) \cap remaining = {}}

(***************************************************************************)
(* One layer.  The table of layers keeps the last layer that a step of the *)
(* stream is in.  The bound on the rounds is met only by a loop that never *)
(* ends: an order has no more layers than steps.                           *)
(***************************************************************************)
PruneLayer ==
    /\ remaining # {} /\ round < Cardinality(Nodes)
    /\ remaining' = remaining \ Front
    /\ round' = round + 1
    /\ layer' = [s \in Streams |->
           IF \E step \in Steps : <<s, step>> \in Front THEN round
           ELSE layer[s]]
    /\ UNCHANGED spec

Ordered == remaining = {}

-----------------------------------------------------------------------------
(***************************************************************************)
(* A stream is in a later layer than every stream of its class whose       *)
(* current value, or whose window, it reads.                               *)
(***************************************************************************)
ReadersComeLater ==
    Ordered =>
        \A o \in Outputs : \A r \in ReadsInGraph(o) :
            Weight(r) = 0 => layer[r.to] < layer[o]
=============================================================================

--------------------------- MODULE Evaluator_proofs ---------------------------
(***************************************************************************)
(* Theorems about module Evaluator, for every set of specifications: the   *)
(* layers respect what the streams read, the evaluation in their order     *)
(* finds every synchronously accessed stream fresh, the bounded buffers    *)
(* hold the latest values of their streams, and every output reads what    *)
(* module StreamSemantics says.                                            *)
(***************************************************************************)
EXTENDS Evaluator, FiniteSetTheorems, SequenceTheorems, TLAPS

-----------------------------------------------------------------------------
(* Specifications.                                                         *)

(***************************************************************************)
(* The parts of a specification and of its accesses have their types.      *)
(***************************************************************************)
LEMMA SpecificationTypes ==
    ASSUME spec \in Specifications
    PROVE  /\ spec.period \in [Outputs -> Nat]
           /\ spec.ac \in [Outputs -> Condition]
           /\ \A o \in Outputs : \A r \in spec.reads[o] :
                 /\ r.to \in Named /\ r.to \in Streams
                 /\ r.by \in Nat
                 /\ r.kind = "sync" => Weight(r) = 0
<1>1. IsSpecification(spec)
  BY SpecificationAssumption
<1>2. ASSUME NEW o \in Outputs, NEW r \in spec.reads[o]
      PROVE  /\ r.to \in Named /\ r.to \in Streams
             /\ r.by \in Nat
             /\ r.kind = "sync" => Weight(r) = 0
  <2>1. r \in Access
    BY <1>1, <1>2 DEF IsSpecification
  <2>2. /\ r.to \in Named /\ r.by \in Nat
        /\ r.kind = "offset" <=> r.by > 0
    BY <2>1 DEF Access
  <2>3. r.kind = "sync" => r.by = 0
    BY <2>2
  <2>4. QED
    BY <2>2, <2>3 DEF Named, Weight
<1>3. QED
  BY <1>1, <1>2 DEF IsSpecification

-----------------------------------------------------------------------------
(* The layers.                                                             *)

Evaluated(s) == <<s, "evaluate">> \notin remaining

(***************************************************************************)
(* The steps go layer by layer: all of "invoke", then all of "extend" and  *)
(* "terminate", then the evaluations, each after those it reads.           *)
(***************************************************************************)
LayerInv ==
    /\ spec \in Specifications
    /\ Accepted(spec)
    /\ round \in Nat
    /\ layer \in [Streams -> Nat]
    /\ round = 0 => remaining = Nodes
    /\ round = 1 => remaining = Streams \X {"extend", "evaluate", "terminate"}
    /\ round >= 2 => remaining \subseteq Streams \X {"evaluate"}
    /\ \A s \in Streams : Evaluated(s) => round >= 2 /\ layer[s] < round
    /\ \A o \in Outputs : Evaluated(o) =>
          \A r \in ReadsInGraph(o) :
              Weight(r) = 0 => Evaluated(r.to) /\ layer[r.to] < layer[o]

LEMMA OrderInitInv == OrderInit => LayerInv
<1> SUFFICES ASSUME OrderInit PROVE LayerInv
  OBVIOUS
<1>1. \A s \in Streams : ~Evaluated(s)
  BY DEF OrderInit, Evaluated, Nodes, Steps
<1>2. Outputs \subseteq Streams
  BY DEF Streams
<1>3. QED
  BY <1>1, <1>2 DEF OrderInit, LayerInv

(***************************************************************************)
(* The first two layers are the same whatever the specification.           *)
(***************************************************************************)
LEMMA FirstFront ==
    ASSUME LayerInv, round = 0
    PROVE  Front = Streams \X {"invoke"}
<1>1. remaining = Nodes
  BY DEF LayerInv
<1>2. ASSUME NEW s \in Streams
      PROVE  /\ Neighbors(s, "invoke") = {}
             /\ <<s, "invoke">> \in Neighbors(s, "extend")
             /\ <<s, "invoke">> \in Neighbors(s, "terminate")
             /\ <<s, "extend">> \in Neighbors(s, "evaluate")
  BY DEF Neighbors
<1>3. \A n \in Nodes : n[1] \in Streams /\ n[2] \in Steps /\ n = <<n[1], n[2]>>
  BY DEF Nodes
<1>4. ASSUME NEW n \in Nodes
      PROVE  Neighbors(n[1], n[2]) \cap Nodes = {} <=> n[2] = "invoke"
  <2>1. PICK s \in Streams, step \in Steps : n = <<s, step>>
    BY <1>3
  <2>2. \A t \in Streams, u \in Steps : <<t, u>> \in Nodes
    BY DEF Nodes
  <2>3. <<s, "invoke">> \in Nodes /\ <<s, "extend">> \in Nodes
    BY <2>2 DEF Steps
  <2>4. QED
    BY <1>2, <2>1, <2>3 DEF Steps
<1>5. QED
  BY <1>1, <1>3, <1>4 DEF Front, Nodes, Steps

LEMMA SecondFront ==
    ASSUME LayerInv, round = 1
    PROVE  Front = Streams \X {"extend", "terminate"}
<1>1. remaining = Streams \X {"extend", "evaluate", "terminate"}
  BY DEF LayerInv
<1>2. ASSUME NEW s \in Streams
      PROVE  /\ Neighbors(s, "extend") = {<<s, "invoke">>}
             /\ Neighbors(s, "terminate") = {<<s, "invoke">>}
             /\ <<s, "extend">> \in Neighbors(s, "evaluate")
  BY DEF Neighbors
<1>3. \A n \in remaining : /\ n[1] \in Streams /\ n = <<n[1], n[2]>>
                           /\ n[2] \in {"extend", "evaluate", "terminate"}
  BY <1>1
<1>4. ASSUME NEW n \in remaining
      PROVE  Neighbors(n[1], n[2]) \cap remaining = {} <=> n[2] # "evaluate"
  <2>1. PICK s \in Streams, step \in {"extend", "evaluate", "terminate"} :
            n = <<s, step>>
    BY <1>3
  <2>2. <<s, "invoke">> \notin remaining /\ <<s, "extend">> \in remaining
    BY <1>1
  <2>3. QED
    BY <1>2, <2>1, <2>2
<1>5. QED
  BY <1>1, <1>3, <1>4 DEF Front

(***************************************************************************)
(* From then on, what an evaluation reads leaves the graph before it.      *)
(***************************************************************************)
LEMMA LaterFront ==
    ASSUME LayerInv, round >= 2,
           NEW o \in Outputs, <<o, "evaluate">> \in Front,
           NEW r \in ReadsInGraph(o), Weight(r) = 0
    PROVE  Evaluated(r.to)
<1>1. StepRead(r) = <<r.to, "evaluate">>
  BY DEF StepRead
<1>2. StepRead(r) \in Neighbors(o, "evaluate")
  BY DEF Neighbors
<1>3. Neighbors(o, "evaluate") \cap remaining = {}
  BY DEF Front
<1>4. QED
  BY <1>1, <1>2, <1>3 DEF Evaluated

LEMMA PruneLayerInv == LayerInv /\ PruneLayer => LayerInv'
<1> SUFFICES ASSUME LayerInv, PruneLayer PROVE LayerInv'
  OBVIOUS
<1>1. /\ spec' = spec /\ round' = round + 1
      /\ remaining' = remaining \ Front
      /\ round \in Nat /\ layer \in [Streams -> Nat]
      /\ spec \in Specifications /\ Accepted(spec)
  BY DEF LayerInv, PruneLayer
<1>2. \A s \in Streams :
          layer'[s] = IF \E step \in Steps : <<s, step>> \in Front THEN round
                      ELSE layer[s]
  BY DEF PruneLayer
<1>3. layer' \in [Streams -> Nat]
  BY <1>1 DEF PruneLayer
<1>4. Front \subseteq remaining
  BY DEF Front
<1>5. Accepted(spec)'
  BY <1>1
<1>6. round' = 1 =>
          remaining' = Streams \X {"extend", "evaluate", "terminate"}
  BY <1>1, FirstFront DEF LayerInv, Nodes, Steps
<1>7. round' >= 2 => remaining' \subseteq Streams \X {"evaluate"}
  <2>1. CASE round = 1
    BY <1>1, <2>1, SecondFront DEF LayerInv
  <2>2. CASE round >= 2
    BY <1>1, <2>2 DEF LayerInv
  <2>3. QED
    BY <1>1, <2>1, <2>2
<1>8. ASSUME NEW s \in Streams, Evaluated(s)'
      PROVE  round >= 2 /\ layer'[s] < round'
  <2>1. round # 0
    BY <1>1, <1>8, FirstFront DEF LayerInv, Evaluated, Nodes, Steps
  <2>2. round # 1
    BY <1>1, <1>8, SecondFront DEF LayerInv, Evaluated
  <2>3. Evaluated(s) \/ <<s, "evaluate">> \in Front
    BY <1>1, <1>8 DEF Evaluated
  <2>4. "evaluate" \in Steps
    BY DEF Steps
  <2>5. Evaluated(s) => layer[s] < round
    BY DEF LayerInv
  <2>6. layer[s] \in Nat
    BY <1>1
  <2>7. QED
    BY <1>1, <1>2, <2>1, <2>2, <2>3, <2>4, <2>5, <2>6
<1>9. ASSUME NEW s \in Streams, Evaluated(s), round >= 2
      PROVE  Evaluated(s)' /\ layer'[s] = layer[s] /\ layer[s] < round
  <2>1. \A step \in Steps : <<s, step>> \notin Front
    BY <1>4, <1>9 DEF LayerInv, Evaluated
  <2>2. QED
    BY <1>1, <1>2, <1>9, <2>1 DEF LayerInv, Evaluated
<1>10. ASSUME NEW o \in Outputs, Evaluated(o)',
              NEW r \in ReadsInGraph(o)', Weight(r) = 0
       PROVE  Evaluated(r.to)' /\ layer'[r.to] < layer'[o]
  <2>1. r \in ReadsInGraph(o)
    BY <1>1, <1>10 DEF ReadsInGraph, SameClass, Periodic
  <2>2. o \in Streams /\ r.to \in Streams
    BY <1>1, <2>1, SpecificationTypes DEF ReadsInGraph, Streams
  <2>3. round >= 2
    BY <1>8, <1>10, <2>2
  <2>4. CASE Evaluated(o)
    <3>1. Evaluated(r.to) /\ layer[r.to] < layer[o]
      BY <1>10, <2>1, <2>4 DEF LayerInv
    <3>2. QED
      BY <1>9, <2>2, <2>3, <2>4, <3>1
  <2>5. CASE ~Evaluated(o)
    <3>1. <<o, "evaluate">> \in Front
      BY <1>1, <1>10, <2>5 DEF Evaluated
    <3>2. Evaluated(r.to)
      BY <1>10, <2>1, <2>3, <3>1, LaterFront
    <3>3. layer'[o] = round
      BY <1>2, <2>2, <3>1 DEF Steps
    <3>4. QED
      BY <1>9, <2>2, <2>3, <3>2, <3>3
  <2>6. QED
    BY <2>4, <2>5
<1>11. round' # 0
  BY <1>1
<1>12. QED
  BY <1>1, <1>3, <1>5, <1>6, <1>7, <1>8, <1>10, <1>11 DEF LayerInv, Weight

(***************************************************************************)
(* When the loop has ended, every stream is behind those it reads.         *)
(***************************************************************************)
LEMMA LayersFollow == LayerInv => ReadersComeLater
<1> SUFFICES ASSUME LayerInv, Ordered,
                    NEW o \in Outputs, NEW r \in ReadsInGraph(o),
                    Weight(r) = 0
             PROVE  layer[r.to] < layer[o]
  BY DEF ReadersComeLater
<1>1. Evaluated(o)
  BY DEF Ordered, Evaluated
<1>2. QED
  BY <1>1 DEF LayerInv

-----------------------------------------------------------------------------
(* Activation conditions and periods.                                      *)

(***************************************************************************)
(* implies_valid is sound: whenever the left condition holds of the fresh  *)
(* inputs, so does the right one.                                          *)
(***************************************************************************)
LEMMA ImpliesValidSound ==
    ASSUME NEW left, NEW right, ImpliesValid(left, right),
           \A clause \in left.clauses : clause \cap fresh # {}
    PROVE  \A clause \in right.clauses : clause \cap fresh # {}
  BY DEF ImpliesValid, True

(***************************************************************************)
(* A time that is a multiple of a period is one of every divisor of it.    *)
(***************************************************************************)
LEMMA DividesTransitive ==
    ASSUME NEW t \in Nat, NEW p \in Nat \ {0}, NEW q \in Nat \ {0},
           t % p = 0, p % q = 0
    PROVE  t % q = 0
<1> DEFINE k == t \div p
           m == p \div q
<1>1. k \in Nat /\ t = p * k
  OBVIOUS
<1>2. m \in Nat /\ p = q * m
  OBVIOUS
<1> HIDE DEF k, m
<1>3. t = q * (m * k) /\ m * k \in Nat
  BY <1>1, <1>2
<1>4. \A j \in Nat : (q * j) % q = 0
  OBVIOUS
<1>5. QED
  BY <1>3, <1>4

(***************************************************************************)
(* If an output is evaluated, so is every stream of its class that it      *)
(* accesses synchronously: in an event cycle by its activation condition,  *)
(* in a timed cycle by its period.                                         *)
(***************************************************************************)
LEMMA CompatibleEvent ==
    ASSUME spec \in Specifications, Accepted(spec),
           NEW o \in Outputs, ~Periodic(spec, o), Satisfied(o),
           NEW r \in spec.reads[o], r.kind = "sync"
    PROVE  IF r.to \in Inputs THEN r.to \in fresh
           ELSE /\ r.to \in Outputs /\ ~Periodic(spec, r.to)
                /\ Satisfied(r.to)
<1>1. Compatible(spec, o, r.to)
  BY DEF Accepted, CheckAccess
<1>2. ImpliesValid(spec.ac[o], ActivationOf(spec, r.to)) /\ ~Periodic(spec, r.to)
  BY <1>1 DEF Compatible, SameClass
<1>3. \A clause \in ActivationOf(spec, r.to).clauses : clause \cap fresh # {}
  BY <1>2, ImpliesValidSound DEF Satisfied
<1>4. r.to \in Streams
  BY SpecificationTypes
<1>5. CASE r.to \in Inputs
  <2>1. {r.to} \in ActivationOf(spec, r.to).clauses
    BY <1>5 DEF ActivationOf
  <2>2. QED
    BY <1>3, <1>5, <2>1
<1>6. CASE r.to \notin Inputs
  BY <1>2, <1>3, <1>4, <1>6 DEF ActivationOf, Satisfied, Streams
<1>7. QED
  BY <1>5, <1>6

LEMMA CompatibleTimed ==
    ASSUME spec \in Specifications, Accepted(spec), tick \in Nat,
           NEW o \in DueAt(tick),
           NEW r \in spec.reads[o], r.kind = "sync"
    PROVE  r.to \in DueAt(tick)
<1>1. o \in Outputs /\ Periodic(spec, o) /\ tick % spec.period[o] = 0
  BY DEF DueAt
<1>2. Compatible(spec, o, r.to)
  BY <1>1 DEF Accepted, CheckAccess
<1>3. /\ r.to \in Outputs /\ Periodic(spec, r.to)
      /\ spec.period[o] % spec.period[r.to] = 0
  BY <1>1, <1>2 DEF Compatible, SameClass, Periodic
<1>4. spec.period[o] \in Nat \ {0} /\ spec.period[r.to] \in Nat \ {0}
  BY <1>1, <1>3, SpecificationTypes DEF Periodic
<1>5. tick % spec.period[r.to] = 0
  BY <1>1, <1>3, <1>4, DividesTransitive
<1>6. QED
  BY <1>3, <1>5 DEF DueAt

-----------------------------------------------------------------------------
(* The cycles.                                                             *)

(***************************************************************************)
(* What has been evaluated in this cycle is fresh, and what has not is     *)
(* still to be evaluated.                                                  *)
(***************************************************************************)
EventInv ==
    phase = "event" =>
        /\ \A o \in todo : ~Periodic(spec, o)
        /\ \A o \in Outputs \ Triggers :
              ~Periodic(spec, o) /\ o \notin todo /\ Satisfied(o) => o \in fresh
TimedInv ==
    phase = "timed" =>
        /\ todo \subseteq DueAt(tick)
        /\ \A o \in DueAt(tick) \ Triggers : o \notin todo => o \in fresh
CycleInv ==
    /\ phase \in {"idle", "event", "timed"}
    /\ tick \in Nat
    /\ todo \subseteq Outputs
    /\ phase = "idle" => todo = {}
    /\ phase # "idle" => Ordered
    /\ EventInv
    /\ TimedInv

IInv == LayerInv /\ CycleInv

LEMMA InitInv == Init => IInv
  BY OrderInitInv DEF Init, IInv, CycleInv, EventInv, TimedInv

(***************************************************************************)
(* Outside of the layering loop, the layers stay as they are.              *)
(***************************************************************************)
LEMMA LayersStay ==
    ASSUME LayerInv, UNCHANGED <<spec, orderVars>>
    PROVE  LayerInv'
<1>1. Accepted(spec)'
  BY DEF LayerInv
<1>2. spec' = spec /\ remaining' = remaining /\ round' = round /\ layer' = layer
  BY DEF orderVars
<1>3. \A o : ReadsInGraph(o)' = ReadsInGraph(o)
  BY <1>2 DEF ReadsInGraph, SameClass, Periodic
<1>4. QED
  BY <1>1, <1>2, <1>3 DEF LayerInv, Evaluated

LEMMA LayeringInv == IInv /\ Layering => IInv'
<1> SUFFICES ASSUME IInv, Layering PROVE IInv'
  OBVIOUS
<1>1. LayerInv'
  BY PruneLayerInv DEF IInv, Layering
<1>2. phase = "idle"
  BY DEF IInv, CycleInv, Layering, PruneLayer, Ordered
<1>3. CycleInv'
  BY <1>2 DEF IInv, CycleInv, EventInv, TimedInv, Layering
<1>4. QED
  BY <1>1, <1>3 DEF IInv

LEMMA StartEventInv ==
    ASSUME IInv, NEW inputs \in SUBSET Inputs, StartEvent(inputs)
    PROVE  IInv'
<1>1. LayerInv'
  BY LayersStay DEF IInv, StartEvent
<1>2. /\ phase' = "event" /\ spec' = spec /\ tick' = tick
      /\ todo' = {o \in Outputs : ~Periodic(spec, o)}
  BY DEF StartEvent
<1>3. Ordered'
  BY DEF StartEvent, Ordered, orderVars
<1>4. EventInv' /\ TimedInv'
  BY <1>2 DEF EventInv, TimedInv, Periodic
<1>5. QED
  BY <1>1, <1>2, <1>3, <1>4 DEF IInv, CycleInv

LEMMA StartTimedInv == IInv /\ StartTimed => IInv'
<1> SUFFICES ASSUME IInv, StartTimed PROVE IInv'
  OBVIOUS
<1>1. LayerInv'
  BY LayersStay DEF IInv, StartTimed
<1>2. phase' = "timed" /\ spec' = spec /\ todo' = DueAt(tick')
  BY DEF StartTimed
<1>3. tick' \in Nat
  <2>1. spec.period \in [Outputs -> Nat] /\ tick \in Nat
    BY SpecificationTypes DEF IInv, LayerInv, CycleInv
  <2>2. Range(spec.period) \subseteq Nat
    BY <2>1 DEF Range
  <2>3. QED
    BY <2>1, <2>2 DEF StartTimed
<1>4. Ordered'
  BY DEF StartTimed, Ordered, orderVars
<1>5. todo' = DueAt(tick)' /\ todo' \subseteq Outputs
  BY <1>2 DEF DueAt, Periodic
<1>6. EventInv' /\ TimedInv'
  BY <1>2, <1>5 DEF EventInv, TimedInv
<1>7. QED
  BY <1>1, <1>2, <1>3, <1>4, <1>5, <1>6 DEF IInv, CycleInv

LEMMA SkipInv ==
    ASSUME IInv, NEW o \in Outputs, Skip(o)
    PROVE  IInv'
<1>1. LayerInv'
  BY LayersStay DEF IInv, Skip
<1>2. /\ phase = "event" /\ phase' = phase /\ spec' = spec
      /\ tick' = tick /\ fresh' = fresh /\ todo' = todo \ {o} /\ ~Satisfied(o)
  BY DEF Skip, storeVars
<1>3. Ordered'
  BY <1>2 DEF IInv, CycleInv, Skip, Ordered, orderVars
<1>4. EventInv' /\ TimedInv'
  BY <1>2 DEF IInv, CycleInv, EventInv, TimedInv, Satisfied, Periodic
<1>5. QED
  BY <1>1, <1>2, <1>3, <1>4 DEF IInv, CycleInv

(***************************************************************************)
(* A fresh output does not change which activation conditions hold.        *)
(***************************************************************************)
LEMMA SatisfiedByInputs ==
    ASSUME spec \in Specifications, spec' = spec,
           NEW o \in Outputs, fresh' \in {fresh, fresh \cup {o}},
           NEW p \in Outputs
    PROVE  Satisfied(p)' <=> Satisfied(p)
<1>1. \A clause \in spec.ac[p].clauses : clause \subseteq Inputs
  BY SpecificationTypes DEF Condition
<1>2. o \notin Inputs
  BY StreamAssumption
<1>3. QED
  BY <1>1, <1>2 DEF Satisfied

LEMMA EvalStreamInv ==
    ASSUME IInv, NEW o \in Outputs, EvalStream(o)
    PROVE  IInv'
<1>1. LayerInv'
  BY LayersStay DEF IInv, EvalStream
<1>2. /\ phase' = phase /\ spec' = spec /\ tick' = tick
      /\ todo' = todo \ {o} /\ o \in todo
      /\ fresh' = IF o \in Triggers THEN fresh ELSE fresh \cup {o}
  BY DEF EvalStream, Upcoming
<1>3. phase # "idle"
  BY <1>2 DEF IInv, CycleInv
<1>4. Ordered'
  BY <1>3 DEF IInv, CycleInv, EvalStream, Ordered, orderVars
<1>5. \A p \in Outputs : Satisfied(p)' <=> Satisfied(p)
  BY <1>2, SatisfiedByInputs DEF IInv, LayerInv
<1>6. EventInv'
  BY <1>2, <1>5 DEF IInv, CycleInv, EventInv, Periodic
<1>7. DueAt(tick)' = DueAt(tick)
  BY <1>2 DEF DueAt, Periodic
<1>8. TimedInv'
  BY <1>2, <1>7 DEF IInv, CycleInv, TimedInv
<1>9. QED
  BY <1>1, <1>2, <1>3, <1>4, <1>6, <1>8 DEF IInv, CycleInv

LEMMA FinishCycleInv == IInv /\ FinishCycle => IInv'
<1> SUFFICES ASSUME IInv, FinishCycle PROVE IInv'
  OBVIOUS
<1>1. LayerInv'
  BY LayersStay DEF IInv, FinishCycle
<1>2. phase' = "idle" /\ todo' = {} /\ tick' = tick
  BY DEF FinishCycle
<1>3. QED
  BY <1>1, <1>2 DEF IInv, CycleInv, EventInv, TimedInv

LEMMA NextInv == IInv /\ [Next]_vars => IInv'
<1> SUFFICES ASSUME IInv, [Next]_vars PROVE IInv'
  OBVIOUS
<1>1. CASE Layering
  BY <1>1, LayeringInv
<1>2. CASE \E inputs \in SUBSET Inputs : StartEvent(inputs)
  BY <1>2, StartEventInv
<1>3. CASE StartTimed
  BY <1>3, StartTimedInv
<1>4. ASSUME NEW o \in Outputs, Skip(o) \/ EvalStream(o)
      PROVE  IInv'
  BY <1>4, SkipInv, EvalStreamInv
<1>5. CASE FinishCycle
  BY <1>5, FinishCycleInv
<1>6. CASE UNCHANGED vars
  <2>1. UNCHANGED <<spec, orderVars, phase, tick, todo, fresh>>
    BY <1>6 DEF vars, storeVars
  <2>2. LayerInv'
    BY <2>1, LayersStay DEF IInv
  <2>3. CycleInv'
    BY <2>1 DEF IInv, CycleInv, EventInv, TimedInv, Satisfied, Periodic,
                DueAt, Ordered, orderVars
  <2>4. QED
    BY <2>2, <2>3 DEF IInv
<1>7. QED
  BY <1>1, <1>2, <1>3, <1>4, <1>5, <1>6 DEF Next

THEOREM Invariant == Spec => []IInv
<1>1. Init => IInv
  BY InitInv
<1>2. IInv /\ [Next]_vars => IInv'
  BY NextInv
<1>3. QED
  BY <1>1, <1>2, PTL DEF Spec

-----------------------------------------------------------------------------
(***************************************************************************)
(* Every stream is in a later layer than those it reads, for every set of  *)
(* specifications the frontend is given.                                   *)
(***************************************************************************)
THEOREM LayersRespectReads == Spec => []ReadersComeLater
<1>1. IInv => ReadersComeLater
  BY LayersFollow DEF IInv
<1>2. QED
  BY <1>1, Invariant, PTL

(***************************************************************************)
(* The assertion of lookup_latest_check never fails: an accepted           *)
(* specification reads synchronously only what has been evaluated in the   *)
(* same cycle.                                                             *)
(***************************************************************************)
LEMMA InvariantFresh == IInv => ReadsAreFresh
<1> SUFFICES ASSUME IInv, NEW o \in Upcoming, phase = "event" => Satisfied(o),
                    NEW r \in spec.reads[o], r.kind = "sync"
             PROVE  r.to \in fresh
  BY DEF ReadsAreFresh
<1>1. o \in Outputs /\ o \in todo /\ phase \in {"event", "timed"} /\ Ordered
  BY DEF Upcoming, IInv, CycleInv
<1>2. /\ spec \in Specifications /\ Accepted(spec) /\ tick \in Nat
      /\ layer \in [Streams -> Nat]
  BY DEF IInv, LayerInv, CycleInv
<1>3. r.to \in Named /\ r.to \in Streams /\ Weight(r) = 0
  BY <1>1, <1>2, SpecificationTypes
<1>4. r.to \notin todo
  <2>1. SameClass(spec, o, r.to)
    BY <1>1, <1>2 DEF Accepted, CheckAccess, Compatible
  <2>2. r \in ReadsInGraph(o)
    BY <2>1 DEF ReadsInGraph
  <2>3. layer[r.to] < layer[o]
    BY <1>1, <1>3, <2>2, LayersFollow DEF IInv, ReadersComeLater
  <2>4. layer[o] \in Nat /\ layer[r.to] \in Nat
    BY <1>1, <1>2, <1>3 DEF Streams
  <2>5. QED
    BY <2>3, <2>4 DEF Upcoming
<1>5. CASE phase = "event"
  <2>1. ~Periodic(spec, o)
    BY <1>1, <1>5 DEF IInv, CycleInv, EventInv
  <2>2. IF r.to \in Inputs THEN r.to \in fresh
        ELSE r.to \in Outputs /\ ~Periodic(spec, r.to) /\ Satisfied(r.to)
    BY <1>1, <1>2, <1>5, <2>1, CompatibleEvent
  <2>3. QED
    BY <1>3, <1>4, <1>5, <2>2 DEF IInv, CycleInv, EventInv, Named
<1>6. CASE phase = "timed"
  <2>1. o \in DueAt(tick)
    BY <1>1, <1>6 DEF IInv, CycleInv, TimedInv
  <2>2. r.to \in DueAt(tick)
    BY <1>2, <2>1, CompatibleTimed
  <2>3. QED
    BY <1>3, <1>4, <1>6, <2>2 DEF IInv, CycleInv, TimedInv, Named
<1>7. QED
  BY <1>1, <1>5, <1>6

THEOREM SynchronousReadsAreFresh == Spec => []ReadsAreFresh
<1>1. IInv => ReadsAreFresh
  BY InvariantFresh
<1>2. QED
  BY <1>1, Invariant, PTL

-----------------------------------------------------------------------------
(* The inductive invariant.                                                *)

(***************************************************************************)
(* The outputs the current cycle evaluates, and all streams it activates.  *)
(***************************************************************************)
ActiveOutputs ==
    IF phase = "timed" THEN DueAt(tick)
    ELSE {o \in Outputs : ~Periodic(spec, o) /\ Satisfied(o)}
Active == (fresh \cap Inputs) \cup ActiveOutputs

(***************************************************************************)
(* The log has one entry per finished cycle.                               *)
(***************************************************************************)
CountInv ==
    /\ \E S : log \in Seq(S)
    /\ cycle \in 0..MaxCycles
    /\ phase = "idle" => Len(log) = cycle
    /\ phase # "idle" => Len(log) + 1 = cycle

(***************************************************************************)
(* Fresh is what has been evaluated in this cycle and has a value.         *)
(***************************************************************************)
FreshInv ==
    phase # "idle" =>
        /\ DOMAIN reads = ActiveOutputs \ todo
        /\ fresh \cap Outputs = DOMAIN reads \ Triggers
        /\ phase = "timed" => fresh \cap Inputs = {}

(***************************************************************************)
(* A buffer holds the latest of the given values, newest first, as many as *)
(* its bound allows.                                                       *)
(***************************************************************************)
HoldsLatest(buffer, produced, limit) ==
    /\ Len(buffer) <= limit
    /\ Range(buffer) \subseteq produced
    /\ \A i, j \in DOMAIN buffer : i < j => buffer[i] > buffer[j]
    /\ \A n \in produced \ Range(buffer) :
           /\ Len(buffer) = limit
           /\ \A i \in DOMAIN buffer : n < buffer[i]

StoreInv ==
    /\ store \in [Streams -> Seq(Nat)]
    /\ \A s \in Named :
           HoldsLatest(store[s], ProducedSoFar(s), MemoryBound(spec, s))

(***************************************************************************)
(* The windows that are linked get every value.                            *)
(***************************************************************************)
WindowInv ==
    /\ DOMAIN windows = Windows(spec)
    /\ \A w \in LinkedWindows(spec) : windows[w] = ProducedSoFar(w[2].to)

HistoryInv == CountInv /\ FreshInv /\ StoreInv /\ WindowInv

(***************************************************************************)
(* What has been read so far is what it means, and a timed cycle is at the *)
(* next deadline after the latest one.                                     *)
(***************************************************************************)
ReadsInv ==
    phase # "idle" =>
        reads = [o \in ActiveOutputs \ todo |->
                    [r \in spec.reads[o] |-> Semantics!Meaning(r, Active)]]

NextDeadline(t) ==
    \E period \in Range(spec.period) :
        /\ t \in Semantics!LatestTick + 1..Semantics!LatestTick + period
        /\ Semantics!DueAt(t) # {}
        /\ \A u \in Semantics!LatestTick + 1..t - 1 : Semantics!DueAt(u) = {}
TickInv ==
    IF phase = "timed" THEN NextDeadline(tick) ELSE tick = Semantics!LatestTick

SemanticsInv == ReadsInv /\ TickInv

(***************************************************************************)
(* No trigger has a window: those are not linked.                          *)
(***************************************************************************)
NoTriggerWindows ==
    \A s \in Specifications : Accepted(s) => LinkedWindows(s) = Windows(s)
-----------------------------------------------------------------------------
(* Finite sets of numbers.                                                 *)

(***************************************************************************)
(* A finite set of numbers has a greatest element: one without would have  *)
(* a smallest subset without.                                              *)
(***************************************************************************)
LEMMA GreatestExists ==
    ASSUME NEW S \in SUBSET Nat, IsFiniteSet(S), S # {}
    PROVE  \E x \in S : \A y \in S : x >= y
<1> DEFINE Greatest(T) == \E x \in T : \A y \in T : x >= y
           Bad == {T \in FiniteSubsetsOf(Nat) : T # {} /\ ~Greatest(T)}
<1> SUFFICES ASSUME ~Greatest(S) PROVE FALSE
  OBVIOUS
<1>1. S \in Bad /\ Bad \subseteq FiniteSubsetsOf(Nat)
  BY DEF FiniteSubsetsOf
<1>2. PICK T \in Bad : \A U \in Bad : <<U, T>> \notin StrictSubsetOrdering(Nat)
  BY <1>1, WFMin, FS_StrictSubsetOrderingWellFounded
<1>3. T \subseteq Nat /\ IsFiniteSet(T) /\ T # {} /\ ~Greatest(T)
  BY <1>2 DEF FiniteSubsetsOf
<1>4. PICK x \in T : TRUE
  BY <1>3
<1>5. T \ {x} \notin Bad
  BY <1>2, <1>3, <1>4 DEF StrictSubsetOrdering
<1>6. T \ {x} \in FiniteSubsetsOf(Nat)
  BY <1>3, FS_RemoveElement DEF FiniteSubsetsOf
<1>7. Greatest(T)
  <2>1. CASE T \ {x} = {}
    BY <1>3, <1>4, <2>1
  <2>2. CASE Greatest(T \ {x})
    <3>1. PICK m \in T \ {x} : \A y \in T \ {x} : m >= y
      BY <2>2
    <3>2. m \in Nat /\ x \in Nat
      BY <1>3, <1>4, <3>1
    <3>3. \A y \in T : (IF m >= x THEN m ELSE x) >= y
      BY <1>3, <1>4, <3>1, <3>2
    <3>4. QED
      BY <1>4, <3>1, <3>3
  <2>3. QED
    BY <1>5, <1>6, <2>1, <2>2
<1>8. QED
  BY <1>3, <1>7

LEMMA MaxIs ==
    ASSUME NEW S \in SUBSET Nat, NEW x \in S, \A y \in S : x >= y
    PROVE  Max(S) = x
<1>1. \A z \in S : (\A y \in S : z >= y) => z = x
  OBVIOUS
<1>2. QED
  BY <1>1 DEF Max

LEMMA MaxBounds ==
    ASSUME NEW S \in SUBSET Nat, IsFiniteSet(S), S # {}
    PROVE  Max(S) \in S /\ \A y \in S : Max(S) >= y
  BY GreatestExists DEF Max

-----------------------------------------------------------------------------
(* The length of the buffers.                                              *)

(***************************************************************************)
(* The bound of a buffer is positive, and beyond every offset into it.     *)
(***************************************************************************)
LEMMA ReadsAreFinite ==
    ASSUME spec \in Specifications
    PROVE  IsFiniteSet(UNION {spec.reads[o] : o \in Outputs})
<1> DEFINE Reads == {spec.reads[o] : o \in Outputs}
           f == [o \in Outputs |-> spec.reads[o]]
<1>1. \A o \in Outputs : IsFiniteSet(spec.reads[o])
  BY SpecificationAssumption DEF IsSpecification
<1>2. f \in Surjection(Outputs, Reads)
  BY DEF Surjection
<1>3. IsFiniteSet(Reads)
  BY <1>2, FS_Surjection, StreamAssumption
<1>4. \A T \in Reads : IsFiniteSet(T)
  BY <1>1
<1>5. QED
  BY <1>3, <1>4, FS_UNION

LEMMA BoundIsAboveOffsets ==
    ASSUME spec \in Specifications, NEW s \in Named
    PROVE  /\ MemoryBound(spec, s) \in Nat \ {0}
           /\ \A o \in Outputs : \A r \in spec.reads[o] :
                 r.to = s => MemoryBound(spec, s) > r.by
<1> DEFINE All == UNION {spec.reads[o] : o \in Outputs}
           Into == {q \in All : q.to = s}
           Offsets == {r.by : r \in Into}
           f == [r \in Into |-> r.by]
<1>1. IsFiniteSet(Into)
  BY ReadsAreFinite, FS_Subset
<1>2. f \in Surjection(Into, Offsets)
  BY DEF Surjection
<1>3. IsFiniteSet(Offsets)
  BY <1>1, <1>2, FS_Surjection
<1>4. IsFiniteSet({0} \cup Offsets)
  BY <1>3, FS_Union, FS_Singleton
<1>5. {0} \cup Offsets \subseteq Nat
  BY SpecificationTypes
<1>6. /\ Max({0} \cup Offsets) \in {0} \cup Offsets
      /\ \A y \in {0} \cup Offsets : Max({0} \cup Offsets) >= y
  BY <1>4, <1>5, MaxBounds
<1>7. MemoryBound(spec, s) = 1 + Max({0} \cup Offsets)
  BY DEF MemoryBound, Named
<1>8. ASSUME NEW o \in Outputs, NEW r \in spec.reads[o], r.to = s
      PROVE  r.by \in Offsets
  BY <1>8
<1> DEFINE greatest == Max({0} \cup Offsets)
           bound == MemoryBound(spec, s)
<1>9. /\ Offsets \subseteq Nat /\ greatest \in Nat
      /\ \A y \in Offsets : greatest >= y
      /\ bound = 1 + greatest
  BY <1>5, <1>6, <1>7
<1> HIDE DEF Offsets, greatest, bound
<1>10. bound \in Nat \ {0} /\ \A y \in Offsets : bound > y
  BY <1>9
<1>11. \A o \in Outputs : \A r \in spec.reads[o] : r.to = s => bound > r.by
  BY <1>8, <1>10
<1>12. QED
  BY <1>10, <1>11 DEF bound

-----------------------------------------------------------------------------
(* Both specifications mean the same by a specification.                   *)

LEMMA SameCardinality == \A S : Semantics!Cardinality(S) = Cardinality(S)
  BY DEF Semantics!Cardinality, Cardinality

LEMMA SameCheckAccess ==
    ASSUME NEW s, NEW o, NEW r
    PROVE  Semantics!CheckAccess(s, o, r) <=> CheckAccess(s, o, r)
  BY DEF Semantics!CheckAccess, CheckAccess,
         Semantics!Compatible, Compatible, Semantics!SameClass, SameClass,
         Semantics!Periodic, Periodic, Semantics!ImpliesValid, ImpliesValid,
         Semantics!ActivationOf, ActivationOf, Semantics!True, True

LEMMA SameWeight ==
    ASSUME NEW path
    PROVE  Semantics!CycleWeight(path) = CycleWeight(path)
  BY DEF Semantics!CycleWeight, CycleWeight,
         Semantics!MapThenSumSet, MapThenSumSet,
         Semantics!MapThenFoldSet, MapThenFoldSet, Semantics!Weight, Weight

LEMMA SameFoundPaths ==
    ASSUME NEW s
    PROVE  Semantics!FoundPaths(s) = FoundPaths(s)
  BY SameCardinality
     DEF Semantics!FoundPaths, FoundPaths, Semantics!CyclicPaths, CyclicPaths,
         Semantics!IsClosed, IsClosed, Semantics!Edges, Edges,
         Semantics!Sources, Sources, Semantics!StartingNode, StartingNode,
         Semantics!Component, Component, Semantics!Reaches, Reaches

LEMMA SameAccepted ==
    ASSUME NEW s
    PROVE  Semantics!Accepted(s) <=> Accepted(s)
  BY SameCheckAccess, SameWeight, SameFoundPaths
     DEF Semantics!Accepted, Accepted, Semantics!CheckCycles, CheckCycles

-----------------------------------------------------------------------------
(* The buffers.                                                            *)

(***************************************************************************)
(* A value that is newer than all before is pushed in front of them.       *)
(***************************************************************************)
LEMMA PushKeeps ==
    ASSUME NEW buffer \in Seq(Nat), NEW produced \in SUBSET Nat,
           NEW limit \in Nat \ {0}, HoldsLatest(buffer, produced, limit),
           NEW n \in Nat, \A m \in produced : m < n
    PROVE  /\ PushValue(buffer, limit, n) \in Seq(Nat)
           /\ HoldsLatest(PushValue(buffer, limit, n), produced \cup {n}, limit)
<1> DEFINE k == IF Len(buffer) = limit THEN limit - 1 ELSE Len(buffer)
           kept == IF Len(buffer) = limit
                   THEN SubSeq(buffer, 1, Len(buffer) - 1) ELSE buffer
           new == <<n>> \o kept
<1>1. Len(buffer) \in Nat /\ Len(buffer) <= limit
  BY DEF HoldsLatest
<1>2. /\ k \in Nat /\ k < limit /\ k <= Len(buffer)
      /\ k = Len(buffer) \/ (k = limit - 1 /\ Len(buffer) = limit)
  BY <1>1
<1>3. /\ kept \in Seq(Nat) /\ Len(kept) = k
      /\ \A i \in 1..k : kept[i] = buffer[i]
  BY <1>1
<1> HIDE DEF kept, k
<1>4. /\ new \in Seq(Nat) /\ Len(new) = k + 1
      /\ new[1] = n
      /\ \A i \in 1..k : new[i + 1] = kept[i]
  BY <1>2, <1>3
<1> HIDE DEF new
<1>5. /\ \A i : i \in DOMAIN buffer <=> i \in 1..Len(buffer)
      /\ \A i : i \in DOMAIN new <=> i \in 1..k + 1
  BY <1>4
<1>6. \A i \in 1..Len(buffer) : buffer[i] \in produced /\ buffer[i] \in Nat
  BY <1>5 DEF HoldsLatest, Range
<1>7. \A i \in 1..k : buffer[i] \in produced /\ buffer[i] \in Nat
  BY <1>1, <1>2, <1>6
<1>8. \A i \in 1..k : new[i + 1] = buffer[i] /\ new[i + 1] < n
  BY <1>2, <1>3, <1>4, <1>7
<1>9. ASSUME NEW j \in DOMAIN new
      PROVE  j = 1 \/ \E i \in 1..k : j = i + 1
  <2>1. j \in 1..k + 1
    BY <1>5
  <2>2. CASE j # 1
    <3>1. j - 1 \in 1..k /\ j = (j - 1) + 1
      BY <1>2, <2>1, <2>2
    <3>2. QED
      BY <3>1
  <2>3. QED
    BY <2>2
<1>10. \A i \in 1..k : i + 1 \in DOMAIN new
  BY <1>2, <1>5
<1>11. Range(new) \subseteq produced \cup {n}
  <2>1. ASSUME NEW j \in DOMAIN new PROVE new[j] \in produced \cup {n}
    <3>1. CASE j = 1
      BY <1>4, <3>1
    <3>2. ASSUME NEW i \in 1..k, j = i + 1 PROVE new[j] \in produced
      <4>1. new[i + 1] = buffer[i] /\ buffer[i] \in produced
        BY <1>7, <1>8
      <4>2. QED
        BY <3>2, <4>1
    <3>3. QED
      BY <1>9, <3>1, <3>2
  <2>2. QED
    BY <2>1 DEF Range
<1>12. \A i, j \in 1..k : i < j => buffer[i] > buffer[j]
  <2>1. 1..k \subseteq DOMAIN buffer
    BY <1>1, <1>2, <1>5
  <2>2. QED
    BY <2>1 DEF HoldsLatest
<1>13. ASSUME NEW i \in DOMAIN new, NEW j \in DOMAIN new, i < j
       PROVE  new[i] > new[j]
  <2>1. ASSUME i = 1, NEW m \in 1..k, j = m + 1 PROVE new[i] > new[j]
    <3>1. new[m + 1] < n /\ new[1] = n /\ new[m + 1] \in Nat
      BY <1>4, <1>7, <1>8
    <3>2. QED
      BY <2>1, <3>1
  <2>2. ASSUME NEW l \in 1..k, NEW m \in 1..k, i = l + 1, j = m + 1
        PROVE  new[i] > new[j]
    <3>1. l < m
      BY <1>13, <2>2
    <3>2. QED
      BY <1>8, <1>12, <2>2, <3>1
  <2>3. j # 1
    BY <1>5, <1>13
  <2>4. QED
    BY <1>9, <2>1, <2>2, <2>3
<1>14. 1 \in DOMAIN new
  BY <1>2, <1>5
<1>15. ASSUME NEW m \in (produced \cup {n}) \ Range(new)
       PROVE  Len(new) = limit /\ \A i \in DOMAIN new : m < new[i]
  <2>1. n \in Range(new)
    BY <1>4, <1>14 DEF Range
  <2>2. m \in produced /\ m < n /\ m \in Nat
    BY <1>15, <2>1
  <2>3. \A i \in 1..k : buffer[i] # m
    BY <1>8, <1>10, <1>15 DEF Range
  <2>4. Len(buffer) = limit /\ \A i \in 1..k : m < buffer[i]
    <3>1. CASE m \in Range(buffer)
      <4>1. PICK l \in 1..Len(buffer) : buffer[l] = m
        BY <1>5, <3>1 DEF Range
      <4>2. l \notin 1..k
        BY <2>3, <4>1
      <4>3. Len(buffer) = limit /\ \A i \in 1..k : i < l
        BY <1>1, <1>2, <4>1, <4>2
      <4>4. \A i \in 1..k : i \in 1..Len(buffer)
        BY <1>1, <1>2
      <4>5. \A i \in 1..k : buffer[i] > buffer[l]
        BY <1>5, <4>1, <4>3, <4>4 DEF HoldsLatest
      <4>6. QED
        BY <1>7, <2>2, <4>1, <4>3, <4>5
    <3>2. CASE m \notin Range(buffer)
      <4>1. Len(buffer) = limit /\ \A i \in DOMAIN buffer : m < buffer[i]
        BY <2>2, <3>2 DEF HoldsLatest
      <4>2. QED
        BY <1>1, <1>2, <1>5, <4>1
    <3>3. QED
      BY <3>1, <3>2
  <2>5. \A i \in DOMAIN new : m < new[i]
    <3>1. m < new[1]
      BY <1>4, <2>2
    <3>2. \A l \in 1..k : m < new[l + 1]
      BY <1>8, <2>4
    <3>3. QED
      BY <1>9, <3>1, <3>2
  <2>6. QED
    BY <1>1, <1>2, <1>4, <2>4, <2>5
<1>16. HoldsLatest(new, produced \cup {n}, limit)
  BY <1>1, <1>2, <1>4, <1>11, <1>13, <1>15 DEF HoldsLatest
<1>17. PushValue(buffer, limit, n) = new
  BY DEF PushValue, new, kept
<1>18. QED
  BY <1>4, <1>16, <1>17

(***************************************************************************)
(* The newest value is the greatest one produced.                          *)
(***************************************************************************)
LEMMA NewestIsMax ==
    ASSUME NEW buffer \in Seq(Nat), NEW produced \in SUBSET Nat,
           NEW limit \in Nat \ {0}, HoldsLatest(buffer, produced, limit)
    PROVE  GetValue(buffer, 0) = Semantics!LatestOf(produced)
<1>1. \A i : i \in DOMAIN buffer <=> i \in 1..Len(buffer)
  OBVIOUS
<1>2. Len(buffer) \in Nat
  OBVIOUS
<1>3. CASE produced = {}
  <2>1. DOMAIN buffer = {}
    BY <1>3 DEF HoldsLatest, Range
  <2>2. QED
    BY <1>3, <2>1 DEF GetValue, Semantics!LatestOf
<1>4. CASE produced # {}
  <2>1. Len(buffer) # 0
    <3>1. SUFFICES ASSUME Len(buffer) = 0 PROVE FALSE
      OBVIOUS
    <3>2. Range(buffer) = {}
      BY <1>1, <3>1 DEF Range
    <3>3. Len(buffer) = limit
      BY <1>4, <3>2 DEF HoldsLatest
    <3>4. QED
      BY <3>1, <3>3
  <2>2. 1 \in DOMAIN buffer
    BY <1>1, <1>2, <2>1
  <2>3. buffer[1] \in produced
    BY <2>2 DEF HoldsLatest, Range
  <2>4. ASSUME NEW m \in produced PROVE buffer[1] >= m
    <3>1. CASE m \in Range(buffer)
      <4>1. PICK i \in DOMAIN buffer : buffer[i] = m
        BY <3>1 DEF Range
      <4>2. i = 1 \/ 1 < i
        BY <1>1, <1>2, <4>1
      <4>3. 1 < i => buffer[1] > buffer[i]
        BY <2>2, <4>1 DEF HoldsLatest
      <4>4. buffer[1] \in Nat /\ m \in Nat
        BY <2>3
      <4>5. QED
        BY <4>1, <4>2, <4>3, <4>4
    <3>2. CASE m \notin Range(buffer)
      <4>1. m < buffer[1]
        BY <2>2, <3>2 DEF HoldsLatest
      <4>2. buffer[1] \in Nat /\ m \in Nat
        BY <2>3
      <4>3. QED
        BY <4>1, <4>2
    <3>3. QED
      BY <3>1, <3>2
  <2>5. Max(produced) = buffer[1]
    BY <2>3, <2>4, MaxIs
  <2>6. Semantics!Max(produced) = Max(produced)
    BY DEF Max, Semantics!Max
  <2>7. Semantics!LatestOf(produced) = buffer[1]
    BY <1>4, <2>5, <2>6 DEF Semantics!LatestOf
  <2>8. 0 + 1 = 1
    OBVIOUS
  <2>9. GetValue(buffer, 0) = buffer[1]
    BY <2>2, <2>8, Zenon DEF GetValue
  <2>10. QED
    BY <2>7, <2>9
<1>5. QED
  BY <1>3, <1>4

(***************************************************************************)
(* The k-th value of a buffer is followed by k - 1 others.                 *)
(***************************************************************************)
AtLeast(produced, n) == {m \in produced : m >= n}

LEMMA LargerAreInFront ==
    ASSUME NEW buffer \in Seq(Nat), NEW produced \in SUBSET Nat,
           NEW limit \in Nat \ {0}, HoldsLatest(buffer, produced, limit),
           NEW k \in 1..Len(buffer)
    PROVE  /\ IsFiniteSet(AtLeast(produced, buffer[k]))
           /\ Cardinality(AtLeast(produced, buffer[k])) = k
<1> DEFINE front == [i \in 1..k |-> buffer[i]]
           S == AtLeast(produced, buffer[k])
<1>1. \A i : i \in DOMAIN buffer <=> i \in 1..Len(buffer)
  OBVIOUS
<1>2. Len(buffer) \in Nat /\ k \in Nat /\ k \in DOMAIN buffer
  OBVIOUS
<1>3. \A i \in DOMAIN buffer : buffer[i] \in produced /\ buffer[i] \in Nat
  BY DEF HoldsLatest, Range
<1>4. ASSUME NEW i \in 1..k
      PROVE  i \in DOMAIN buffer /\ buffer[i] \in S
  <2>1. i \in DOMAIN buffer /\ (i = k \/ i < k)
    BY <1>1, <1>2
  <2>2. i < k => buffer[i] > buffer[k]
    BY <1>2, <2>1 DEF HoldsLatest
  <2>3. buffer[i] \in Nat /\ buffer[k] \in Nat /\ buffer[i] \in produced
    BY <1>2, <1>3, <2>1
  <2>4. buffer[i] >= buffer[k]
    BY <2>1, <2>2, <2>3
  <2>5. QED
    BY <2>1, <2>3, <2>4 DEF AtLeast
<1>5. ASSUME NEW m \in S PROVE \E i \in 1..k : buffer[i] = m
  <2>1. m \in produced /\ m >= buffer[k] /\ m \in Nat
    BY DEF AtLeast
  <2>2. m \in Range(buffer)
    <3>1. SUFFICES ASSUME m \notin Range(buffer) PROVE FALSE
      OBVIOUS
    <3>2. m < buffer[k]
      BY <1>2, <2>1, <3>1 DEF HoldsLatest
    <3>3. buffer[k] \in Nat
      BY <1>2, <1>3
    <3>4. QED
      BY <2>1, <3>2, <3>3
  <2>3. PICK i \in DOMAIN buffer : buffer[i] = m
    BY <2>2 DEF Range
  <2>4. ~(k < i)
    <3>1. SUFFICES ASSUME k < i PROVE FALSE
      OBVIOUS
    <3>2. buffer[k] > buffer[i]
      BY <1>2, <3>1 DEF HoldsLatest
    <3>3. buffer[k] \in Nat
      BY <1>2, <1>3
    <3>4. QED
      BY <2>1, <2>3, <3>2, <3>3
  <2>5. i \in 1..k
    BY <1>1, <1>2, <2>4
  <2>6. QED
    BY <2>3, <2>5
<1>6. ASSUME NEW i \in 1..k, NEW j \in 1..k, buffer[i] = buffer[j]
      PROVE  i = j
  <2>1. i \in DOMAIN buffer /\ j \in DOMAIN buffer
    BY <1>4
  <2>2. i < j => buffer[i] > buffer[j]
    BY <2>1 DEF HoldsLatest
  <2>3. j < i => buffer[j] > buffer[i]
    BY <2>1 DEF HoldsLatest
  <2>4. buffer[i] \in Nat /\ buffer[j] \in Nat
    BY <1>3, <2>1
  <2>5. QED
    BY <1>6, <2>2, <2>3, <2>4
<1> HIDE DEF S
<1>7. front \in Bijection(1..k, S)
  BY <1>4, <1>5, <1>6 DEF Bijection, Injection, IsInjective, Surjection
<1>8. IsFiniteSet(1..k) /\ Cardinality(1..k) = k
  BY <1>2, FS_Interval
<1>9. ExistsBijection(1..k, S)
  BY <1>7 DEF ExistsBijection
<1>10. QED
  BY <1>8, <1>9, FS_Bijection DEF S

LEMMA KthIsIndex ==
    ASSUME NEW buffer \in Seq(Nat), NEW produced \in SUBSET Nat,
           NEW limit \in Nat \ {0}, HoldsLatest(buffer, produced, limit),
           IsFiniteSet(produced), NEW k \in 1..limit, NEW n \in produced
    PROVE  Cardinality(AtLeast(produced, n)) = k
           <=> k \in DOMAIN buffer /\ n = buffer[k]
<1>1. \A i : i \in DOMAIN buffer <=> i \in 1..Len(buffer)
  OBVIOUS
<1>2. \A i \in 1..Len(buffer) : Cardinality(AtLeast(produced, buffer[i])) = i
  BY LargerAreInFront
<1>3. CASE n \in Range(buffer)
  <2>1. PICK i \in DOMAIN buffer : buffer[i] = n
    BY <1>3 DEF Range
  <2>2. QED
    BY <1>1, <1>2, <2>1
<1>4. CASE n \notin Range(buffer)
  <2>1. Len(buffer) = limit /\ limit \in DOMAIN buffer /\ n < buffer[limit]
    <3>1. Len(buffer) = limit /\ \A i \in DOMAIN buffer : n < buffer[i]
      BY <1>4 DEF HoldsLatest
    <3>2. limit \in DOMAIN buffer
      BY <1>1, <3>1
    <3>3. QED
      BY <3>1, <3>2
  <2>2. n # buffer[k] \/ k \notin DOMAIN buffer
    BY <1>4 DEF Range
  <2>3. AtLeast(produced, buffer[limit]) \subseteq AtLeast(produced, n)
    <3>1. buffer[limit] \in Nat /\ n \in Nat
      BY <2>1 DEF HoldsLatest, Range
    <3>2. \A m \in Nat : m >= buffer[limit] => m >= n
      BY <2>1, <3>1
    <3>3. QED
      BY <3>2 DEF AtLeast
  <2>4. n \in AtLeast(produced, n) /\ n \notin AtLeast(produced, buffer[limit])
    <3>1. buffer[limit] \in Nat /\ n \in Nat
      BY <2>1 DEF HoldsLatest, Range
    <3>2. QED
      BY <2>1, <3>1 DEF AtLeast
  <2>5. IsFiniteSet(AtLeast(produced, n))
    BY FS_Subset DEF AtLeast
  <2>6. Cardinality(AtLeast(produced, buffer[limit])) = limit
    BY <1>1, <1>2, <2>1
  <2>7. /\ limit <= Cardinality(AtLeast(produced, n))
        /\ Cardinality(AtLeast(produced, n)) # limit
        /\ Cardinality(AtLeast(produced, n)) \in Nat
    BY <2>3, <2>4, <2>5, <2>6, FS_Subset, FS_CardinalityType
  <2>8. QED
    BY <2>2, <2>7
<1>5. QED
  BY <1>3, <1>4

(***************************************************************************)
(* An offset into the bounded buffer is one into the whole history, with   *)
(* and without a value of the current cycle.                               *)
(***************************************************************************)
LEMMA SingleLatest ==
    ASSUME NEW n \in Nat
    PROVE  Semantics!LatestOf({n}) = n
<1>1. Max({n}) = n
  BY MaxIs
<1>2. QED
  BY <1>1 DEF Semantics!LatestOf, Semantics!Max, Max

LEMMA OffsetIntoThePast ==
    ASSUME NEW buffer \in Seq(Nat), NEW produced \in SUBSET Nat,
           NEW limit \in Nat \ {0}, HoldsLatest(buffer, produced, limit),
           IsFiniteSet(produced), NEW k \in 1..limit
    PROVE  GetValue(buffer, k - 1) = Semantics!KthLatestOf(produced, k)
<1> DEFINE Kth == {n \in produced : Cardinality(AtLeast(produced, n)) = k}
<1>1. \A n \in produced : n \in Kth <=> k \in DOMAIN buffer /\ n = buffer[k]
  BY KthIsIndex
<1>2. k \in DOMAIN buffer => buffer[k] \in produced
  BY DEF HoldsLatest, Range
<1>3. Kth = IF k \in DOMAIN buffer THEN {buffer[k]} ELSE {}
  BY <1>1, <1>2
<1>4. Semantics!KthLatestOf(produced, k) = Semantics!LatestOf(Kth)
  BY SameCardinality DEF Semantics!KthLatestOf, AtLeast
<1>5. (k - 1) + 1 = k
  OBVIOUS
<1>6. GetValue(buffer, k - 1) = IF k \in DOMAIN buffer THEN buffer[k] ELSE NoValue
  BY <1>5, Zenon DEF GetValue
<1> HIDE DEF Kth
<1>7. CASE k \in DOMAIN buffer
  BY <1>2, <1>3, <1>4, <1>6, <1>7, SingleLatest
<1>8. CASE k \notin DOMAIN buffer
  BY <1>3, <1>4, <1>6, <1>8 DEF Semantics!LatestOf
<1>9. QED
  BY <1>7, <1>8

LEMMA OffsetBehindFresh ==
    ASSUME NEW buffer \in Seq(Nat), NEW before \in SUBSET Nat, NEW c \in Nat,
           \A n \in before : n < c,
           NEW limit \in Nat \ {0},
           HoldsLatest(buffer, before \cup {c}, limit),
           IsFiniteSet(before), NEW k \in Nat \ {0}, k < limit
    PROVE  GetValue(buffer, k) = Semantics!KthLatestOf(before, k)
<1> DEFINE produced == before \cup {c}
           Kth == {n \in before : Cardinality(AtLeast(before, n)) = k}
<1>1. IsFiniteSet(produced) /\ produced \in SUBSET Nat /\ k + 1 \in 1..limit
  BY FS_AddElement
<1>2. ASSUME NEW n \in before
      PROVE  n \in Kth <=> Cardinality(AtLeast(produced, n)) = k + 1
  <2>1. AtLeast(produced, n) = AtLeast(before, n) \cup {c}
    BY DEF AtLeast
  <2>2. c \notin AtLeast(before, n)
    BY DEF AtLeast
  <2>3. IsFiniteSet(AtLeast(before, n))
    BY FS_Subset DEF AtLeast
  <2>4. Cardinality(AtLeast(produced, n)) = Cardinality(AtLeast(before, n)) + 1
    BY <2>1, <2>2, <2>3, FS_AddElement
  <2>5. Cardinality(AtLeast(before, n)) \in Nat
    BY <2>3, FS_CardinalityType
  <2>6. QED
    BY <2>4, <2>5
<1>3. ASSUME NEW n \in before
      PROVE  n \in Kth <=> k + 1 \in DOMAIN buffer /\ n = buffer[k + 1]
  <2>1. Cardinality(AtLeast(produced, n)) = k + 1
        <=> k + 1 \in DOMAIN buffer /\ n = buffer[k + 1]
    BY <1>1, KthIsIndex
  <2>2. QED
    BY <1>2, <2>1
<1>4. ASSUME k + 1 \in DOMAIN buffer PROVE buffer[k + 1] \in before
  <2>1. buffer[k + 1] \in produced
    BY <1>4 DEF HoldsLatest, Range
  <2>2. SUFFICES ASSUME buffer[k + 1] = c PROVE FALSE
    BY <2>1
  <2>3. AtLeast(produced, c) = {c}
    <3>1. c >= c /\ \A m \in before : ~(m >= c)
      OBVIOUS
    <3>2. QED
      BY <3>1 DEF AtLeast
  <2>4. Cardinality(AtLeast(produced, c)) = 1
    BY <2>3, FS_Singleton
  <2>5. c \in produced
    OBVIOUS
  <2>6. Cardinality(AtLeast(produced, c)) = k + 1
    BY <1>1, <1>4, <2>2, <2>5, KthIsIndex
  <2>7. QED
    BY <2>4, <2>6
<1>5. Kth = IF k + 1 \in DOMAIN buffer THEN {buffer[k + 1]} ELSE {}
  BY <1>3, <1>4
<1>6. Semantics!KthLatestOf(before, k) = Semantics!LatestOf(Kth)
  BY SameCardinality DEF Semantics!KthLatestOf, AtLeast
<1>7. GetValue(buffer, k) =
          IF k + 1 \in DOMAIN buffer THEN buffer[k + 1] ELSE NoValue
  BY DEF GetValue
<1> HIDE DEF Kth
<1>8. CASE k + 1 \in DOMAIN buffer
  BY <1>4, <1>5, <1>6, <1>7, <1>8, SingleLatest
<1>9. CASE k + 1 \notin DOMAIN buffer
  BY <1>5, <1>6, <1>7, <1>9 DEF Semantics!LatestOf
<1>10. QED
  BY <1>8, <1>9

-----------------------------------------------------------------------------
(* What has been produced.                                                 *)

LEMMA LogDomain ==
    ASSUME CountInv
    PROVE  /\ Len(log) \in Nat /\ cycle \in Nat
           /\ \A n : n \in DOMAIN log <=> n \in 1..Len(log)
<1>1. PICK S : log \in Seq(S)
  BY DEF CountInv
<1>2. QED
  BY <1>1, CyclesAssumption DEF CountInv

Before(s) == {n \in DOMAIN log : s \in log[n].active}

LEMMA BeforeIsEarlier ==
    ASSUME CountInv, NEW s
    PROVE  /\ Before(s) \in SUBSET Nat /\ IsFiniteSet(Before(s))
           /\ \A n \in Before(s) : n <= Len(log)
<1>1. Before(s) \in SUBSET Nat /\ \A n \in Before(s) : n <= Len(log)
  BY LogDomain DEF Before
<1>2. IsFiniteSet(Before(s))
  BY <1>1, LogDomain, FS_BoundedSetOfNaturals
<1>3. QED
  BY <1>1, <1>2

LEMMA ProducedIsBounded ==
    ASSUME CountInv, NEW s
    PROVE  /\ ProducedSoFar(s) \in SUBSET Nat
           /\ \A n \in ProducedSoFar(s) :
                 /\ n <= cycle
                 /\ phase # "idle" /\ s \notin fresh => n < cycle
<1>1. ProducedSoFar(s) = Before(s) \cup
          (IF phase # "idle" /\ s \in fresh THEN {cycle} ELSE {})
  BY DEF ProducedSoFar, Before
<1>2. cycle \in Nat /\ Len(log) <= cycle /\ (phase # "idle" => Len(log) < cycle)
  BY LogDomain DEF CountInv
<1>3. QED
  BY <1>1, <1>2, BeforeIsEarlier, LogDomain

(***************************************************************************)
(* The streams that get a value keep the latest values, the others too.    *)
(***************************************************************************)
LEMMA StoredKeeps ==
    ASSUME spec \in Specifications, spec' = spec, StoreInv,
           NEW streams \in SUBSET Named, NEW n \in Nat,
           store' = Stored(streams, n),
           \A s \in Named : ProducedSoFar(s) \in SUBSET Nat,
           \A s \in streams : \A m \in ProducedSoFar(s) : m < n,
           \A s \in Named : ProducedSoFar(s)' =
               ProducedSoFar(s) \cup (IF s \in streams THEN {n} ELSE {})
    PROVE  StoreInv'
<1>1. ASSUME NEW s \in Named
      PROVE  /\ store[s] \in Seq(Nat)
             /\ MemoryBound(spec, s) \in Nat \ {0}
             /\ HoldsLatest(store[s], ProducedSoFar(s), MemoryBound(spec, s))
  BY BoundIsAboveOffsets DEF StoreInv, Named
<1>2. ASSUME NEW s \in Streams
      PROVE  store'[s] = IF s \in streams
                         THEN PushValue(store[s], MemoryBound(spec, s), n)
                         ELSE store[s]
  BY DEF Stored
<1>3. ASSUME NEW s \in streams
      PROVE  /\ store'[s] \in Seq(Nat)
             /\ HoldsLatest(store'[s], ProducedSoFar(s)', MemoryBound(spec, s))
  <2>1. s \in Named /\ s \in Streams
    BY DEF Named
  <2>2. /\ PushValue(store[s], MemoryBound(spec, s), n) \in Seq(Nat)
        /\ HoldsLatest(PushValue(store[s], MemoryBound(spec, s), n),
                       ProducedSoFar(s) \cup {n}, MemoryBound(spec, s))
    BY <1>1, <2>1, PushKeeps
  <2>3. QED
    BY <1>2, <2>1, <2>2
<1>4. store' \in [Streams -> Seq(Nat)]
  <2>1. \A s \in Streams : store'[s] \in Seq(Nat)
    BY <1>2, <1>3 DEF StoreInv
  <2>2. store' = [s \in Streams |-> store'[s]]
    BY DEF Stored
  <2>3. QED
    BY <2>1, <2>2
<1>5. ASSUME NEW s \in Named
      PROVE  HoldsLatest(store[s], ProducedSoFar(s), MemoryBound(spec, s))'
  <2>1. CASE s \in streams
    BY <1>3, <2>1 DEF HoldsLatest
  <2>2. CASE s \notin streams
    <3>1. store'[s] = store[s] /\ ProducedSoFar(s)' = ProducedSoFar(s)
      BY <1>2, <2>2 DEF Named
    <3>2. QED
      BY <1>1, <3>1 DEF HoldsLatest
  <2>3. QED
    BY <2>1, <2>2
<1>6. QED
  BY <1>4, <1>5 DEF StoreInv

LEMMA StoreStays ==
    ASSUME StoreInv, spec' = spec, store' = store,
           \A s \in Named : ProducedSoFar(s)' = ProducedSoFar(s)
    PROVE  StoreInv'
  BY DEF StoreInv, HoldsLatest

(***************************************************************************)
(* The same of the windows.                                                *)
(***************************************************************************)
LEMMA AcceptingKeeps ==
    ASSUME spec \in Specifications, spec' = spec, WindowInv,
           NEW streams, NEW n,
           windows' = Accepting(streams, n),
           \A s \in Named : ProducedSoFar(s)' =
               ProducedSoFar(s) \cup (IF s \in streams THEN {n} ELSE {})
    PROVE  WindowInv'
<1>1. DOMAIN windows' = Windows(spec)
  BY DEF Accepting
<1>2. ASSUME NEW w \in LinkedWindows(spec)
      PROVE  windows'[w] = ProducedSoFar(w[2].to)'
  <2>1. w \in Windows(spec) /\ w[2].to \in Named
    BY SpecificationTypes DEF LinkedWindows, Windows
  <2>2. (\E s \in streams : w \in DependentWindows(spec, s))
        <=> w[2].to \in streams
    BY DEF DependentWindows
  <2>3. windows[w] = ProducedSoFar(w[2].to)
    BY DEF WindowInv
  <2>4. windows'[w] = IF w[2].to \in streams THEN windows[w] \cup {n}
                      ELSE windows[w]
    BY <2>1, <2>2 DEF Accepting
  <2>5. QED
    BY <2>1, <2>3, <2>4
<1>3. QED
  BY <1>1, <1>2 DEF WindowInv

LEMMA WindowsStay ==
    ASSUME spec \in Specifications, spec' = spec, WindowInv,
           windows' = windows,
           \A s \in Named : ProducedSoFar(s)' = ProducedSoFar(s)
    PROVE  WindowInv'
<1>1. ASSUME NEW w \in LinkedWindows(spec)
      PROVE  windows'[w] = ProducedSoFar(w[2].to)'
  <2>1. w[2].to \in Named
    BY SpecificationTypes DEF LinkedWindows, Windows
  <2>2. QED
    BY <2>1 DEF WindowInv
<1>2. QED
  BY <1>1 DEF WindowInv

-----------------------------------------------------------------------------
(* The history is kept.                                                    *)

LEMMA HistoryInit == Init => HistoryInv
<1> SUFFICES ASSUME Init PROVE HistoryInv
  OBVIOUS
<1>1. spec \in Specifications
  BY DEF Init, OrderInit
<1>2. log = <<>> /\ phase = "idle" /\ cycle = 0
  BY DEF Init
<1>3. log \in Seq({}) /\ Len(log) = 0
  BY <1>2
<1>4. CountInv
  BY <1>2, <1>3, CyclesAssumption DEF CountInv
<1>5. FreshInv
  BY <1>2 DEF FreshInv
<1>6. ASSUME NEW s PROVE ProducedSoFar(s) = {}
  BY <1>2, <1>4, LogDomain DEF ProducedSoFar
<1>7. store = [s \in Streams |-> <<>>]
  BY DEF Init
<1>8. ASSUME NEW s \in Named
      PROVE  HoldsLatest(store[s], ProducedSoFar(s), MemoryBound(spec, s))
  <2>1. store[s] = <<>>
    BY <1>7 DEF Named
  <2>2. MemoryBound(spec, s) \in Nat
    BY <1>1, BoundIsAboveOffsets
  <2>3. Range(<<>>) = {} /\ DOMAIN <<>> = {} /\ Len(<<>>) = 0
    BY DEF Range
  <2>4. QED
    BY <1>6, <2>1, <2>2, <2>3 DEF HoldsLatest
<1>9. StoreInv
  BY <1>7, <1>8 DEF StoreInv
<1>10. WindowInv
  BY <1>6 DEF WindowInv, Init, LinkedWindows
<1>11. QED
  BY <1>4, <1>5, <1>9, <1>10 DEF HistoryInv

(***************************************************************************)
(* Steps that leave the history alone.                                     *)
(***************************************************************************)
LEMMA LayeringHistory == IInv /\ HistoryInv /\ Layering => HistoryInv'
<1> SUFFICES ASSUME IInv, HistoryInv, Layering PROVE HistoryInv'
  OBVIOUS
<1>1. /\ UNCHANGED <<phase, cycle, tick, todo, fresh, store, windows, reads, log>>
      /\ spec' = spec /\ spec \in Specifications
  BY DEF Layering, PruneLayer, storeVars, IInv, LayerInv
<1>2. phase = "idle"
  BY DEF IInv, CycleInv, Layering, PruneLayer, Ordered
<1>3. \A s : ProducedSoFar(s)' = ProducedSoFar(s)
  BY <1>1 DEF ProducedSoFar
<1>4. CountInv' /\ FreshInv'
  BY <1>1, <1>2 DEF HistoryInv, CountInv, FreshInv
<1>5. QED
  BY <1>1, <1>3, <1>4, StoreStays, WindowsStay DEF HistoryInv

LEMMA StartEventHistory ==
    ASSUME IInv, HistoryInv, NEW inputs \in SUBSET Inputs, StartEvent(inputs)
    PROVE  HistoryInv'
<1>1. /\ spec \in Specifications /\ spec' = spec /\ log' = log
      /\ phase = "idle" /\ phase' = "event" /\ cycle < MaxCycles
      /\ cycle' = cycle + 1 /\ fresh' = inputs /\ reads' = <<>>
      /\ todo' = {o \in Outputs : ~Periodic(spec, o)}
      /\ store' = Stored(inputs, cycle + 1)
      /\ windows' = Accepting(inputs, cycle + 1)
  BY DEF StartEvent, IInv, LayerInv
<1>2. CountInv'
  BY <1>1, LogDomain, CyclesAssumption DEF HistoryInv, CountInv
<1>3. FreshInv'
  <2>1. ActiveOutputs' \subseteq todo'
    BY <1>1 DEF ActiveOutputs, Periodic
  <2>2. DOMAIN reads' = {}
    BY <1>1
  <2>3. fresh' \cap Outputs = {}
    BY <1>1, StreamAssumption
  <2>4. QED
    BY <1>1, <2>1, <2>2, <2>3 DEF FreshInv
<1>4. cycle \in Nat
  BY LogDomain DEF HistoryInv
<1>5. \A s \in Named : /\ ProducedSoFar(s) \in SUBSET Nat
                       /\ \A m \in ProducedSoFar(s) : m < cycle + 1
  BY <1>4, ProducedIsBounded DEF HistoryInv
<1>6. \A s \in Named : ProducedSoFar(s)' = ProducedSoFar(s) \cup
          (IF s \in inputs THEN {cycle + 1} ELSE {})
  BY <1>1 DEF ProducedSoFar
<1>7. inputs \in SUBSET Named
  BY StreamAssumption DEF Named, Streams
<1>8. StoreInv'
  BY <1>1, <1>4, <1>5, <1>6, <1>7, StoredKeeps DEF HistoryInv
<1>9. WindowInv'
  BY <1>1, <1>4, <1>6, AcceptingKeeps DEF HistoryInv
<1>10. QED
  BY <1>2, <1>3, <1>8, <1>9 DEF HistoryInv

LEMMA StartTimedHistory == IInv /\ HistoryInv /\ StartTimed => HistoryInv'
<1> SUFFICES ASSUME IInv, HistoryInv, StartTimed PROVE HistoryInv'
  OBVIOUS
<1>1. /\ spec \in Specifications /\ spec' = spec /\ log' = log
      /\ phase = "idle" /\ phase' = "timed" /\ cycle < MaxCycles
      /\ cycle' = cycle + 1 /\ fresh' = {} /\ reads' = <<>>
      /\ todo' = DueAt(tick')
      /\ store' = store /\ windows' = windows
  BY DEF StartTimed, IInv, LayerInv
<1>2. CountInv'
  BY <1>1, LogDomain, CyclesAssumption DEF HistoryInv, CountInv
<1>3. FreshInv'
  <2>1. ActiveOutputs' = todo'
    BY <1>1 DEF ActiveOutputs, DueAt, Periodic
  <2>2. DOMAIN reads' = {}
    BY <1>1
  <2>3. QED
    BY <1>1, <2>1, <2>2 DEF FreshInv
<1>4. \A s \in Named : ProducedSoFar(s)' = ProducedSoFar(s)
  BY <1>1 DEF ProducedSoFar
<1>5. QED
  BY <1>1, <1>2, <1>3, <1>4, StoreStays, WindowsStay DEF HistoryInv

(***************************************************************************)
(* Within a cycle, the active streams stay the same.                       *)
(***************************************************************************)
LEMMA ActiveStays ==
    ASSUME spec \in Specifications, UNCHANGED <<spec, phase, tick>>,
           NEW o \in Outputs, fresh' \in {fresh, fresh \cup {o}}
    PROVE  ActiveOutputs' = ActiveOutputs /\ Active' = Active
<1>1. DueAt(tick)' = DueAt(tick)
  BY DEF DueAt, Periodic
<1>2. \A p \in Outputs : Satisfied(p)' <=> Satisfied(p)
  BY SatisfiedByInputs
<1>3. ActiveOutputs' = ActiveOutputs
  BY <1>1, <1>2 DEF ActiveOutputs, Periodic
<1>4. fresh' \cap Inputs = fresh \cap Inputs
  BY StreamAssumption
<1>5. QED
  BY <1>3, <1>4 DEF Active

LEMMA SkipHistory ==
    ASSUME IInv, HistoryInv, NEW o \in Outputs, Skip(o)
    PROVE  HistoryInv'
<1>1. /\ spec \in Specifications /\ phase = "event"
      /\ UNCHANGED <<spec, phase, cycle, tick, fresh, store, windows, reads, log>>
      /\ todo' = todo \ {o} /\ ~Satisfied(o)
  BY DEF Skip, storeVars, IInv, LayerInv
<1>2. CountInv'
  BY <1>1 DEF HistoryInv, CountInv
<1>3. FreshInv'
  <2>1. ActiveOutputs' = ActiveOutputs
    BY <1>1, ActiveStays
  <2>2. o \notin ActiveOutputs
    BY <1>1 DEF ActiveOutputs
  <2>3. QED
    BY <1>1, <2>1, <2>2 DEF HistoryInv, FreshInv
<1>4. \A s : ProducedSoFar(s)' = ProducedSoFar(s)
  BY <1>1 DEF ProducedSoFar
<1>5. QED
  BY <1>1, <1>2, <1>3, <1>4, StoreStays, WindowsStay DEF HistoryInv

(***************************************************************************)
(* An output that is evaluated is active and not yet fresh.                *)
(***************************************************************************)
LEMMA EvaluatedIsActive ==
    ASSUME IInv, NEW o \in Upcoming, phase = "event" => Satisfied(o)
    PROVE  /\ o \in Outputs /\ o \in todo /\ o \in ActiveOutputs
           /\ phase # "idle"
<1>1. o \in todo /\ todo \subseteq Outputs /\ phase \in {"event", "timed"}
  BY DEF Upcoming, IInv, CycleInv
<1>2. CASE phase = "event"
  BY <1>1, <1>2 DEF IInv, CycleInv, EventInv, ActiveOutputs
<1>3. CASE phase = "timed"
  BY <1>1, <1>3 DEF IInv, CycleInv, TimedInv, ActiveOutputs
<1>4. QED
  BY <1>1, <1>2, <1>3

LEMMA EvalStreamHistory ==
    ASSUME IInv, HistoryInv, NEW o \in Outputs, EvalStream(o)
    PROVE  HistoryInv'
<1>1. /\ spec \in Specifications
      /\ UNCHANGED <<spec, phase, cycle, tick, log>>
      /\ o \in Upcoming /\ (phase = "event" => Satisfied(o))
      /\ todo' = todo \ {o}
      /\ fresh' = IF o \in Triggers THEN fresh ELSE fresh \cup {o}
      /\ store' = IF o \in Triggers THEN store ELSE Stored({o}, cycle)
      /\ windows' = Accepting({o}, cycle)
      /\ DOMAIN reads' = DOMAIN reads \cup {o}
  BY DEF EvalStream, IInv, LayerInv
<1>2. o \in todo /\ o \in ActiveOutputs /\ phase # "idle"
  BY <1>1, EvaluatedIsActive
<1>3. ActiveOutputs' = ActiveOutputs
  BY <1>1, ActiveStays
<1>4. CountInv'
  BY <1>1 DEF HistoryInv, CountInv
<1>5. o \notin fresh
  BY <1>2 DEF HistoryInv, FreshInv
<1>6. FreshInv'
  <2>1. fresh' \cap Inputs = fresh \cap Inputs
    BY <1>1, StreamAssumption
  <2>2. QED
    BY <1>1, <1>2, <1>3, <2>1 DEF HistoryInv, FreshInv
<1>7. \A s \in Named : ProducedSoFar(s)' = ProducedSoFar(s) \cup
          (IF s \in {o} THEN {cycle} ELSE {})
  BY <1>1, <1>2, <1>5 DEF ProducedSoFar, Named
<1>8. cycle \in Nat
  BY LogDomain DEF HistoryInv
<1>9. \A s \in Named : ProducedSoFar(s) \in SUBSET Nat
  BY ProducedIsBounded DEF HistoryInv
<1>10. \A m \in ProducedSoFar(o) : m < cycle
  BY <1>2, <1>5, ProducedIsBounded DEF HistoryInv
<1>11. StoreInv'
  <2>1. CASE o \in Triggers
    <3>1. \A s \in Named : ProducedSoFar(s)' = ProducedSoFar(s)
      BY <1>7, <2>1 DEF Named
    <3>2. QED
      BY <1>1, <2>1, <3>1, StoreStays DEF HistoryInv
  <2>2. CASE o \notin Triggers
    <3>1. {o} \in SUBSET Named
      BY <2>2 DEF Named, Streams
    <3>2. QED
      BY <1>1, <1>7, <1>8, <1>9, <1>10, <2>2, <3>1, StoredKeeps
         DEF HistoryInv
  <2>3. QED
    BY <2>1, <2>2
<1>12. WindowInv'
  BY <1>1, <1>7, AcceptingKeeps DEF HistoryInv
<1>13. QED
  BY <1>4, <1>6, <1>11, <1>12 DEF HistoryInv

LEMMA FinishCycleHistory == IInv /\ HistoryInv /\ FinishCycle => HistoryInv'
<1> DEFINE entry == [active |-> (fresh \cap Inputs) \cup DOMAIN reads,
                     tick |-> tick, reads |-> reads]
<1> SUFFICES ASSUME IInv, HistoryInv, FinishCycle PROVE HistoryInv'
  OBVIOUS
<1>1. /\ spec \in Specifications
      /\ phase # "idle" /\ phase' = "idle"
      /\ UNCHANGED <<spec, cycle, tick, store, windows, reads>>
      /\ log' = Append(log, entry)
  BY DEF FinishCycle, IInv, LayerInv
<1>2. Len(log) + 1 = cycle /\ Len(log) \in Nat
  BY <1>1, LogDomain DEF HistoryInv, CountInv
<1> DEFINE e == entry
<1>3. \E S : log' \in Seq(S) /\ Len(log') = cycle
  <2>1. PICK S : log \in Seq(S)
    BY DEF HistoryInv, CountInv
  <2>2. log \in Seq(S \cup {e}) /\ e \in S \cup {e}
    BY <2>1, SeqMonotonic
  <2> HIDE DEF e
  <2>3. log' \in Seq(S \cup {e}) /\ Len(log') = Len(log) + 1
    BY <1>1, <2>2 DEF e
  <2>4. QED
    BY <1>2, <2>3
<1>4. CountInv'
  BY <1>1, <1>3 DEF HistoryInv, CountInv
<1>5. /\ \A n : n \in DOMAIN log' <=> n \in DOMAIN log \/ n = cycle
      /\ \A n \in DOMAIN log : log'[n] = log[n]
      /\ log'[cycle] = entry
      /\ cycle \notin DOMAIN log
  <2>1. PICK S : log \in Seq(S)
    BY DEF HistoryInv, CountInv
  <2>2. log \in Seq(S \cup {e}) /\ e \in S \cup {e}
    BY <2>1, SeqMonotonic
  <2> HIDE DEF e
  <2>3. log' = Append(log, e)
    BY <1>1 DEF e
  <2>4. /\ \A n : n \in DOMAIN log <=> n \in 1..Len(log)
        /\ \A n : n \in DOMAIN log' <=> n \in 1..Len(log) + 1
        /\ \A n \in 1..Len(log) : log'[n] = log[n]
        /\ log'[Len(log) + 1] = e
    BY <1>2, <2>2, <2>3
  <2>5. QED
    BY <1>2, <2>4 DEF e
<1>6. \A s \in Named : ProducedSoFar(s)' = ProducedSoFar(s)
  <2>1. ASSUME NEW s \in Named
        PROVE  s \in (fresh \cap Inputs) \cup DOMAIN reads <=> s \in fresh
    BY <1>1 DEF HistoryInv, FreshInv, Named, Streams, ActiveOutputs, DueAt
  <2>2. QED
    BY <1>1, <1>5, <2>1 DEF ProducedSoFar
<1>7. FreshInv'
  BY <1>1 DEF FreshInv
<1>8. QED
  BY <1>1, <1>4, <1>6, <1>7, StoreStays, WindowsStay DEF HistoryInv

LEMMA HistoryNext == IInv /\ HistoryInv /\ [Next]_vars => HistoryInv'
<1> SUFFICES ASSUME IInv, HistoryInv, [Next]_vars PROVE HistoryInv'
  OBVIOUS
<1>1. CASE Layering
  BY <1>1, LayeringHistory
<1>2. CASE \E inputs \in SUBSET Inputs : StartEvent(inputs)
  BY <1>2, StartEventHistory
<1>3. CASE StartTimed
  BY <1>3, StartTimedHistory
<1>4. ASSUME NEW o \in Outputs, Skip(o) \/ EvalStream(o)
      PROVE  HistoryInv'
  BY <1>4, SkipHistory, EvalStreamHistory
<1>5. CASE FinishCycle
  BY <1>5, FinishCycleHistory
<1>6. CASE UNCHANGED vars
  <2>1. UNCHANGED <<spec, phase, cycle, tick, todo, fresh, store, windows,
                    reads, log>>
    BY <1>6 DEF vars, storeVars
  <2>2. spec \in Specifications
    BY DEF IInv, LayerInv
  <2>3. \A s : ProducedSoFar(s)' = ProducedSoFar(s)
    BY <2>1 DEF ProducedSoFar
  <2>4. CountInv'
    BY <2>1 DEF HistoryInv, CountInv
  <2>5. FreshInv'
    BY <2>1 DEF HistoryInv, FreshInv, ActiveOutputs, DueAt, Periodic, Satisfied
  <2>6. QED
    BY <2>1, <2>2, <2>3, <2>4, <2>5, StoreStays, WindowsStay DEF HistoryInv
<1>7. QED
  BY <1>1, <1>2, <1>3, <1>4, <1>5, <1>6 DEF Next

THEOREM HistoryInvariant == Spec => [](IInv /\ HistoryInv)
<1>1. Init => IInv /\ HistoryInv
  BY InitInv, HistoryInit
<1>2. IInv /\ HistoryInv /\ [Next]_vars => (IInv /\ HistoryInv)'
  BY NextInv, HistoryNext
<1>3. QED
  BY <1>1, <1>2, PTL DEF Spec

(***************************************************************************)
(* The buffer of every stream holds its latest values, as many as its      *)
(* bound allows and no fewer than there are.                               *)
(***************************************************************************)
THEOREM BuffersHoldTheLatest == Spec => []StoresHoldLatest
<1>1. HistoryInv => StoresHoldLatest
  BY DEF HistoryInv, StoreInv, HoldsLatest, StoresHoldLatest
<1>2. QED
  BY <1>1, HistoryInvariant, PTL

(***************************************************************************)
(* Unless a trigger has a window, every window is handed every value of    *)
(* the stream it is over.                                                  *)
(***************************************************************************)
THEOREM WindowsGetEveryValue ==
    ASSUME NoTriggerWindows
    PROVE  Spec => []WindowsSeeTheirStream
<1>1. IInv /\ HistoryInv => WindowsSeeTheirStream
  BY DEF NoTriggerWindows, IInv, LayerInv, HistoryInv, WindowInv,
         WindowsSeeTheirStream
<1>2. QED
  BY <1>1, HistoryInvariant, PTL

-----------------------------------------------------------------------------
(* What is read.                                                           *)

LEMMA SameDueAt ==
    ASSUME NEW t
    PROVE  Semantics!DueAt(t) = DueAt(t)
  BY DEF Semantics!DueAt, DueAt, Semantics!Periodic, Periodic

(***************************************************************************)
(* The cycle check refuses a window of a stream over itself, which the     *)
(* layers do not look at.                                                  *)
(***************************************************************************)
LEMMA NoWindowOverItself ==
    ASSUME Accepted(spec), NEW o \in Outputs, NEW r \in spec.reads[o],
           r.kind = "window"
    PROVE  r.to # o
<1> DEFINE e == <<o, r>>
<1> SUFFICES ASSUME r.to = o PROVE FALSE
  OBVIOUS
<1>1. e \in Edges(spec)
  BY DEF Edges
<1>2. IsClosed({e})
  BY DEF IsClosed, Sources
<1>3. {e} \in CyclicPaths(spec)
  BY <1>1, <1>2 DEF CyclicPaths
<1>4. Cardinality({e}) = 1
  BY FS_Singleton
<1>5. {e} \in FoundPaths(spec)
  BY <1>3, <1>4 DEF FoundPaths
<1>6. e[2].kind # "window"
  BY <1>5 DEF Accepted, CheckCycles
<1>7. QED
  BY <1>6

(***************************************************************************)
(* When an output is evaluated, a stream whose current value it accesses   *)
(* is fresh if it is active in this cycle: it comes earlier in the order.  *)
(***************************************************************************)
LEMMA FreshIsActive ==
    ASSUME IInv, HistoryInv, NEW o \in Upcoming,
           phase = "event" => Satisfied(o),
           NEW r \in spec.reads[o], Weight(r) = 0
    PROVE  r.to \in fresh <=> r.to \in Active
<1>1. /\ o \in Outputs /\ o \in todo /\ o \in ActiveOutputs
      /\ phase \in {"event", "timed"}
  BY EvaluatedIsActive DEF IInv, CycleInv
<1>2. /\ spec \in Specifications /\ Accepted(spec)
      /\ layer \in [Streams -> Nat] /\ Ordered
  BY <1>1 DEF IInv, LayerInv, CycleInv
<1>3. r.to \in Named /\ r.to \in Streams
  BY <1>1, <1>2, SpecificationTypes
<1>4. ActiveOutputs \subseteq Outputs
  BY DEF ActiveOutputs, DueAt
<1>5. CASE r.to \in Inputs
  BY <1>4, <1>5, StreamAssumption DEF Active
<1>6. CASE r.to \notin Inputs
  <2>1. r.to \in Outputs \ Triggers
    BY <1>3, <1>6 DEF Named, Streams
  <2>2. r.to \in fresh <=> r.to \in ActiveOutputs \ todo
    BY <1>1, <2>1 DEF HistoryInv, FreshInv
  <2>3. ASSUME r.to \in ActiveOutputs PROVE r.to \notin todo
    <3>1. SameClass(spec, o, r.to)
      BY <1>1, <2>3 DEF SameClass, ActiveOutputs, DueAt
    <3>2. r.kind = "window" => r.to # o
      BY <1>1, <1>2, NoWindowOverItself
    <3>3. r \in ReadsInGraph(o)
      BY <3>1, <3>2 DEF ReadsInGraph
    <3>4. layer[r.to] < layer[o]
      BY <1>1, <1>2, <3>3, LayersFollow DEF IInv, ReadersComeLater
    <3>5. layer[o] \in Nat /\ layer[r.to] \in Nat
      BY <1>1, <1>2, <1>3 DEF Streams
    <3>6. QED
      BY <3>4, <3>5 DEF Upcoming
  <2>4. QED
    BY <1>6, <2>2, <2>3 DEF Active
<1>7. QED
  BY <1>5, <1>6

(***************************************************************************)
(* What a stream has produced so far is what the meaning says of it.       *)
(***************************************************************************)
LEMMA ProducedMeans ==
    ASSUME CountInv, phase # "idle", NEW s, s \in fresh <=> s \in Active
    PROVE  Semantics!Produced(s, Active) = ProducedSoFar(s)
<1>1. Len(log) + 1 = cycle
  BY DEF CountInv
<1>2. QED
  BY <1>1 DEF Semantics!Produced, Semantics!ProducedBefore, ProducedSoFar

(***************************************************************************)
(* The current or the latest value: x, x.hold() and x.get().               *)
(***************************************************************************)
LEMMA LatestMeans ==
    ASSUME IInv, HistoryInv, NEW s \in Named
    PROVE  LookupLatest(s) = Semantics!LatestOf(ProducedSoFar(s))
<1>1. spec \in Specifications /\ s \in Streams
  BY DEF IInv, LayerInv, Named
<1>2. /\ store[s] \in Seq(Nat)
      /\ HoldsLatest(store[s], ProducedSoFar(s), MemoryBound(spec, s))
  BY <1>1 DEF HistoryInv, StoreInv
<1>3. MemoryBound(spec, s) \in Nat \ {0}
  BY <1>1, BoundIsAboveOffsets
<1>4. ProducedSoFar(s) \in SUBSET Nat
  BY ProducedIsBounded DEF HistoryInv
<1>5. QED
  BY <1>2, <1>3, <1>4, NewestIsMax DEF LookupLatest

LEMMA FreshIsCurrent ==
    ASSUME IInv, HistoryInv, phase # "idle", NEW s \in Named, s \in fresh
    PROVE  LookupLatest(s) = Len(log) + 1
<1>1. cycle \in ProducedSoFar(s)
  BY DEF ProducedSoFar
<1>2. /\ ProducedSoFar(s) \in SUBSET Nat
      /\ \A n \in ProducedSoFar(s) : cycle >= n
  BY <1>1, ProducedIsBounded DEF HistoryInv
<1>3. Max(ProducedSoFar(s)) = cycle
  BY <1>1, <1>2, MaxIs
<1>4. Semantics!LatestOf(ProducedSoFar(s)) = cycle
  BY <1>1, <1>3 DEF Semantics!LatestOf, Semantics!Max, Max
<1>5. Len(log) + 1 = cycle
  BY DEF HistoryInv, CountInv
<1>6. QED
  BY <1>4, <1>5, LatestMeans

(***************************************************************************)
(* An offset counts the values of the earlier cycles.                      *)
(***************************************************************************)
LEMMA OffsetMeans ==
    ASSUME IInv, HistoryInv, phase # "idle",
           NEW o \in Outputs, NEW r \in spec.reads[o], r.by > 0
    PROVE  LookupWithOffset(r) =
               Semantics!KthLatestOf(Semantics!ProducedBefore(r.to), r.by)
<1> DEFINE s == r.to
           k == r.by
           limit == MemoryBound(spec, s)
<1>1. spec \in Specifications
  BY DEF IInv, LayerInv
<1>2. s \in Named /\ s \in Streams /\ k \in Nat \ {0}
  BY <1>1, SpecificationTypes
<1>3. limit \in Nat \ {0} /\ limit > k
  BY <1>1, <1>2, BoundIsAboveOffsets
<1>4. store[s] \in Seq(Nat) /\ HoldsLatest(store[s], ProducedSoFar(s), limit)
  BY <1>2 DEF HistoryInv, StoreInv
<1>5. Semantics!ProducedBefore(s) = Before(s)
  BY DEF Semantics!ProducedBefore, Before
<1>6. /\ Before(s) \in SUBSET Nat /\ IsFiniteSet(Before(s))
      /\ \A n \in Before(s) : n < cycle
      /\ cycle \in Nat
  BY BeforeIsEarlier, LogDomain DEF HistoryInv, CountInv
<1>7. ProducedSoFar(s) = Before(s) \cup (IF s \in fresh THEN {cycle} ELSE {})
  BY DEF ProducedSoFar, Before
<1> HIDE DEF s, k, limit
<1>8. CASE s \in fresh
  <2>1. HoldsLatest(store[s], Before(s) \cup {cycle}, limit)
    BY <1>4, <1>7, <1>8
  <2>2. GetValue(store[s], k) = Semantics!KthLatestOf(Before(s), k)
    BY <1>2, <1>3, <1>4, <1>6, <2>1, OffsetBehindFresh
  <2>3. QED
    BY <1>5, <1>8, <2>2 DEF LookupWithOffset, s, k
<1>9. CASE s \notin fresh
  <2>1. HoldsLatest(store[s], Before(s), limit)
    BY <1>4, <1>7, <1>9
  <2>2. k \in 1..limit
    BY <1>2, <1>3
  <2>3. GetValue(store[s], k - 1) = Semantics!KthLatestOf(Before(s), k)
    BY <1>3, <1>4, <1>6, <2>1, <2>2, OffsetIntoThePast
  <2>4. QED
    BY <1>5, <1>9, <2>3 DEF LookupWithOffset, s, k
<1>10. QED
  BY <1>8, <1>9

(***************************************************************************)
(* Every access reads what it means.                                       *)
(***************************************************************************)
LEMMA LookupMeans ==
    ASSUME NoTriggerWindows, IInv, HistoryInv, NEW o \in Upcoming,
           phase = "event" => Satisfied(o), NEW r \in spec.reads[o]
    PROVE  Lookup(o, r) = Semantics!Meaning(r, Active)
<1>1. o \in Outputs /\ phase # "idle"
  BY EvaluatedIsActive
<1>2. spec \in Specifications /\ Accepted(spec)
  BY DEF IInv, LayerInv
<1>3. r \in Access
  BY <1>1, <1>2, SpecificationAssumption DEF IsSpecification
<1>4. /\ r.to \in Named /\ r.kind \in Kinds /\ r.by \in Nat
      /\ r.kind = "offset" <=> r.by > 0
  BY <1>3 DEF Access
<1>5. ASSUME r.kind # "offset"
      PROVE  r.to \in fresh <=> r.to \in Active
  <2>1. Weight(r) = 0
    BY <1>4, <1>5 DEF Weight
  <2>2. QED
    BY <2>1, FreshIsActive
<1>6. ASSUME r.kind # "offset"
      PROVE  Semantics!Produced(r.to, Active) = ProducedSoFar(r.to)
  BY <1>1, <1>5, <1>6, ProducedMeans DEF HistoryInv
<1>7. CASE r.kind = "sync"
  <2>1. r.to \in fresh
    BY <1>7, InvariantFresh DEF ReadsAreFresh
  <2>2. LookupLatest(r.to) = Len(log) + 1
    BY <1>1, <1>4, <2>1, FreshIsCurrent
  <2>3. QED
    BY <1>7, <2>2 DEF Lookup, Semantics!Meaning
<1>8. CASE r.kind = "hold"
  <2>1. LookupLatest(r.to) = Semantics!LatestOf(ProducedSoFar(r.to))
    BY <1>4, LatestMeans
  <2>2. QED
    BY <1>6, <1>8, <2>1 DEF Lookup, Semantics!Meaning
<1>9. CASE r.kind = "get"
  <2>1. r.to \in fresh => LookupLatest(r.to) = Len(log) + 1
    BY <1>1, <1>4, FreshIsCurrent
  <2>2. QED
    BY <1>5, <1>9, <2>1 DEF Lookup, Semantics!Meaning
<1>10. CASE r.kind = "offset"
  <2>1. LookupWithOffset(r) =
            Semantics!KthLatestOf(Semantics!ProducedBefore(r.to), r.by)
    BY <1>1, <1>4, <1>10, OffsetMeans
  <2>2. QED
    BY <1>10, <2>1 DEF Lookup, Semantics!Meaning
<1>11. CASE r.kind = "window"
  <2>1. <<o, r>> \in Windows(spec)
    BY <1>1, <1>11 DEF Windows
  <2>2. windows[<<o, r>>] = ProducedSoFar(r.to)
    BY <1>2, <2>1 DEF NoTriggerWindows, HistoryInv, WindowInv
  <2>3. QED
    BY <1>6, <1>11, <2>2 DEF Lookup, Semantics!Meaning
<1>12. QED
  BY <1>4, <1>7, <1>8, <1>9, <1>10, <1>11 DEF Kinds

-----------------------------------------------------------------------------
(* The reads and the deadlines of the current cycle.                       *)

LEMMA SemanticsInit == Init => SemanticsInv
<1> SUFFICES ASSUME Init PROVE SemanticsInv
  OBVIOUS
<1>1. phase = "idle" /\ log = <<>> /\ tick = 0
  BY DEF Init
<1>2. QED
  BY <1>1 DEF SemanticsInv, ReadsInv, TickInv, Semantics!LatestTick

LEMMA MeaningStays ==
    ASSUME log' = log, Active' = Active, NEW r
    PROVE  Semantics!Meaning(r, Active)' = Semantics!Meaning(r, Active)
  BY DEF Semantics!Meaning, Semantics!Produced, Semantics!ProducedBefore

LEMMA TickStays ==
    ASSUME TickInv, UNCHANGED <<spec, log, tick>>,
           (phase' = "timed") <=> (phase = "timed")
    PROVE  TickInv'
<1>1. Semantics!LatestTick' = Semantics!LatestTick
  BY DEF Semantics!LatestTick
<1>2. \A t : Semantics!DueAt(t)' = Semantics!DueAt(t)
  BY DEF Semantics!DueAt, Semantics!Periodic
<1>3. NextDeadline(tick)' <=> NextDeadline(tick)
  BY <1>1, <1>2 DEF NextDeadline
<1>4. QED
  BY <1>1, <1>3 DEF TickInv

LEMMA LayeringSemantics == IInv /\ SemanticsInv /\ Layering => SemanticsInv'
<1> SUFFICES ASSUME IInv, SemanticsInv, Layering PROVE SemanticsInv'
  OBVIOUS
<1>1. phase' = phase /\ phase = "idle" /\ UNCHANGED <<spec, log, tick>>
  BY DEF IInv, CycleInv, Layering, PruneLayer, Ordered
<1>2. ReadsInv'
  BY <1>1 DEF ReadsInv
<1>3. QED
  BY <1>1, <1>2, TickStays DEF SemanticsInv

LEMMA StartEventSemantics ==
    ASSUME SemanticsInv, NEW inputs \in SUBSET Inputs, StartEvent(inputs)
    PROVE  SemanticsInv'
<1>1. /\ phase = "idle" /\ phase' = "event" /\ reads' = <<>>
      /\ UNCHANGED <<spec, log, tick>>
      /\ todo' = {o \in Outputs : ~Periodic(spec, o)}
  BY DEF StartEvent
<1>2. ActiveOutputs' \ todo' = {}
  BY <1>1 DEF ActiveOutputs, Periodic
<1>3. ReadsInv'
  BY <1>1, <1>2 DEF ReadsInv
<1>4. QED
  BY <1>1, <1>3, TickStays DEF SemanticsInv

LEMMA StartTimedSemantics == SemanticsInv /\ StartTimed => SemanticsInv'
<1> SUFFICES ASSUME SemanticsInv, StartTimed PROVE SemanticsInv'
  OBVIOUS
<1>1. /\ phase = "idle" /\ phase' = "timed" /\ reads' = <<>>
      /\ UNCHANGED <<spec, log>>
      /\ todo' = DueAt(tick')
  BY DEF StartTimed
<1>2. ActiveOutputs' \ todo' = {}
  BY <1>1 DEF ActiveOutputs, DueAt, Periodic
<1>3. ReadsInv'
  BY <1>1, <1>2 DEF ReadsInv
<1>4. tick = Semantics!LatestTick /\ Semantics!LatestTick' = Semantics!LatestTick
  BY <1>1 DEF SemanticsInv, TickInv, Semantics!LatestTick
<1>5. PICK period \in Range(spec.period) :
          \E next \in tick + 1..tick + period :
              /\ DueAt(next) # {}
              /\ \A t \in tick + 1..next - 1 : DueAt(t) = {}
              /\ tick' = next
  BY DEF StartTimed
<1>6. \A t : Semantics!DueAt(t)' = DueAt(t)
  BY <1>1 DEF Semantics!DueAt, Semantics!Periodic, DueAt, Periodic
<1>7. period \in Range(spec.period)'
  BY <1>1, <1>5
<1>8. NextDeadline(tick)'
  BY <1>4, <1>5, <1>6, <1>7 DEF NextDeadline
<1>9. QED
  BY <1>1, <1>3, <1>8 DEF SemanticsInv, TickInv

LEMMA SkipSemantics ==
    ASSUME IInv, SemanticsInv, NEW o \in Outputs, Skip(o)
    PROVE  SemanticsInv'
<1>1. /\ phase = "event" /\ spec \in Specifications
      /\ UNCHANGED <<spec, phase, tick, fresh, reads, log>>
      /\ todo' = todo \ {o} /\ ~Satisfied(o)
  BY DEF Skip, storeVars, IInv, LayerInv
<1>2. ActiveOutputs' = ActiveOutputs /\ Active' = Active
  BY <1>1, ActiveStays
<1>3. ActiveOutputs' \ todo' = ActiveOutputs \ todo
  BY <1>1, <1>2 DEF ActiveOutputs
<1>4. ReadsInv'
  BY <1>1, <1>2, <1>3, MeaningStays DEF SemanticsInv, ReadsInv
<1>5. QED
  BY <1>1, <1>4, TickStays DEF SemanticsInv

LEMMA EvalStreamSemantics ==
    ASSUME NoTriggerWindows, IInv, HistoryInv, SemanticsInv,
           NEW o \in Outputs, EvalStream(o)
    PROVE  SemanticsInv'
<1>1. /\ spec \in Specifications
      /\ UNCHANGED <<spec, phase, tick, log>>
      /\ o \in Upcoming /\ (phase = "event" => Satisfied(o))
      /\ todo' = todo \ {o}
      /\ fresh' \in {fresh, fresh \cup {o}}
      /\ reads' = [p \in DOMAIN reads \cup {o} |->
                      IF p = o THEN [r \in spec.reads[o] |-> Lookup(o, r)]
                      ELSE reads[p]]
  BY DEF EvalStream, IInv, LayerInv
<1>2. o \in todo /\ o \in ActiveOutputs /\ phase # "idle"
  BY <1>1, EvaluatedIsActive
<1>3. ActiveOutputs' = ActiveOutputs /\ Active' = Active
  BY <1>1, ActiveStays
<1> DEFINE meant(p) == [r \in spec.reads[p] |-> Semantics!Meaning(r, Active)]
<1>4. \A r : Semantics!Meaning(r, Active)' = Semantics!Meaning(r, Active)
  BY <1>1, <1>3, MeaningStays
<1>5. [r \in spec.reads[o] |-> Lookup(o, r)] = meant(o)
  BY <1>1, LookupMeans
<1>6. DOMAIN reads \cup {o} = ActiveOutputs' \ todo'
  BY <1>1, <1>2, <1>3 DEF HistoryInv, FreshInv
<1>7. reads = [p \in ActiveOutputs \ todo |-> meant(p)]
  BY <1>2 DEF SemanticsInv, ReadsInv
<1>8. ASSUME NEW p \in DOMAIN reads \cup {o} PROVE reads'[p] = meant(p)
  BY <1>1, <1>5, <1>7
<1> HIDE DEF meant
<1>9. reads' = [p \in ActiveOutputs' \ todo' |-> meant(p)]
  BY <1>1, <1>6, <1>8
<1>10. \A p : meant(p)' = meant(p)
  BY <1>1, <1>4 DEF meant
<1>11. ReadsInv'
  BY <1>9, <1>10 DEF ReadsInv, meant
<1>12. QED
  BY <1>1, <1>11, TickStays DEF SemanticsInv

LEMMA FinishCycleSemantics == HistoryInv /\ FinishCycle => SemanticsInv'
<1> SUFFICES ASSUME HistoryInv, FinishCycle PROVE SemanticsInv'
  OBVIOUS
<1> DEFINE entry == [active |-> (fresh \cap Inputs) \cup DOMAIN reads,
                     tick |-> tick, reads |-> reads]
<1>1. phase' = "idle" /\ tick' = tick /\ log' = Append(log, entry)
  BY DEF FinishCycle
<1>2. entry.tick = tick
  OBVIOUS
<1> HIDE DEF entry
<1>3. PICK S : log \in Seq(S)
  BY DEF HistoryInv, CountInv
<1>4. log \in Seq(S \cup {entry}) /\ entry \in S \cup {entry}
  BY <1>3, SeqMonotonic
<1>5. log' # <<>> /\ log'[Len(log')] = entry
  BY <1>1, <1>4
<1>6. Semantics!LatestTick' = tick
  BY <1>2, <1>5 DEF Semantics!LatestTick
<1>7. QED
  BY <1>1, <1>6 DEF SemanticsInv, ReadsInv, TickInv

LEMMA SemanticsNext ==
    ASSUME NoTriggerWindows
    PROVE  IInv /\ HistoryInv /\ SemanticsInv /\ [Next]_vars => SemanticsInv'
<1> SUFFICES ASSUME IInv, HistoryInv, SemanticsInv, [Next]_vars
             PROVE  SemanticsInv'
  OBVIOUS
<1>1. CASE Layering
  BY <1>1, LayeringSemantics
<1>2. CASE \E inputs \in SUBSET Inputs : StartEvent(inputs)
  BY <1>2, StartEventSemantics
<1>3. CASE StartTimed
  BY <1>3, StartTimedSemantics
<1>4. ASSUME NEW o \in Outputs, Skip(o) \/ EvalStream(o)
      PROVE  SemanticsInv'
  BY <1>4, SkipSemantics, EvalStreamSemantics
<1>5. CASE FinishCycle
  BY <1>5, FinishCycleSemantics
<1>6. CASE UNCHANGED vars
  <2>1. UNCHANGED <<spec, phase, tick, todo, fresh, reads, log>>
    BY <1>6 DEF vars, storeVars
  <2>2. ActiveOutputs' = ActiveOutputs /\ Active' = Active
    BY <2>1 DEF ActiveOutputs, Active, DueAt, Periodic, Satisfied
  <2>3. \A r : Semantics!Meaning(r, Active)' = Semantics!Meaning(r, Active)
    BY <2>1, <2>2, MeaningStays
  <2>4. ReadsInv'
    BY <2>1, <2>2, <2>3 DEF SemanticsInv, ReadsInv
  <2>5. QED
    BY <2>1, <2>4, TickStays DEF SemanticsInv
<1>7. QED
  BY <1>1, <1>2, <1>3, <1>4, <1>5, <1>6 DEF Next

-----------------------------------------------------------------------------
(* The refinement: a cycle takes place when it finishes.                   *)

LEMMA InitRefines == Init => Semantics!Init
  BY SameAccepted DEF Init, OrderInit, Semantics!Init

(***************************************************************************)
(* The cycle that is logged is the one the semantics adds.                 *)
(***************************************************************************)
LEMMA LogsTheCycle ==
    ASSUME IInv, HistoryInv, SemanticsInv, FinishCycle
    PROVE  Semantics!Cycle(Active, tick)
<1>1. phase # "idle" /\ todo = {} /\ log' = Append(log,
          [active |-> (fresh \cap Inputs) \cup DOMAIN reads,
           tick |-> tick, reads |-> reads])
  BY DEF FinishCycle
<1>2. DOMAIN reads = ActiveOutputs
  BY <1>1 DEF HistoryInv, FreshInv
<1>3. ActiveOutputs \subseteq Outputs
  BY DEF ActiveOutputs, DueAt
<1>4. Active \cap Outputs = ActiveOutputs
  BY <1>3, StreamAssumption DEF Active
<1>5. reads = [o \in Active \cap Outputs |->
                  [r \in spec.reads[o] |-> Semantics!Meaning(r, Active)]]
  BY <1>1, <1>4 DEF SemanticsInv, ReadsInv
<1>6. (fresh \cap Inputs) \cup DOMAIN reads = Active
  BY <1>2 DEF Active
<1>7. QED
  BY <1>1, <1>5, <1>6 DEF Semantics!Cycle

LEMMA FinishRefines ==
    ASSUME IInv, HistoryInv, SemanticsInv, FinishCycle
    PROVE  Semantics!Next
<1>1. /\ phase \in {"event", "timed"} /\ spec' = spec
      /\ spec \in Specifications
  BY DEF FinishCycle, IInv, LayerInv, CycleInv
<1>2. Len(log) < MaxCycles
  BY <1>1, LogDomain, CyclesAssumption DEF HistoryInv, CountInv
<1>3. CASE phase = "event"
  <2> DEFINE inputs == fresh \cap Inputs
  <2>1. ASSUME NEW o \in Outputs
        PROVE  Semantics!Satisfied(spec.ac[o], inputs) <=> Satisfied(o)
    <3>1. \A clause \in spec.ac[o].clauses : clause \subseteq Inputs
      BY <1>1, SpecificationTypes DEF Condition
    <3>2. QED
      BY <3>1 DEF Semantics!Satisfied, Satisfied
  <2>2. Semantics!ActiveWith(inputs) = Active
    BY <1>3, <2>1 DEF Semantics!ActiveWith, Active, ActiveOutputs,
                      Semantics!Periodic, Periodic
  <2>3. tick = Semantics!LatestTick
    BY <1>3 DEF SemanticsInv, TickInv
  <2>4. Semantics!Cycle(Semantics!ActiveWith(inputs), Semantics!LatestTick)
    BY <2>2, <2>3, LogsTheCycle
  <2>5. inputs \in SUBSET Inputs
    OBVIOUS
  <2>6. Semantics!EventCycle
    BY <1>1, <1>2, <2>4, <2>5 DEF Semantics!EventCycle
  <2>7. QED
    BY <2>6 DEF Semantics!Next
<1>4. CASE phase = "timed"
  <2>1. NextDeadline(tick)
    BY <1>4 DEF SemanticsInv, TickInv
  <2>2. Active = DueAt(tick)
    BY <1>4 DEF Active, ActiveOutputs, HistoryInv, FreshInv
  <2>3. Semantics!DueAt(tick) = DueAt(tick)
    BY SameDueAt
  <2>4. Semantics!Cycle(Semantics!DueAt(tick), tick)
    BY <2>2, <2>3, LogsTheCycle
  <2>5. Semantics!Range(spec.period) = Range(spec.period)
    BY DEF Semantics!Range, Range
  <2>6. Semantics!TimedCycle
    BY <1>1, <1>2, <2>1, <2>4, <2>5 DEF NextDeadline, Semantics!TimedCycle
  <2>7. QED
    BY <2>6 DEF Semantics!Next
<1>5. QED
  BY <1>1, <1>3, <1>4

LEMMA NextRefines ==
    IInv /\ HistoryInv /\ SemanticsInv /\ [Next]_vars
        => [Semantics!Next]_Semantics!vars
<1> SUFFICES ASSUME IInv, HistoryInv, SemanticsInv, [Next]_vars
             PROVE  Semantics!Next \/ UNCHANGED <<spec, log>>
  BY DEF Semantics!vars
<1>1. CASE Layering
  BY <1>1 DEF Layering, PruneLayer
<1>2. CASE \E inputs \in SUBSET Inputs : StartEvent(inputs)
  BY <1>2 DEF StartEvent
<1>3. CASE StartTimed
  BY <1>3 DEF StartTimed
<1>4. ASSUME NEW o \in Outputs, Skip(o) \/ EvalStream(o)
      PROVE  UNCHANGED <<spec, log>>
  BY <1>4 DEF Skip, EvalStream
<1>5. CASE FinishCycle
  BY <1>5, FinishRefines
<1>6. CASE UNCHANGED vars
  BY <1>6 DEF vars
<1>7. QED
  BY <1>1, <1>2, <1>3, <1>4, <1>5, <1>6 DEF Next

(***************************************************************************)
(* The evaluator implements the meaning of the specifications: whatever    *)
(* the order within a layer, every output reads the values that the whole  *)
(* history and the current cycle give it.                                  *)
(***************************************************************************)
THEOREM EvaluatorImplements ==
    ASSUME NoTriggerWindows
    PROVE  Spec => ImplementsSemantics
<1>1. Init => SemanticsInv /\ Semantics!Init
  BY SemanticsInit, InitRefines
<1>2. IInv /\ HistoryInv /\ SemanticsInv /\ [Next]_vars => SemanticsInv'
  BY SemanticsNext
<1>3. IInv /\ HistoryInv /\ SemanticsInv /\ [Next]_vars
          => [Semantics!Next]_Semantics!vars
  BY NextRefines
<1>4. QED
  BY <1>1, <1>2, <1>3, HistoryInvariant, PTL
     DEF Spec, ImplementsSemantics, Semantics!Spec
=============================================================================

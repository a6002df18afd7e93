--------------------------- MODULE StreamSemantics ---------------------------
(***************************************************************************)
(* What a specification means, independent of any evaluation order: a log  *)
(* of cycles.  An event cycle activates the inputs that carry a value and  *)
(* the outputs whose activation condition they satisfy, a timed cycle the  *)
(* outputs whose period divides the time.  An access reads what the log,   *)
(* with the cycle that is added, says.                                     *)
(*                                                                         *)
(* A value is identified by the number of the cycle that produced it.      *)
(***************************************************************************)
EXTENDS LolaSpec, Sequences, SequencesExt

CONSTANTS
    Specifications,
    NoValue,   \* what an access reads when there is no value
    MaxCycles  \* bound: number of cycles

VARIABLES
    spec, \* the specification
    log   \* of every cycle what it activated, what its outputs read,
          \* and the time of the latest timed cycle

vars == <<spec, log>>

LatestTick == IF log = <<>> THEN 0 ELSE log[Len(log)].tick

Satisfied(condition, inputs) ==
    \A clause \in condition.clauses : clause \cap inputs # {}

ActiveWith(inputs) ==
    inputs \cup {o \in Outputs : /\ ~Periodic(spec, o)
                                 /\ Satisfied(spec.ac[o], inputs)}

DueAt(t) == {o \in Outputs : Periodic(spec, o) /\ t % spec.period[o] = 0}

(***************************************************************************)
(* The cycles in which stream s produced a value, if the next cycle        *)
(* activates the given streams.                                            *)
(***************************************************************************)
ProducedBefore(s) == {n \in DOMAIN log : s \in log[n].active}
Produced(s, active) ==
    ProducedBefore(s) \cup (IF s \in active THEN {Len(log) + 1} ELSE {})

LatestOf(cycles) == IF cycles = {} THEN NoValue ELSE Max(cycles)

(***************************************************************************)
(* The value that k - 1 others followed.                                   *)
(***************************************************************************)
KthLatestOf(cycles, k) ==
    LatestOf({n \in cycles : Cardinality({m \in cycles : m >= n}) = k})

Meaning(r, active) ==
    CASE r.kind = "sync" -> Len(log) + 1
      [] r.kind = "hold" -> LatestOf(Produced(r.to, active))
      [] r.kind = "get" -> IF r.to \in active THEN Len(log) + 1 ELSE NoValue
      [] r.kind = "offset" -> KthLatestOf(ProducedBefore(r.to), r.by)
      [] r.kind = "window" -> Produced(r.to, active)

Cycle(active, tick) ==
    log' = Append(log, [active |-> active,
                        tick |-> tick,
                        reads |-> [o \in active \cap Outputs |->
                            [r \in spec.reads[o] |-> Meaning(r, active)]]])

Init ==
    /\ spec \in {s \in Specifications : Accepted(s)}
    /\ log = <<>>

EventCycle ==
    /\ Len(log) < MaxCycles
    /\ \E inputs \in SUBSET Inputs : Cycle(ActiveWith(inputs), LatestTick)
    /\ UNCHANGED spec

TimedCycle ==
    /\ Len(log) < MaxCycles
    /\ \E period \in Range(spec.period) :
           \E tick \in LatestTick + 1..LatestTick + period :
               /\ DueAt(tick) # {}
               /\ \A t \in LatestTick + 1..tick - 1 : DueAt(t) = {}
               /\ Cycle(DueAt(tick), tick)
    /\ UNCHANGED spec

Next == EventCycle \/ TimedCycle

Spec == Init /\ [][Next]_vars
=============================================================================

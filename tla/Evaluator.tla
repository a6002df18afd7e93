------------------------------ MODULE Evaluator ------------------------------
(***************************************************************************)
(* The evaluator of the interpreter (interpreter/src/evaluator.rs): it     *)
(* evaluates the outputs of an event cycle or of a timed cycle one after   *)
(* the other, in the order of their layers, and each evaluation reads the  *)
(* stores and windows as the earlier ones left them.                       *)
(*                                                                         *)
(* A value is the number of the cycle that produced it, so that a reader   *)
(* that sees a value of the wrong cycle is told apart.  What an expression *)
(* computes from what it reads does not matter here, nor does time, but    *)
(* for the order of the timed cycles: the values that leave a window are   *)
(* the subject of module SlidingWindow.                                    *)
(***************************************************************************)
EXTENDS EvaluationOrder, InstanceStore, Functions

CONSTANT MaxCycles \* bound: number of cycles

ASSUME CyclesAssumption == MaxCycles \in Nat

VARIABLES
    phase,   \* "idle", or in an "event" or a "timed" cycle
    cycle,   \* the number of the current or latest cycle
    tick,    \* time of the latest timed cycle
    todo,    \* outputs still to be evaluated in this cycle
    fresh,   \* fresh_inputs and fresh_outputs
    store,   \* the buffer of each stream
    windows, \* the values each window accepted
    reads,   \* what the outputs evaluated in this cycle read
    log      \* history: what each cycle activated and read

storeVars == <<fresh, store, windows>>
vars == <<spec, orderVars, phase, cycle, tick, todo, storeVars, reads, log>>

Init ==
    /\ OrderInit
    /\ phase = "idle"
    /\ cycle = 0
    /\ tick = 0
    /\ todo = {}
    /\ fresh = {}
    /\ store = [s \in Streams |-> <<>>]
    /\ windows = [w \in Windows(spec) |-> {}]
    /\ reads = <<>>
    /\ log = <<>>

Layering == PruneLayer /\ UNCHANGED <<phase, cycle, tick, todo, storeVars,
                                      reads, log>>

-----------------------------------------------------------------------------
(***************************************************************************)
(* Each of the streams gets the value n, and so do its windows.            *)
(***************************************************************************)
Stored(streams, n) ==
    [s \in Streams |-> IF s \in streams
                       THEN PushValue(store[s], MemoryBound(spec, s), n)
                       ELSE store[s]]
Accepting(streams, n) ==
    [w \in Windows(spec) |->
        IF \E s \in streams : w \in DependentWindows(spec, s)
        THEN windows[w] \cup {n} ELSE windows[w]]

(***************************************************************************)
(* eval_event: the inputs that carry a value are stored, and all           *)
(* event-driven outputs are gone through.                                  *)
(***************************************************************************)
StartEvent(inputs) ==
    /\ Ordered /\ phase = "idle" /\ cycle < MaxCycles
    /\ phase' = "event"
    /\ cycle' = cycle + 1
    /\ fresh' = inputs
    /\ store' = Stored(inputs, cycle + 1)
    /\ windows' = Accepting(inputs, cycle + 1)
    /\ todo' = {o \in Outputs : ~Periodic(spec, o)}
    /\ reads' = <<>>
    /\ UNCHANGED <<spec, orderVars, tick, log>>

DueAt(t) == {o \in Outputs : Periodic(spec, o) /\ t % spec.period[o] = 0}

(***************************************************************************)
(* eval_time_driven_outputs: the outputs due at the next deadline.         *)
(***************************************************************************)
StartTimed ==
    /\ Ordered /\ phase = "idle" /\ cycle < MaxCycles
    /\ phase' = "timed"
    /\ cycle' = cycle + 1
    /\ \E period \in Range(spec.period) :
           \E next \in tick + 1..tick + period :
               /\ DueAt(next) # {}
               /\ \A t \in tick + 1..next - 1 : DueAt(t) = {}
               /\ tick' = next
    /\ fresh' = {}
    /\ todo' = DueAt(tick')
    /\ reads' = <<>>
    /\ UNCHANGED <<spec, orderVars, store, windows, log>>

-----------------------------------------------------------------------------
(* The lookups of an expression.                                           *)

LookupLatest(s) == GetValue(store[s], 0)

IgnoresFreshness(r) == GetValue(store[r.to], r.by) \* wrong variant

(***************************************************************************)
(* Offsets count from the current cycle: the newest value in the buffer of *)
(* a stream without a fresh value has offset -1.                           *)
(***************************************************************************)
LookupWithOffset(r) ==
    GetValue(store[r.to], IF r.to \in fresh THEN r.by ELSE r.by - 1)

Lookup(o, r) ==
    CASE r.kind \in {"sync", "hold"} -> LookupLatest(r.to)
      [] r.kind = "get" ->
             IF r.to \in fresh THEN LookupLatest(r.to) ELSE NoValue
      [] r.kind = "offset" -> LookupWithOffset(r)
      [] r.kind = "window" -> windows[<<o, r>>]

(***************************************************************************)
(* ActivationCondition::eval, over the fresh inputs.                       *)
(***************************************************************************)
AnyClause(o) == \* wrong variant: a conjunction taken for a disjunction
    \/ spec.ac[o].clauses = {}
    \/ \E clause \in spec.ac[o].clauses : clause \cap fresh # {}
Satisfied(o) == \A clause \in spec.ac[o].clauses : clause \cap fresh # {}

(***************************************************************************)
(* The outputs of the current layer; their order is left open here.        *)
(***************************************************************************)
Upcoming == {o \in todo : \A p \in todo : layer[o] <= layer[p]}

Skip(o) ==
    /\ phase = "event" /\ o \in Upcoming /\ ~Satisfied(o)
    /\ todo' = todo \ {o}
    /\ UNCHANGED <<spec, orderVars, phase, cycle, tick, storeVars, reads, log>>

(***************************************************************************)
(* eval_stream.  A trigger stores no value and is never fresh.             *)
(***************************************************************************)
EvalStream(o) ==
    /\ o \in Upcoming
    /\ phase = "event" => Satisfied(o)
    /\ todo' = todo \ {o}
    /\ reads' = [p \in DOMAIN reads \cup {o} |->
                     IF p = o THEN [r \in spec.reads[o] |-> Lookup(o, r)]
                     ELSE reads[p]]
    /\ IF o \in Triggers THEN UNCHANGED <<fresh, store>>
       ELSE /\ fresh' = fresh \cup {o}
            /\ store' = Stored({o}, cycle)
    /\ windows' = Accepting({o}, cycle)
    /\ UNCHANGED <<spec, orderVars, phase, cycle, tick, log>>

(***************************************************************************)
(* A timed cycle leaves nothing fresh, an event cycle does: peek_fresh     *)
(* looks at it later.                                                      *)
(***************************************************************************)
FinishCycle ==
    /\ phase # "idle" /\ todo = {}
    /\ phase' = "idle"
    /\ fresh' = IF phase = "timed" THEN {} ELSE fresh
    /\ log' = Append(log, [active |-> (fresh \cap Inputs) \cup DOMAIN reads,
                           tick |-> tick,
                           reads |-> reads])
    /\ UNCHANGED <<spec, orderVars, cycle, tick, todo, store, windows, reads>>

Next ==
    \/ Layering
    \/ \E inputs \in SUBSET Inputs : StartEvent(inputs)
    \/ StartTimed
    \/ \E o \in Outputs : Skip(o) \/ EvalStream(o)
    \/ FinishCycle

Spec == Init /\ [][Next]_vars

-----------------------------------------------------------------------------
ProducedSoFar(s) ==
    {n \in DOMAIN log : s \in log[n].active} \cup
    (IF phase # "idle" /\ s \in fresh THEN {cycle} ELSE {})

(***************************************************************************)
(* When a stream is evaluated, every stream it accesses synchronously has  *)
(* been evaluated in this cycle: lookup_latest_check asserts it.           *)
(***************************************************************************)
ReadsAreFresh ==
    \A o \in Upcoming : (phase = "event" => Satisfied(o)) =>
        \A r \in spec.reads[o] :
            r.kind = "sync" => r.to \in fresh

(***************************************************************************)
(* A buffer holds the latest values of its stream, newest first, as many   *)
(* as its bound allows and no fewer than there are.                        *)
(***************************************************************************)
StoresHoldLatest ==
    \A s \in Named :
        LET buffer == store[s]
            produced == ProducedSoFar(s)
        IN  /\ Len(buffer) <= MemoryBound(spec, s)
            /\ Range(buffer) \subseteq produced
            /\ \A i, j \in DOMAIN buffer : i < j => buffer[i] > buffer[j]
            /\ \A n \in produced \ Range(buffer) :
                   /\ Len(buffer) = MemoryBound(spec, s)
                   /\ \A i \in DOMAIN buffer : n < buffer[i]

(***************************************************************************)
(* Every value of a stream is handed to the windows over it.               *)
(***************************************************************************)
WindowsSeeTheirStream ==
    \A w \in Windows(spec) : windows[w] = ProducedSoFar(w[2].to)

(***************************************************************************)
(* The evaluation order, the fresh sets and the bounded buffers together   *)
(* make every output read what the meaning of the specification says.      *)
(***************************************************************************)
Semantics == INSTANCE StreamSemantics
ImplementsSemantics == Semantics!Spec
=============================================================================

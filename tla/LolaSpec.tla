------------------------------ MODULE LolaSpec ------------------------------
(***************************************************************************)
(* What the interpreter needs to know of a specification: when each output *)
(* is evaluated and what its expression reads; and which specifications    *)
(* the frontend accepts (pacing types in frontend/src/ty.rs and            *)
(* ty/check.rs, cycles in analysis/graph_based_analysis).                  *)
(*                                                                         *)
(* A specification is a record                                             *)
(*   period : the period of a periodic output, 0 of an event-driven one    *)
(*   ac     : the activation condition of an event-driven output           *)
(*   reads  : the accesses in the expression of an output                  *)
(* An activation condition over the inputs is True, a stream, a            *)
(* disjunction, or a conjunction of these: here a set of clauses, each the *)
(* set of inputs one of which must be fresh, and a flag that tells a       *)
(* conjunction (of maybe one clause) from the others.                      *)
(***************************************************************************)
EXTENDS Integers, FiniteSets, FiniteSetsExt, Functions

CONSTANTS
    Inputs,   \* input streams
    Outputs,  \* output streams, the triggers included
    Triggers, \* triggers are outputs without a name and without a value
    Declared  \* the position of each output in the specification

ASSUME StreamAssumption ==
    /\ Inputs \cap Outputs = {} /\ Triggers \subseteq Outputs
    /\ IsFiniteSet(Inputs) /\ IsFiniteSet(Outputs)
    /\ Declared \in [Outputs -> Nat] /\ IsInjective(Declared)

Streams == Inputs \cup Outputs
Named == Streams \ Triggers

(***************************************************************************)
(* The accesses of an expression: x, x.hold(), x.get(), x.offset(by: -k)   *)
(* and x.aggregate(...).  Other offsets (zero, into the future, in real    *)
(* time) the interpreter does not implement.                               *)
(***************************************************************************)
Kinds == {"sync", "hold", "get", "offset", "window"}
Access ==
    {r \in [to : Named, kind : Kinds, by : Nat] : r.kind = "offset" <=> r.by > 0}

Condition ==
    {c \in [conj : BOOLEAN, clauses : SUBSET SUBSET Inputs] :
        IF c.conj THEN c.clauses # {} ELSE Cardinality(c.clauses) <= 1}
True == [conj |-> FALSE, clauses |-> {}]

IsSpecification(spec) ==
    /\ spec.period \in [Outputs -> Nat]
    /\ spec.ac \in [Outputs -> Condition]
    /\ \A o \in Outputs : spec.reads[o] \subseteq Access
                          /\ IsFiniteSet(spec.reads[o])

Periodic(spec, s) == s \in Outputs /\ spec.period[s] > 0
SameClass(spec, s, t) == Periodic(spec, s) <=> Periodic(spec, t)

-----------------------------------------------------------------------------
(* Pacing types.                                                           *)

(***************************************************************************)
(* implies_valid, which is less than implication: a conjunction does not   *)
(* imply True, a stream not the conjunction of it alone.                   *)
(***************************************************************************)
ImpliesValid(left, right) ==
    \/ left = right
    \/ left.conj /\ right.clauses \subseteq left.clauses
                 /\ (right.conj \/ right.clauses # {})
    \/ ~left.conj /\ right = True

ActivationOf(spec, s) ==
    IF s \in Inputs THEN [conj |-> FALSE, clauses |-> {{s}}] ELSE spec.ac[s]

(***************************************************************************)
(* Whether output o produces a value only when stream t does.              *)
(***************************************************************************)
Compatible(spec, o, t) ==
    /\ SameClass(spec, o, t)
    /\ IF Periodic(spec, o) THEN spec.period[o] % spec.period[t] = 0
       ELSE ImpliesValid(spec.ac[o], ActivationOf(spec, t))

CheckAccess(spec, o, r) ==
    /\ r.kind \in {"sync", "offset"} => Compatible(spec, o, r.to)
    /\ r.kind = "get" => SameClass(spec, o, r.to)
    /\ r.kind = "window" => Periodic(spec, o)

-----------------------------------------------------------------------------
(* Cycles of dependencies.                                                 *)

(***************************************************************************)
(* An edge of the dependency graph is an access and the output it occurs   *)
(* in; streams may be connected by several edges.                          *)
(***************************************************************************)
Edges(spec) ==
    UNION {{o} \X {r \in spec.reads[o] : r.to \in Outputs} : o \in Outputs}
Weight(r) == 0 - r.by

Sources(path) == {e[1] : e \in path}
IsClosed(path) == Sources(path) = {e[2].to : e \in path}

(***************************************************************************)
(* The elementary cycles, as sets of edges.                                *)
(***************************************************************************)
CyclicPaths(spec) ==
    {path \in (SUBSET Edges(spec)) \ {{}} :
        /\ IsClosed(path)
        /\ \A part \in (SUBSET path) \ {{}, path} : ~IsClosed(part)}

Reaches(spec, s, t) ==
    \A seen \in SUBSET Outputs :
        /\ s \in seen
        /\ \A e \in Edges(spec) : e[1] \in seen => e[2].to \in seen
        => t \in seen
Component(spec, s) ==
    {t \in Outputs : Reaches(spec, s, t) /\ Reaches(spec, t, s)}

(***************************************************************************)
(* Of a strongly connected component, only the cycles through the stream   *)
(* that is declared first are found; and the self-loops.                   *)
(***************************************************************************)
StartingNode(spec, s) ==
    \A t \in Component(spec, s) : Declared[s] <= Declared[t]
FoundPaths(spec) ==
    {path \in CyclicPaths(spec) :
        \/ Cardinality(path) = 1
        \/ \E s \in Sources(path) : StartingNode(spec, s)}

(***************************************************************************)
(* A cycle through a window is an error, and one of weight zero.           *)
(***************************************************************************)
CycleWeight(path) == MapThenSumSet(LAMBDA e : Weight(e[2]), path)
CheckCycles(spec) ==
    \A path \in FoundPaths(spec) :
        /\ \A e \in path : e[2].kind # "window"
        /\ CycleWeight(path) # 0

Accepted(spec) ==
    /\ \A o \in Outputs : \A r \in spec.reads[o] : CheckAccess(spec, o, r)
    /\ CheckCycles(spec)

-----------------------------------------------------------------------------
(* What lowering adds.                                                     *)

(***************************************************************************)
(* How many values of a stream are stored: the offsets that reach into it  *)
(* decide.  Triggers store none.                                           *)
(***************************************************************************)
MemoryBound(spec, s) ==
    IF s \in Triggers THEN 0
    ELSE 1 + Max({0} \cup {r.by : r \in {q \in UNION {spec.reads[o] :
                                       o \in Outputs} : q.to = s}})

(***************************************************************************)
(* A window belongs to the access that reads it.                           *)
(***************************************************************************)
Windows(spec) ==
    UNION {{<<o, r>> : r \in {q \in spec.reads[o] : q.kind = "window"}} :
               o \in Outputs}

(***************************************************************************)
(* dependent_windows: which windows a value of stream s is handed to.  The *)
(* windows are linked before the triggers are lowered, so those that occur *)
(* in a trigger are not among them.                                        *)
(***************************************************************************)
LinkedWindows(spec) == {w \in Windows(spec) : w[1] \notin Triggers}
WindowsInside(spec, s) == \* wrong variant: the windows that s reads
    {w \in LinkedWindows(spec) : w[1] = s}
DependentWindows(spec, s) == {w \in LinkedWindows(spec) : w[2].to = s}
=============================================================================

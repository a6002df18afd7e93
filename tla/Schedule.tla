------------------------------ MODULE Schedule ------------------------------
(***************************************************************************)
(* How the schedule of the periodic streams is computed from their periods *)
(* (frontend/src/ir/schedule.rs, Schedule::from).                          *)
(*                                                                         *)
(* The periods are rational numbers of nanoseconds: the greatest time that *)
(* divides all of them becomes the grid, their least common multiple the   *)
(* hyper-period.  The cells of the grid up to the hyper-period are filled  *)
(* with the streams due there, and runs of empty cells become pauses.      *)
(***************************************************************************)
EXTENDS Integers, Sequences, SequencesExt, FiniteSetsExt

CONSTANTS
    NumStreams, \* ir.time_driven
    Periods,    \* the possible periods, rational numbers
    EvalLayer,  \* the evaluation layer of each stream
    MaxSteps    \* 10_000_000: grids of so many cells are refused

Streams == 1..NumStreams
Rational(n, d) == [n |-> n, d |-> d]

ASSUME ScheduleAssumption ==
    /\ NumStreams \in Nat \ {0}
    /\ EvalLayer \in [Streams -> Nat]
    /\ \A p \in Periods : p.n \in Nat \ {0} /\ p.d \in Nat \ {0}

VARIABLES
    period,   \* the period of each stream
    pc,       \* the next stage, or how it ended
    steps,    \* extend_steps: for each cell the streams in it
    deadlines \* the pauses and the due streams

vars == <<period, pc, steps, deadlines>>

-----------------------------------------------------------------------------
(* Module math.                                                            *)

Divides(a, b) == b % a = 0
Gcd(a, b) == Max({g \in 1..a : Divides(g, a) /\ Divides(g, b)})
Lcm(a, b) == (a \div Gcd(a, b)) * b
Reduced(n, d) == Rational(n \div Gcd(n, d), d \div Gcd(n, d))

SwappedGcd(a, b) == \* wrong variant: does not refine the denominators
    Reduced(Gcd(a.n, b.n), Gcd(a.d, b.d))
RationalGcd(a, b) == Reduced(Gcd(a.n, b.n), Lcm(a.d, b.d))
RationalLcm(a, b) == Reduced(Lcm(a.n, b.n), Gcd(a.d, b.d))
Quotient(a, b) == Reduced(a.n * b.d, a.d * b.n)
IsInteger(r) == r.d = 1
Truncated(r) == r.n \div r.d

(***************************************************************************)
(* Both are folds over the periods that start with the first one.          *)
(***************************************************************************)
GcdUpTo[s \in Streams] ==
    RationalGcd(IF s = 1 THEN period[1] ELSE GcdUpTo[s - 1], period[s])
LcmUpTo[s \in Streams] ==
    RationalLcm(IF s = 1 THEN period[1] ELSE LcmUpTo[s - 1], period[s])

ExtendPeriod == GcdUpTo[NumStreams]
(* A multiple of one nanosecond as well. *)
HyperPeriod == RationalLcm(LcmUpTo[NumStreams], Rational(1, 1))

(***************************************************************************)
(* The numbers from 1 to n that are in S, in ascending order: what a loop  *)
(* pushes that goes through all of them.                                   *)
(***************************************************************************)
Ascending(n, S) ==
    FlattenSeq([i \in 1..n |-> IF i \in S THEN <<i>> ELSE <<>>])

-----------------------------------------------------------------------------
Init ==
    /\ period \in [Streams -> Periods]
    /\ pc = "extend"
    /\ steps = <<>>
    /\ deadlines = <<>>

(***************************************************************************)
(* Each stream goes to the cell of its first period.                       *)
(***************************************************************************)
NumSteps == Quotient(HyperPeriod, ExtendPeriod)
CellOf(s) == Quotient(period[s], ExtendPeriod)

BuildExtendSteps ==
    /\ pc = "extend"
    /\ IF ~IsInteger(NumSteps) THEN pc' = "panicked" /\ UNCHANGED steps
       ELSE IF NumSteps.n >= MaxSteps THEN pc' = "error" /\ UNCHANGED steps
       ELSE IF \E s \in Streams : ~IsInteger(CellOf(s))
            THEN pc' = "panicked" /\ UNCHANGED steps
       ELSE /\ pc' = "periodicity"
            /\ steps' = [c \in 1..NumSteps.n |->
                   Ascending(NumStreams, {s \in Streams : CellOf(s).n = c})]
    /\ UNCHANGED <<period, deadlines>>

(***************************************************************************)
(* And to every later cell that is a multiple of it.                       *)
(***************************************************************************)
OnlyDoubled == \* wrong variant: stops at the second period
    /\ pc = "periodicity"
    /\ steps' = [c \in DOMAIN steps |->
           FlattenSeq([first \in 1..c |->
               IF c \in {first, 2 * first} THEN steps[first] ELSE <<>>])]
    /\ pc' = "condense"
    /\ UNCHANGED <<period, deadlines>>
ApplyPeriodicity ==
    /\ pc = "periodicity"
    /\ steps' = [c \in DOMAIN steps |->
           FlattenSeq([first \in 1..c |->
               IF Divides(first, c) THEN steps[first] ELSE <<>>])]
    /\ pc' = "condense"
    /\ UNCHANGED <<period, deadlines>>

(***************************************************************************)
(* One deadline for each cell that is not empty; its pause covers the cell *)
(* and the empty ones before it, cut to whole nanoseconds.                 *)
(***************************************************************************)
Filled == Ascending(Len(steps), {c \in DOMAIN steps : steps[c] # <<>>})
CellsSince(i) == Filled[i] - (IF i = 1 THEN 0 ELSE Filled[i - 1])
EmptyOnly(i) == \* wrong variant: the pause leaves out the cell itself
    Truncated(Rational(ExtendPeriod.n * (CellsSince(i) - 1), ExtendPeriod.d))
PauseBefore(i) ==
    Truncated(Rational(ExtendPeriod.n * CellsSince(i), ExtendPeriod.d))

CondenseDeadlines ==
    /\ pc = "condense"
    /\ deadlines' = [i \in 1..Len(Filled) |->
           [pause |-> PauseBefore(i), due |-> steps[Filled[i]]]]
    /\ pc' = IF steps[Len(steps)] = <<>> THEN "panicked" ELSE "sort"
    /\ UNCHANGED <<period, steps>>

(***************************************************************************)
(* A stable sort by evaluation layer.                                      *)
(***************************************************************************)
InLayer(due, l) ==
    LET at == Ascending(Len(due), {i \in DOMAIN due : EvalLayer[due[i]] = l})
    IN  [j \in DOMAIN at |-> due[at[j]]]
ByLayer(due) ==
    FlattenSeq([l \in 1..Max(Range(EvalLayer)) + 1 |-> InLayer(due, l - 1)])

SortDeadlines ==
    /\ pc = "sort"
    /\ deadlines' = [i \in DOMAIN deadlines |->
           [deadlines[i] EXCEPT !.due = ByLayer(@)]]
    /\ pc' = "done"
    /\ UNCHANGED <<period, steps>>

Next == \/ BuildExtendSteps \/ ApplyPeriodicity
        \/ CondenseDeadlines \/ SortDeadlines

Spec == Init /\ [][Next]_vars

-----------------------------------------------------------------------------
(***************************************************************************)
(* The assertions of the computation hold for all periods: the grid meets  *)
(* every period, and the hyper-period ends with a deadline.                *)
(***************************************************************************)
NoAssertionFails == pc # "panicked"

(***************************************************************************)
(* The time of a deadline as the controllers and the Monitor read the      *)
(* schedule: a pause comes before the deadline it is stored in, so that    *)
(* the first deadline lies one pause into the hyper-period and the last    *)
(* one at its end, where they have evaluated its streams at time 0 too.    *)
(* The comments on Deadline and Schedule say otherwise, see                *)
(* DeadlinesAsDocumented.                                                  *)
(***************************************************************************)
TimeOf[i \in DOMAIN deadlines] ==
    (IF i = 1 THEN 0 ELSE TimeOf[i - 1]) + deadlines[i].pause

(***************************************************************************)
(* Every stream is due once in each of its periods and nowhere else: its   *)
(* k-th deadline in the hyper-period lies at k periods, or is early by     *)
(* less than a nanosecond for each deadline so far where a period is not a *)
(* whole number of them.  Streams of one deadline come in the order of     *)
(* their evaluation layers.                                                *)
(***************************************************************************)
DeadlinesOf(s) ==
    Ascending(Len(deadlines),
              {i \in DOMAIN deadlines : s \in Range(deadlines[i].due)})
OnTime(i, k, p) ==
    LET ahead == k * p.n - TimeOf[i] * p.d   \* in 1 / p.d nanoseconds
    IN  IF IsInteger(ExtendPeriod) THEN ahead = 0
                                   ELSE ahead >= 0 /\ ahead < i * p.d
DueOncePerPeriod ==
    pc = "done" =>
        /\ \A s \in Streams :
              /\ Quotient(HyperPeriod, period[s]) =
                     Rational(Len(DeadlinesOf(s)), 1)
              /\ \A k \in 1..Len(DeadlinesOf(s)) :
                    OnTime(DeadlinesOf(s)[k], k, period[s])
        /\ \A i \in DOMAIN deadlines :
              LET due == deadlines[i].due
              IN  /\ IsInjective(due)
                  /\ \A a, b \in DOMAIN due :
                        a < b => EvalLayer[due[a]] <= EvalLayer[due[b]]

(***************************************************************************)
(* The pauses fill the hyper-period: nothing is lost from one round of the *)
(* schedule to the next.  That is, if the grid is a whole number of        *)
(* nanoseconds: each pause of another one loses the fraction, and with it  *)
(* the deadlines drift.                                                    *)
(***************************************************************************)
PausesFillHyperPeriod ==
    pc = "done" /\ IsInteger(ExtendPeriod) =>
        Rational(TimeOf[Len(deadlines)], 1) = HyperPeriod

(***************************************************************************)
(* What the comments say: a pause is "The pause between this evaluation    *)
(* and the next deadline." and "The first deadline is at the start of the  *)
(* hyper-period.", with all streams, as in the example                     *)
(* "([a,b] --1000ms-->) ([a] --500ms-->) ([b] --500ms-->) ...".  Read so,  *)
(* each deadline has the streams of which it is a multiple of the period.  *)
(***************************************************************************)
DocumentedTime[i \in DOMAIN deadlines] ==
    IF i = 1 THEN 0 ELSE DocumentedTime[i - 1] + deadlines[i - 1].pause
DeadlinesAsDocumented ==
    pc = "done" /\ IsInteger(ExtendPeriod) =>
        \A i \in DOMAIN deadlines : \A s \in Streams :
            s \in Range(deadlines[i].due)
                <=> Divides(period[s].n, DocumentedTime[i] * period[s].d)
=============================================================================

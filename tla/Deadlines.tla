------------------------------ MODULE Deadlines ------------------------------
(***************************************************************************)
(* The static schedule of the periodic streams, as the time-driven part of *)
(* the interpreter consumes it (frontend/src/ir/schedule.rs, Schedule and  *)
(* Deadline): a list of deadlines that is repeated forever.                *)
(*                                                                         *)
(* The schedule is given by the times, within one hyper-period, at which   *)
(* something is due; the pause the code stores in a Deadline is the time   *)
(* since the previous one.  How the schedule is computed from the periods  *)
(* of the streams is the subject of module Schedule.                       *)
(***************************************************************************)
EXTENDS Integers, Sequences

CONSTANTS
    DueTimes,   \* the due times of one hyper-period; <<>> without
                \* time-driven streams
    DueStreams  \* the streams due at each of them

(***************************************************************************)
(* The schedule cuts its pauses to whole nanoseconds, so a pause may be    *)
(* zero: deadlines less than a nanosecond apart get the same time.         *)
(***************************************************************************)
ASSUME DeadlinesAssumption ==
    /\ DueTimes \in Seq(Nat)
    /\ \A i, j \in 1..Len(DueTimes) : i < j => DueTimes[i] <= DueTimes[j]
    /\ Len(DueStreams) = Len(DueTimes)

NumDeadlines == Len(DueTimes)
HasTimeDriven == NumDeadlines > 0
HyperPeriod == DueTimes[NumDeadlines]

(***************************************************************************)
(* The deadlines of the code: its cycle starts with deadline 1, the        *)
(* streams due at time 0 are those of the last one.                        *)
(***************************************************************************)
Pause(i) == DueTimes[i] - (IF i = 1 THEN 0 ELSE DueTimes[i - 1])
NextInCycle(i) == IF i = NumDeadlines THEN 1 ELSE i + 1

(***************************************************************************)
(* What the schedule means: time and streams of the j-th deadline of an    *)
(* execution, deadline 0 lying at time 0.                                  *)
(***************************************************************************)
PositionOf(j) == IF j = 0 THEN NumDeadlines ELSE ((j - 1) % NumDeadlines) + 1
DeadlineTime(j) ==
    IF j = 0 THEN 0
    ELSE ((j - 1) \div NumDeadlines) * HyperPeriod + DueTimes[PositionOf(j)]
DueAt(j) == DueStreams[PositionOf(j)]
=============================================================================

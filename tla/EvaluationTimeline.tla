-------------------------- MODULE EvaluationTimeline --------------------------
(***************************************************************************)
(* What an offline run promises, without threads, queues or batches: the   *)
(* evaluation cycles of the events of the input and of the deadlines of    *)
(* the schedule happen one after the other in the order of their times.    *)
(*                                                                         *)
(* Nothing happens twice and nothing is skipped.  An event goes before the *)
(* deadline of the same time.  A finished run has evaluated every event,   *)
(* and every deadline up to and including the time of the last event.      *)
(***************************************************************************)
EXTENDS Deadlines

CONSTANTS
    Inputs,   \* the possible inputs: sequences of event times
    NoCycle   \* no cycle was evaluated yet

VARIABLES
    input,     \* the times of the events of the source
    events,    \* number of events evaluated
    deadlines, \* number of deadlines evaluated
    last,      \* the latest evaluation cycle
    finished   \* the run ended normally

vars == <<input, events, deadlines, last, finished>>

EventCycle(k)    == [kind |-> "event", what |-> k, ts |-> input[k]]
DeadlineCycle(j) == [kind |-> "timed", what |-> DueAt(j), ts |-> DeadlineTime(j)]

Init ==
    /\ input \in Inputs
    /\ events = 0
    /\ deadlines = 0
    /\ last = NoCycle
    /\ finished = FALSE

(***************************************************************************)
(* The next event, once no deadline lies before it.                        *)
(***************************************************************************)
EvaluateEvent ==
    /\ ~finished
    /\ events < Len(input)
    /\ HasTimeDriven => input[events + 1] <= DeadlineTime(deadlines)
    /\ last # NoCycle => last.ts <= input[events + 1]
    /\ events' = events + 1
    /\ last' = EventCycle(events + 1)
    /\ UNCHANGED <<input, deadlines, finished>>

(***************************************************************************)
(* The next deadline, once every event up to its time was evaluated; after *)
(* the last event only the deadlines it has reached are left.              *)
(***************************************************************************)
EvaluateDeadline ==
    /\ ~finished
    /\ HasTimeDriven
    /\ IF events < Len(input)
       THEN DeadlineTime(deadlines) < input[events + 1]
       ELSE events > 0 /\ DeadlineTime(deadlines) <= input[events]
    /\ last # NoCycle => last.ts <= DeadlineTime(deadlines)
    /\ deadlines' = deadlines + 1
    /\ last' = DeadlineCycle(deadlines)
    /\ UNCHANGED <<input, events, finished>>

Finish ==
    /\ ~finished
    /\ events = Len(input) /\ events > 0
    /\ HasTimeDriven => DeadlineTime(deadlines) > input[events]
    /\ finished' = TRUE
    /\ UNCHANGED <<input, events, deadlines, last>>

Next == EvaluateEvent \/ EvaluateDeadline \/ Finish

Spec == Init /\ [][Next]_vars
=============================================================================

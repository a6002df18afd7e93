-------------------------- MODULE OfflineController --------------------------
(***************************************************************************)
(* An offline run of the interpreter: Controller::evaluate_offline on the  *)
(* main thread and EventDrivenManager::start_offline (the EDM) on a thread *)
(* of its own (interpreter/src/coordination).                              *)
(*                                                                         *)
(* The EDM reads the events of the source into a local queue and hands it  *)
(* over, whenever it is full, through a bounded channel of local queues.   *)
(* Before that it sends the time of the first event through a channel of   *)
(* its own, which the controller waits for.  The controller alone drives   *)
(* the evaluator: before each event it evaluates the deadlines of the      *)
(* schedule that lie before it, so time is simulated and not measured.     *)
(*                                                                         *)
(* A work item is a position in the input: k is the Event with the k-th    *)
(* time of the input, and the position behind the last one is End.  The    *)
(* values of the events do not matter here.                                *)
(***************************************************************************)
EXTENDS Deadlines

CONSTANTS
    Inputs,        \* the possible inputs: sequences of event times
    NoCycle,       \* no cycle was evaluated yet
    CapWork,       \* CAP_WORK_QUEUE: capacity of the work channel
    CapLocal,      \* CAP_LOCAL_QUEUE: capacity of a local queue
    SetupResults,  \* what TimeDrivenManager::setup may lead to: a subset
                   \* of {"recv", "failed"}
    SourceFaults   \* how the event source may fail: a subset of
                   \* {"panic", "exit"}

ASSUME InputsAssumption == \A inp \in Inputs : inp \in Seq(Nat)
ASSUME CapacityAssumption == CapWork \in Nat \ {0} /\ CapLocal \in Nat \ {0}
ASSUME FaultAssumption == /\ SetupResults \subseteq {"recv", "failed"}
                          /\ SetupResults # {}
                          /\ SourceFaults \subseteq {"panic", "exit"}

VARIABLES
    input,        \* the times of the events of the source
    (* the EDM thread *)
    edm,          \* "fill", "sendEnd", "stopped" or "dead" (panicked)
    read,         \* current_cycle: events read from the source
    localQueue,   \* the local queue it fills
    (* the channels *)
    timeSlot,     \* "open", "sent", "taken" or "closed" (sender dropped)
    work,         \* the local queues in the work channel
    (* the controller, on the main thread *)
    ctl,          \* where it is in evaluate_offline
    batch,        \* the rest of the local queue it works on
    nextDeadline, \* time of the next deadline
    due,          \* position of the deadline whose streams are due then
    currentTime,  \* time of the latest event
    (* the evaluator *)
    lastCycleTime, \* time_last_event, -1 for None
    last,         \* the latest evaluation cycle
    events,       \* history: events evaluated
    deadlines     \* history: deadlines evaluated

edmVars == <<edm, read, localQueue>>
ctlVars == <<ctl, batch, nextDeadline, due, currentTime>>
evalVars == <<lastCycleTime, last, events, deadlines>>
vars == <<input, edmVars, timeSlot, work, ctlVars, evalVars>>

End == Len(input) + 1

(***************************************************************************)
(* "exited" stands for process::exit, after which no thread takes a step.  *)
(* The receiver of the work channel is dropped with evaluate_offline.      *)
(***************************************************************************)
Running == ctl # "exited"
ReceiverAlive == ctl \in {"start", "setup", "recv", "handle", "join"}
SenderAlive == edm \in {"fill", "sendEnd"}

-----------------------------------------------------------------------------
Init ==
    /\ input \in Inputs
    /\ edm = "fill" /\ read = 0 /\ localQueue = <<>>
    /\ timeSlot = "open" /\ work = <<>>
    /\ ctl = "start" /\ batch = <<>>
    /\ nextDeadline = 0 /\ due = NumDeadlines /\ currentTime = 0
    /\ lastCycleTime = -1 /\ last = NoCycle /\ events = 0 /\ deadlines = 0

-----------------------------------------------------------------------------
(* The EDM.                                                                *)

(***************************************************************************)
(* One round of its inner loop: an event is read and queued; the first one *)
(* releases the start time.                                                *)
(***************************************************************************)
ReadEvent ==
    /\ Running /\ edm = "fill" /\ Len(localQueue) < CapLocal
    /\ read < Len(input)
    /\ read' = read + 1
    /\ localQueue' = Append(localQueue, read + 1)
    /\ timeSlot' = IF timeSlot = "open" THEN "sent" ELSE timeSlot
    /\ UNCHANGED <<input, edm, work, ctlVars, evalVars>>

EndAlone == \* wrong variant: End replaces the events not sent yet
    /\ Running /\ edm = "fill" /\ Len(localQueue) < CapLocal
    /\ read = Len(input)
    /\ localQueue' = <<End>>
    /\ edm' = "sendEnd"
    /\ UNCHANGED <<input, read, timeSlot, work, ctlVars, evalVars>>

(***************************************************************************)
(* has_event is false: End is queued and the queue is sent off.            *)
(***************************************************************************)
ReadEnd ==
    /\ Running /\ edm = "fill" /\ Len(localQueue) < CapLocal
    /\ read = Len(input)
    /\ localQueue' = Append(localQueue, End)
    /\ edm' = "sendEnd"
    /\ UNCHANGED <<input, read, timeSlot, work, ctlVars, evalVars>>

(***************************************************************************)
(* Wrong variants: of a channel without capacity, and of a send that still *)
(* blocks when nobody will ever receive.                                   *)
(***************************************************************************)
SendUnbounded ==
    /\ Running
    /\ edm = "sendEnd" \/ (edm = "fill" /\ Len(localQueue) = CapLocal)
    /\ work' = IF ReceiverAlive THEN Append(work, localQueue) ELSE work
    /\ localQueue' = <<>>
    /\ IF edm = "sendEnd"
       THEN /\ edm' = "stopped"
            /\ timeSlot' = IF timeSlot = "open" THEN "closed" ELSE timeSlot
       ELSE UNCHANGED <<edm, timeSlot>>
    /\ UNCHANGED <<input, read, ctlVars, evalVars>>
SendToNobody == ReceiverAlive /\ Len(work) < CapWork /\ SendUnbounded

(***************************************************************************)
(* Sending blocks while the channel is full.  Without a receiver it fails  *)
(* at once, and the queue is lost with a warning.  After End the EDM       *)
(* returns and drops its senders.                                          *)
(***************************************************************************)
SendLocalQueue ==
    /\ Running
    /\ edm = "sendEnd" \/ (edm = "fill" /\ Len(localQueue) = CapLocal)
    /\ ReceiverAlive => Len(work) < CapWork
    /\ work' = IF ReceiverAlive THEN Append(work, localQueue) ELSE work
    /\ localQueue' = <<>>
    /\ IF edm = "sendEnd"
       THEN /\ edm' = "stopped"
            /\ timeSlot' = IF timeSlot = "open" THEN "closed" ELSE timeSlot
       ELSE UNCHANGED <<edm, timeSlot>>
    /\ UNCHANGED <<input, read, ctlVars, evalVars>>

(***************************************************************************)
(* The source panics (no time column, time before the start): the EDM dies *)
(* and what it has read but not sent is lost.                              *)
(***************************************************************************)
SourcePanics ==
    /\ "panic" \in SourceFaults
    /\ Running /\ edm = "fill" /\ Len(localQueue) < CapLocal
    /\ edm' = "dead"
    /\ localQueue' = <<>>
    /\ timeSlot' = IF timeSlot = "open" THEN "closed" ELSE timeSlot
    /\ UNCHANGED <<input, read, work, ctlVars, evalVars>>

(***************************************************************************)
(* The source calls process::exit (a record or a value does not parse).    *)
(***************************************************************************)
SourceExits ==
    /\ "exit" \in SourceFaults
    /\ Running /\ edm = "fill" /\ Len(localQueue) < CapLocal
    /\ ctl' = "exited"
    /\ UNCHANGED <<input, edmVars, timeSlot, work, evalVars,
                   batch, nextDeadline, due, currentTime>>

EDM == ReadEvent \/ ReadEnd \/ SendLocalQueue \/ SourcePanics \/ SourceExits

-----------------------------------------------------------------------------
(* The controller.                                                         *)

(***************************************************************************)
(* Panics unwind the main thread and drop the receivers.                   *)
(***************************************************************************)
Panic == /\ ctl' = "panicked"
         /\ UNCHANGED <<batch, nextDeadline, due, currentTime, evalVars>>

ReceiveStart ==
    /\ ctl = "start"
    /\ \/ /\ timeSlot = "sent"
          /\ timeSlot' = "taken"
          /\ ctl' = "setup"
          /\ UNCHANGED <<batch, nextDeadline, due, currentTime, evalVars>>
       \/ /\ timeSlot = "closed"
          /\ Panic
          /\ UNCHANGED timeSlot
    /\ UNCHANGED <<input, edmVars, work>>

(***************************************************************************)
(* TimeDrivenManager::setup: computes the schedule, unless there is        *)
(* nothing to schedule; an error is returned to the caller.                *)
(***************************************************************************)
Setup ==
    /\ ctl = "setup"
    /\ ctl' \in IF HasTimeDriven THEN SetupResults ELSE {"recv"}
    /\ UNCHANGED <<input, edmVars, timeSlot, work, evalVars,
                   batch, nextDeadline, due, currentTime>>

ReceiveLocalQueue ==
    /\ ctl = "recv"
    /\ \/ /\ work # <<>>
          /\ batch' = Head(work)
          /\ work' = Tail(work)
          /\ ctl' = "handle"
          /\ UNCHANGED <<nextDeadline, due, currentTime, evalVars>>
       \/ /\ work = <<>> /\ ~SenderAlive
          /\ Panic
          /\ UNCHANGED work
    /\ UNCHANGED <<input, edmVars, timeSlot>>

(***************************************************************************)
(* The evaluator takes a cycle at time ts unless its assertion fails.      *)
(***************************************************************************)
StrictlyMonotone(ts) == lastCycleTime < ts \* wrong variant
Monotone(ts) == lastCycleTime <= ts
Evaluate(cycle) ==
    /\ Monotone(cycle.ts)
    /\ lastCycleTime' = cycle.ts
    /\ last' = cycle

DeadlineFirstInclusive == \* wrong variant: the deadline wins a tie
    /\ HasTimeDriven
    /\ IF Head(batch) = End THEN currentTime = nextDeadline
                            ELSE input[Head(batch)] >= nextDeadline

(***************************************************************************)
(* The two loops that let a deadline go first: those before an event, and, *)
(* at the end of the input, those at the time of the last event.           *)
(***************************************************************************)
DeadlineFirst ==
    /\ HasTimeDriven
    /\ IF Head(batch) = End THEN currentTime = nextDeadline
                            ELSE input[Head(batch)] > nextDeadline

(***************************************************************************)
(* schedule_timed.  After the evaluation it asserts that the next pause is *)
(* not zero.                                                               *)
(***************************************************************************)
ScheduleTimed ==
    /\ ctl = "handle" /\ DeadlineFirst
    /\ LET cycle == [kind |-> "timed", what |-> DueStreams[due],
                     ts |-> nextDeadline]
           pause == Pause(NextInCycle(due))
       IN  \/ /\ Evaluate(cycle)
              /\ due' = NextInCycle(due)
              /\ nextDeadline' = nextDeadline + pause
              /\ deadlines' = deadlines + 1
              /\ ctl' = IF pause > 0 THEN ctl ELSE "panicked"
              /\ UNCHANGED <<batch, currentTime, events>>
           \/ ~Monotone(cycle.ts) /\ Panic
    /\ UNCHANGED <<input, edmVars, timeSlot, work>>

HandleEvent ==
    /\ ctl = "handle" /\ ~DeadlineFirst /\ Head(batch) # End
    /\ LET k == Head(batch)
           cycle == [kind |-> "event", what |-> k, ts |-> input[k]]
       IN  \/ /\ Evaluate(cycle)
              /\ currentTime' = input[k]
              /\ events' = events + 1
              /\ batch' = Tail(batch)
              /\ ctl' = IF Len(batch) = 1 THEN "recv" ELSE "handle"
              /\ UNCHANGED <<nextDeadline, due, deadlines>>
           \/ ~Monotone(cycle.ts) /\ Panic
    /\ UNCHANGED <<input, edmVars, timeSlot, work>>

HandleEnd ==
    /\ ctl = "handle" /\ ~DeadlineFirst /\ Head(batch) = End
    /\ batch' = <<>>
    /\ ctl' = "join"
    /\ UNCHANGED <<input, edmVars, timeSlot, work, evalVars,
                   nextDeadline, due, currentTime>>

(***************************************************************************)
(* edm_thread.join().expect(..)                                            *)
(***************************************************************************)
Join ==
    /\ ctl = "join" /\ ~SenderAlive
    /\ IF edm = "stopped"
       THEN /\ ctl' = "done"
            /\ UNCHANGED <<batch, nextDeadline, due, currentTime, evalVars>>
       ELSE Panic
    /\ UNCHANGED <<input, edmVars, timeSlot, work>>

Ctl == \/ ReceiveStart \/ Setup \/ ReceiveLocalQueue
       \/ ScheduleTimed \/ HandleEvent \/ HandleEnd \/ Join

-----------------------------------------------------------------------------
CtlEnded == ctl \in {"done", "failed", "panicked", "exited"}
Stopped == CtlEnded /\ (Running => ~SenderAlive) /\ UNCHANGED vars

Next == EDM \/ Ctl \/ Stopped

Spec == Init /\ [][Next]_vars

(***************************************************************************)
(* Both threads are scheduled: a thread that can go on eventually does.    *)
(***************************************************************************)
FairSpec == Spec /\ WF_vars(EDM) /\ WF_vars(Ctl)

-----------------------------------------------------------------------------
Items == 1..Len(input) + 1

TypeOK ==
    /\ input \in Inputs
    /\ edm \in {"fill", "sendEnd", "stopped", "dead"}
    /\ read \in 0..Len(input)
    /\ localQueue \in Seq(Items) /\ Len(localQueue) <= CapLocal
    /\ timeSlot \in {"open", "sent", "taken", "closed"}
    /\ work \in Seq(Seq(Items)) /\ Len(work) <= CapWork
    /\ ctl \in {"start", "setup", "recv", "handle", "join",
                "done", "failed", "panicked", "exited"}
    /\ batch \in Seq(Items)
    /\ nextDeadline \in Nat
    /\ due \in 0..NumDeadlines
    /\ currentTime \in Nat
    /\ lastCycleTime \in Nat \cup {-1}
    /\ events \in Nat
    /\ deadlines \in Nat

(***************************************************************************)
(* Threads, batches and bounded channels are invisible in the sequence of  *)
(* evaluation cycles: the run implements EvaluationTimeline.               *)
(***************************************************************************)
Timeline == INSTANCE EvaluationTimeline
                WITH finished <- ctl \in {"join", "done"}
ImplementsTimeline == Timeline!Spec

(***************************************************************************)
(* The only ways to a panic: an empty input, a source that panics, an      *)
(* input whose times decrease, and a schedule that has a pause of zero     *)
(* where the run has come to (streams due less than a nanosecond apart).   *)
(* In particular the time assertion of the evaluator never fails because   *)
(* of how deadlines are interleaved with events.                           *)
(***************************************************************************)
NonDecreasing(s) == \A i, j \in DOMAIN s : i < j => s[i] <= s[j]
MetZeroPause == HasTimeDriven /\ deadlines > 0 /\ Pause(due) = 0
PanicsOnlyForCause ==
    ctl = "panicked" => \/ input = <<>>
                        \/ ~NonDecreasing(input)
                        \/ edm = "dead"
                        \/ MetZeroPause

(***************************************************************************)
(* Reading ahead is bounded: the EDM is never more than the channel, one   *)
(* queue on each side of it included, ahead of the evaluation.             *)
(***************************************************************************)
BoundedReadAhead ==
    ReceiverAlive => read - events <= CapLocal * (CapWork + 2)

(***************************************************************************)
(* A run that ends normally has evaluated its whole input.                 *)
(***************************************************************************)
DoneIsComplete == ctl = "done" => events = Len(input)

(***************************************************************************)
(* Every run ends, and the EDM does not outlive it: neither side waits     *)
(* forever for the other, whichever of them fails first.                   *)
(***************************************************************************)
Terminates == <>(CtlEnded /\ (Running => ~SenderAlive))

(***************************************************************************)
(* The inductive invariant behind these properties.                        *)
(*                                                                         *)
(* InOrder: while the controller receives, the items not evaluated yet lie *)
(* in its batch, the channel and the local queue, in this order, numbered  *)
(* from the event after the last one evaluated; every queue in the channel *)
(* is full, except the one that ends with End.                             *)
(***************************************************************************)
ItemsIn(n) == n * CapLocal
Numbered(s, before) == \A j \in 1..Len(s) : s[j] = before + j
InChannel ==
    IF work = <<>> THEN 0
    ELSE ItemsIn(Len(work) - 1) + Len(work[Len(work)])
InFlight == Len(batch) + InChannel + Len(localQueue)

InOrder ==
    /\ Numbered(batch, events)
    /\ Len(batch) <= CapLocal
    /\ \A w \in 1..Len(work) :
          /\ Numbered(work[w], events + Len(batch) + ItemsIn(w - 1))
          /\ Len(work[w]) \in 1..CapLocal
          /\ (w < Len(work) \/ edm # "stopped") => Len(work[w]) = CapLocal
    /\ Numbered(localQueue, events + Len(batch) + InChannel)

(* How far the EDM is ahead; a dead EDM took its local queue with it. *)
Accounted ==
    /\ edm = "fill"    => read = events + InFlight
    /\ edm = "sendEnd" => Len(input) + 1 = events + InFlight
    /\ edm = "stopped" => Len(input) + 1 = events + InFlight
    /\ edm = "dead"    => /\ read >= events + InFlight
                          /\ read <= events + InFlight + CapLocal

(* The state of the EDM and of the start channel. *)
Started ==
    /\ edm \in {"sendEnd", "stopped"} => read = Len(input)
    /\ edm = "sendEnd" => localQueue # <<>>
    /\ edm \in {"stopped", "dead"} => localQueue = <<>>
    /\ timeSlot \in {"open", "closed"} <=> read = 0
    /\ timeSlot = "closed" => ~SenderAlive
    /\ ctl \in {"setup", "recv", "handle", "join", "done", "failed"}
           => timeSlot = "taken"

(* Where the controller is in time. *)
Clock ==
    /\ events <= Len(input)
    /\ HasTimeDriven => /\ due = PositionOf(deadlines)
                        /\ nextDeadline = DeadlineTime(deadlines)
                        /\ events > 0 => currentTime <= nextDeadline
                        /\ lastCycleTime <= nextDeadline
    /\ events > 0 => currentTime = input[events]
    /\ last # NoCycle => last.ts = lastCycleTime
    /\ NonDecreasing(input) /\ events < Len(input)
           => lastCycleTime <= input[events + 1]

Phases ==
    /\ ctl \in {"start", "setup", "recv"} => batch = <<>>
    /\ ctl = "handle" => batch # <<>>
    /\ ctl \in {"join", "done"} => edm = "stopped" /\ events = Len(input)

Receiving == ctl \in {"start", "setup", "recv", "handle"}

IInv ==
    /\ TypeOK /\ Started /\ Clock /\ Phases
    /\ Receiving => InOrder /\ Accounted
    /\ PanicsOnlyForCause

=============================================================================

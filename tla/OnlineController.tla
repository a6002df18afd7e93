--------------------------- MODULE OnlineController ---------------------------
(***************************************************************************)
(* An online run of the interpreter: Controller::evaluate_online on the    *)
(* main thread, the TimeDrivenManager (TDM) and the EventDrivenManager     *)
(* (EDM) on threads of their own (interpreter/src/coordination).  The      *)
(* three share an unbounded channel of work items and the system clock.    *)
(*                                                                         *)
(* The evaluator ignores the time of an item: in online mode a cycle       *)
(* happens at the time elapsed when it is evaluated.                       *)
(***************************************************************************)
EXTENDS Deadlines, FiniteSets

CONSTANTS
    NumEvents,    \* events of the source before it ends
    MaxTime,      \* bound: the clock stops there
    SourceFaults, \* how the source may fail: a subset of {"panic", "exit"}
    SetupResults  \* what TimeDrivenManager::setup may lead to: a subset
                  \* of {"check", "dead"}

ASSUME OnlineAssumption ==
    /\ NumEvents \in Nat /\ MaxTime \in Nat
    /\ SourceFaults \subseteq {"panic", "exit"}
    /\ SetupResults \subseteq {"check", "dead"} /\ SetupResults # {}

VARIABLES
    clock,     \* the time elapsed since the start
    tdm,       \* "none" (not spawned), "setup", "check", "wait" or "dead"
    dueTime,   \* due_time of the TDM
    due,       \* position of its current deadline
    wakeAt,    \* when the TDM ends its sleep at the earliest
    edm,       \* "run", "asleep" or "dead"
    read,      \* current_cycle: events read
    queue,     \* the work channel
    ctl,       \* "run", "finished" (process::exit at End), "exited" (by the
               \* source) or "panicked"
    events,    \* history: number of events evaluated
    deadlines, \* history: number of deadlines evaluated
    last       \* history: the latest evaluation cycle and when it happened

tdmVars == <<tdm, dueTime, due, wakeAt>>
edmVars == <<edm, read>>
ctlVars == <<ctl, events, deadlines, last>>
vars == <<clock, tdmVars, edmVars, queue, ctlVars>>

NoCycle == [kind |-> "none", what |-> {}, at |-> 0]
EventItem(k) == [kind |-> "event", what |-> k]
TimeItem(i) == [kind |-> "time", what |-> DueStreams[i]]
EndItem == [kind |-> "end", what |-> {}]

Init ==
    /\ clock = 0
    /\ tdm = IF HasTimeDriven THEN "setup" ELSE "none"
    /\ dueTime = 0 /\ due = NumDeadlines /\ wakeAt = 0
    /\ edm = "run" /\ read = 0
    /\ queue = <<>>
    /\ ctl = "run" /\ events = 0 /\ deadlines = 0 /\ last = NoCycle

Running == ctl = "run"

Tick ==
    /\ Running /\ clock < MaxTime
    /\ clock' = clock + 1
    /\ UNCHANGED <<tdmVars, edmVars, queue, ctlVars>>

-----------------------------------------------------------------------------
(* The TDM.                                                                *)

(***************************************************************************)
(* The schedule is computed and the streams due at time 0 are sent, those  *)
(* of the last deadline; or the thread panics.                             *)
(***************************************************************************)
StartWithFirst == \* wrong variant: sends the streams of the first deadline
    /\ Running /\ tdm = "setup"
    /\ tdm' \in SetupResults
    /\ queue' = IF tdm' = "check" THEN Append(queue, TimeItem(1)) ELSE queue
    /\ UNCHANGED <<clock, dueTime, due, wakeAt, edmVars, ctlVars>>
Start ==
    /\ Running /\ tdm = "setup"
    /\ tdm' \in SetupResults
    /\ queue' = IF tdm' = "check" THEN Append(queue, TimeItem(NumDeadlines))
                                  ELSE queue
    /\ UNCHANGED <<clock, dueTime, due, wakeAt, edmVars, ctlVars>>

(***************************************************************************)
(* The next deadline is due one pause after the one before, whenever that  *)
(* one was sent; the TDM sleeps for the rest of the time.                  *)
(***************************************************************************)
Drifting == \* wrong variant: the pause starts when the clock is read
    /\ Running /\ tdm = "check"
    /\ due' = NextInCycle(due)
    /\ dueTime' = clock + Pause(NextInCycle(due))
    /\ wakeAt' = dueTime'
    /\ tdm' = "wait"
    /\ UNCHANGED <<clock, edmVars, queue, ctlVars>>
NoSleep == \* wrong variant: sends the deadline at once
    /\ Running /\ tdm = "check"
    /\ due' = NextInCycle(due)
    /\ dueTime' = dueTime + Pause(NextInCycle(due))
    /\ wakeAt' = clock
    /\ tdm' = "wait"
    /\ UNCHANGED <<clock, edmVars, queue, ctlVars>>

CheckClock ==
    /\ Running /\ tdm = "check"
    /\ due' = NextInCycle(due)
    /\ dueTime' = dueTime + Pause(NextInCycle(due))
    /\ wakeAt' = IF clock < dueTime' THEN clock + (dueTime' - clock) ELSE clock
    /\ tdm' = "wait"
    /\ UNCHANGED <<clock, edmVars, queue, ctlVars>>

SendDeadline ==
    /\ Running /\ tdm = "wait" /\ clock >= wakeAt
    /\ queue' = Append(queue, TimeItem(due))
    /\ tdm' = "check"
    /\ UNCHANGED <<clock, dueTime, due, wakeAt, edmVars, ctlVars>>

TDM == Start \/ CheckClock \/ SendDeadline

-----------------------------------------------------------------------------
(* The EDM.                                                                *)

SendEvent ==
    /\ Running /\ edm = "run" /\ read < NumEvents
    /\ read' = read + 1
    /\ queue' = Append(queue, EventItem(read + 1))
    /\ UNCHANGED <<clock, tdmVars, edm, ctlVars>>

(***************************************************************************)
(* At the end of the source the thread sends End and sleeps forever.       *)
(***************************************************************************)
EndFirst == \* wrong variant: End overtakes the events
    /\ Running /\ edm = "run" /\ read = NumEvents
    /\ queue' = <<EndItem>> \o queue
    /\ edm' = "asleep"
    /\ UNCHANGED <<clock, tdmVars, read, ctlVars>>
SendEnd ==
    /\ Running /\ edm = "run" /\ read = NumEvents
    /\ queue' = Append(queue, EndItem)
    /\ edm' = "asleep"
    /\ UNCHANGED <<clock, tdmVars, read, ctlVars>>

SourcePanics ==
    /\ "panic" \in SourceFaults
    /\ Running /\ edm = "run"
    /\ edm' = "dead"
    /\ UNCHANGED <<clock, tdmVars, read, queue, ctlVars>>

SourceExits ==
    /\ "exit" \in SourceFaults
    /\ Running /\ edm = "run"
    /\ ctl' = "exited"
    /\ UNCHANGED <<clock, tdmVars, edmVars, queue, events, deadlines, last>>

EDM == SendEvent \/ SendEnd \/ SourcePanics \/ SourceExits

-----------------------------------------------------------------------------
(* The main thread.                                                        *)

Evaluate ==
    /\ Running /\ queue # <<>> /\ Head(queue).kind \in {"event", "time"}
    /\ queue' = Tail(queue)
    /\ last' = [kind |-> Head(queue).kind, what |-> Head(queue).what,
                at |-> clock]
    /\ IF Head(queue).kind = "event"
       THEN events' = events + 1 /\ UNCHANGED deadlines
       ELSE deadlines' = deadlines + 1 /\ UNCHANGED events
    /\ UNCHANGED <<clock, tdmVars, edmVars, ctl>>

Finish ==
    /\ Running /\ queue # <<>> /\ Head(queue) = EndItem
    /\ ctl' = "finished"
    /\ queue' = Tail(queue)
    /\ UNCHANGED <<clock, tdmVars, edmVars, events, deadlines, last>>

(***************************************************************************)
(* recv fails: the channel is empty and no sender is left.  The EDM keeps  *)
(* its sender while it sleeps.                                             *)
(***************************************************************************)
BothHungUp ==
    /\ Running /\ queue = <<>> /\ edm = "dead" /\ tdm \in {"none", "dead"}
    /\ ctl' = "panicked"
    /\ UNCHANGED <<clock, tdmVars, edmVars, queue, events, deadlines, last>>

Main == Evaluate \/ Finish \/ BothHungUp

-----------------------------------------------------------------------------
Ended == ~Running /\ UNCHANGED vars
(* The model ends with the clock: all that is due has been done. *)
OutOfTime ==
    /\ Running /\ clock = MaxTime /\ queue = <<>>
    /\ edm # "run" /\ tdm \notin {"setup", "check"} /\ wakeAt > MaxTime
    /\ UNCHANGED vars

Next == Tick \/ TDM \/ EDM \/ Main \/ Ended \/ OutOfTime

Spec == Init /\ [][Next]_vars

(***************************************************************************)
(* Time passes, the TDM and the main thread are scheduled.  The source may *)
(* keep the EDM waiting for its next event forever.                        *)
(***************************************************************************)
FairSpec == Spec /\ WF_vars(Tick) /\ WF_vars(TDM) /\ WF_vars(Main)

-----------------------------------------------------------------------------
(***************************************************************************)
(* The items of a kind in the channel, and how many of them are ahead of   *)
(* position k.                                                             *)
(***************************************************************************)
Pending(kind) == {i \in 1..Len(queue) : queue[i].kind = kind}
Ahead(kind, k) == Cardinality({i \in 1..k - 1 : queue[i].kind = kind})

(***************************************************************************)
(* The deadlines are those of the schedule, one after the other, with      *)
(* their streams: none is lost, repeated or overtaken between the TDM and  *)
(* the evaluator, however the producers interleave.                        *)
(***************************************************************************)
DeadlinesInOrder ==
    /\ last.kind = "time" => last.what = DueAt(deadlines - 1)
    /\ \A k \in Pending("time") :
          queue[k].what = DueAt(deadlines + Ahead("time", k))

(***************************************************************************)
(* No deadline is evaluated before it is due, nor even sent.               *)
(***************************************************************************)
NeverEarly ==
    /\ last.kind = "time" => last.at >= DeadlineTime(deadlines - 1)
    /\ \A k \in Pending("time") :
          clock >= DeadlineTime(deadlines + Ahead("time", k))

(***************************************************************************)
(* process::exit is called only after every event of the source was        *)
(* evaluated, in the order in which they were read.                        *)
(***************************************************************************)
FinishedIsComplete ==
    /\ ctl = "finished" => events = NumEvents
    /\ last.kind = "event" => last.what = events

(***************************************************************************)
(* Once the time of a deadline has come it is evaluated, unless the run    *)
(* ends or the TDM died when it started: lateness of one deadline does not *)
(* postpone the later ones, and a source that dies takes none along.       *)
(***************************************************************************)
DeadlinesEvaluated ==
    \A j \in 0..MaxTime :
        (DeadlineTime(j) <= clock)
            ~> (deadlines > j \/ ~Running \/ tdm \in {"none", "dead"})

(***************************************************************************)
(* Every event that was read is evaluated, unless the source ends the      *)
(* process, also when the TDM or the EDM dies.                             *)
(***************************************************************************)
EventsEvaluated ==
    \A k \in 1..NumEvents : (read >= k) ~> (events >= k \/ ctl = "exited")
=============================================================================

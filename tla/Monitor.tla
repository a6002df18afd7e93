------------------------------- MODULE Monitor -------------------------------
(***************************************************************************)
(* The Monitor of the API (interpreter/src/coordination/monitor.rs): the   *)
(* caller hands over events and time stamps, and every call first          *)
(* evaluates the deadlines of the schedule and then the event.             *)
(*                                                                         *)
(* A call runs to its end without interference (it borrows the monitor     *)
(* mutably); it is cut here into the iterations of its loop.  The values   *)
(* of the events do not matter, their number in the order of acceptance    *)
(* does.  An empty schedule makes accept_time return at once.              *)
(***************************************************************************)
EXTENDS Deadlines, FiniteSets

CONSTANTS
    EventStreams, \* the outputs evaluated with an event
    MaxTime,      \* bound: no call carries a later time
    MaxCalls      \* bound: number of calls

ASSUME MonitorAssumption == MaxTime \in Nat /\ MaxCalls \in Nat

VARIABLES
    pc,            \* "idle", "time" (in a call) or "panicked"
    call,          \* the call being served: its kind and its time
    nextDeadline,  \* local variables of accept_time
    dueIx,
    timed,         \* timed_changes: pairs of a time and the fresh outputs
    times,         \* history: the times passed by the calls so far
    currentTime,   \* current_time of the monitor
    lastCycleTime, \* time_last_event of the evaluator, -1 for None
    fresh,         \* fresh_outputs of the evaluator
    accepted,      \* history: the times of the events evaluated
    evaluated      \* history: the deadlines evaluated, each with its time and
                   \* the number of events evaluated before it

vars == <<pc, call, nextDeadline, dueIx, timed, times, currentTime,
          lastCycleTime, fresh, accepted, evaluated>>

NoCall == [kind |-> "none", ts |-> 0]

Init ==
    /\ pc = "idle" /\ call = NoCall
    /\ nextDeadline = 0 /\ dueIx = NumDeadlines /\ timed = <<>>
    /\ times = <<>> /\ currentTime = 0
    /\ lastCycleTime = -1 /\ fresh = {}
    /\ accepted = <<>> /\ evaluated = {}

-----------------------------------------------------------------------------
(***************************************************************************)
(* Wrong variant: pairs time 0 with the streams of the first deadline.     *)
(***************************************************************************)
AcceptFirstDue(kind, ts) ==
    /\ pc = "idle" /\ Len(times) < MaxCalls
    /\ pc' = "time"
    /\ call' = [kind |-> kind, ts |-> ts]
    /\ nextDeadline' = 0 /\ dueIx' = IF HasTimeDriven THEN 1 ELSE 0
    /\ timed' = <<>>
    /\ times' = Append(times, ts)
    /\ UNCHANGED <<currentTime, lastCycleTime, fresh, accepted, evaluated>>

(***************************************************************************)
(* accept_event and accept_time begin alike: the loop over the deadlines   *)
(* starts at time 0, with the streams of the last deadline.                *)
(***************************************************************************)
Accept(kind, ts) ==
    /\ pc = "idle" /\ Len(times) < MaxCalls
    /\ pc' = "time"
    /\ call' = [kind |-> kind, ts |-> ts]
    /\ nextDeadline' = 0
    /\ dueIx' = NumDeadlines
    /\ timed' = <<>>
    /\ times' = Append(times, ts)
    /\ UNCHANGED <<currentTime, lastCycleTime, fresh, accepted, evaluated>>

(***************************************************************************)
(* The assertion at the start of eval_event and eval_time_driven_outputs.  *)
(***************************************************************************)
Monotone(ts) == lastCycleTime <= ts
Panic == pc' = "panicked" /\ UNCHANGED <<lastCycleTime, fresh, accepted,
                                         evaluated, nextDeadline, dueIx,
                                         timed, currentTime>>

AtItsTime == nextDeadline \* wrong variant: the time the deadline lies at
CycleTime == call.ts
FreshAfterDeadline == {}

(***************************************************************************)
(* One iteration: the due streams are evaluated at the time of the call,   *)
(* not at the time of the deadline.  The evaluator clears its fresh        *)
(* outputs before and after, so that none is left for the result.  Then    *)
(* the index moves on, and the pause of the deadline it comes to, which is *)
(* asserted not to be zero, leads there.                                   *)
(***************************************************************************)
PauseAtIndex(ix) == Pause(ix) \* wrong variant: read before the index moves
NextPause(ix) == Pause(NextInCycle(ix))

Deadline ==
    /\ pc = "time" /\ HasTimeDriven /\ call.ts > nextDeadline
    /\ \/ /\ Monotone(CycleTime)
          /\ lastCycleTime' = CycleTime
          /\ fresh' = FreshAfterDeadline
          /\ evaluated' = evaluated \cup
                 {[at |-> nextDeadline, due |-> DueStreams[dueIx],
                   seen |-> Len(accepted)]}
          /\ timed' = Append(timed, [at |-> nextDeadline, values |-> fresh'])
          /\ dueIx' = NextInCycle(dueIx)
          /\ nextDeadline' = nextDeadline + NextPause(dueIx)
          /\ pc' = IF NextPause(dueIx) > 0 THEN pc ELSE "panicked"
          /\ UNCHANGED <<accepted, currentTime>>
       \/ ~Monotone(CycleTime) /\ Panic
    /\ UNCHANGED <<call, times>>

(***************************************************************************)
(* The end of accept_time: it returns, or the event is evaluated.          *)
(***************************************************************************)
Caught == pc = "time" /\ ~(HasTimeDriven /\ call.ts > nextDeadline)

ReturnTime ==
    /\ Caught /\ call.kind = "time"
    /\ pc' = "idle"
    /\ UNCHANGED <<call, nextDeadline, dueIx, timed, times, currentTime,
                   lastCycleTime, fresh, accepted, evaluated>>

EvaluateEvent ==
    /\ Caught /\ call.kind = "event"
    /\ \/ /\ Monotone(call.ts)
          /\ lastCycleTime' = call.ts
          /\ fresh' = EventStreams
          /\ accepted' = Append(accepted, call.ts)
          /\ currentTime' = call.ts
          /\ pc' = "idle"
          /\ UNCHANGED <<nextDeadline, dueIx, timed, evaluated>>
       \/ ~Monotone(call.ts) /\ Panic
    /\ UNCHANGED <<call, times>>

(***************************************************************************)
(* The caller passes the times in any order.                               *)
(***************************************************************************)
AcceptEvent == \E ts \in 0..MaxTime : Accept("event", ts)
AcceptTime == \E ts \in 0..MaxTime : Accept("time", ts)

Next == AcceptEvent \/ AcceptTime \/ Deadline \/ ReturnTime \/ EvaluateEvent

Spec == Init /\ [][Next]_vars

-----------------------------------------------------------------------------
NonDecreasing(s) == \A i, j \in DOMAIN s : i < j => s[i] <= s[j]

(***************************************************************************)
(* A caller whose times never decrease never meets the assertion of the    *)
(* evaluator, although every call goes back to the deadline at time 0.     *)
(* What is left is the assertion on the pause the loop has come to, in a   *)
(* schedule with streams due less than a nanosecond apart.                 *)
(***************************************************************************)
MetZeroPause == HasTimeDriven /\ Len(timed) > 0 /\ Pause(dueIx) = 0
PanicsOnlyForCause == pc = "panicked" => ~NonDecreasing(times) \/ MetZeroPause

(***************************************************************************)
(* What a call returns are deadlines of the schedule, one after the other  *)
(* and with their times.  Nothing between the calls is left out: the first *)
(* is deadline 0 or comes after one that an earlier call has reached, and  *)
(* all before the time of the call are there.  The comment on accept_time, *)
(* "Computes all periodic streams up through the new timestamp.", would    *)
(* have the deadline at that very time among them; the code leaves it to   *)
(* a later call, as it does offline.  This property allows either, and     *)
(* also a call that does not start with deadline 0 again.                  *)
(***************************************************************************)
ReachedBefore(t) == \E c \in 1..Len(times) - 1 : times[c] >= t
ReturnedFrom(k) ==
    /\ \A i \in 1..Len(timed) : timed[i].at = DeadlineTime(k + i - 1)
    /\ k > 0 => ReachedBefore(DeadlineTime(k - 1))
    /\ Len(timed) > 0 => DeadlineTime(k + Len(timed) - 1) <= call.ts
    /\ DeadlineTime(k + Len(timed)) >= call.ts
ReturnsTheDeadlines ==
    pc = "idle" /\ HasTimeDriven => \E k \in 0..MaxTime : ReturnedFrom(k)

(***************************************************************************)
(* No deadline is skipped or late: the streams of every deadline before    *)
(* the time reached have been evaluated for it, and for the first time     *)
(* before any event that lies behind it was.                               *)
(***************************************************************************)
EventsUntil(t) == {i \in DOMAIN accepted : accepted[i] <= t}
NoDeadlineLate ==
    pc = "idle" /\ HasTimeDriven =>
        \A j \in 0..MaxTime : DeadlineTime(j) < call.ts =>
            \E e \in evaluated : /\ e.at = DeadlineTime(j)
                                 /\ e.due = DueAt(j)
                                 /\ e.seen <= Cardinality(EventsUntil(e.at))

(***************************************************************************)
(* What the comment on accept_event says of the periodic streams up to the *)
(* time of an event: "The new event is therefore not seen by periodic      *)
(* streams up through the new timestamp."                                  *)
(***************************************************************************)
NewEventNotSeen ==
    \A e \in evaluated : \A i \in 1..e.seen : accepted[i] <= e.at
=============================================================================

---------------------------- MODULE Monitor_proofs ----------------------------
(***************************************************************************)
(* Proofs about Monitor, for every schedule, every number of calls and all *)
(* times the caller may pass.                                              *)
(***************************************************************************)
EXTENDS Monitor, Deadlines_proofs, FiniteSetTheorems

Entries == [at : Nat, values : SUBSET EventStreams]

TypeOK ==
    /\ pc \in {"idle", "time", "panicked"}
    /\ call \in [kind : {"none", "event", "time"}, ts : Nat]
    /\ timed \in Seq(Entries)
    /\ times \in Seq(Nat)
    /\ lastCycleTime \in Int
    /\ accepted \in Seq(Nat)

(***************************************************************************)
(* The call being served is the latest one, and the evaluator's last cycle *)
(* happened at the time of some call.                                      *)
(***************************************************************************)
CallsRecorded ==
    /\ pc # "idle" => times # <<>>
    /\ times # <<>> => call.ts = times[Len(times)]
    /\ lastCycleTime # -1 => \E i \in 1..Len(times) : lastCycleTime = times[i]

(***************************************************************************)
(* What the call returns so far are the first deadlines of the schedule,   *)
(* and its loop stands at the next one.                                    *)
(***************************************************************************)
LoopFollowsSchedule ==
    /\ pc = "time" => /\ nextDeadline = DeadlineTime(Len(timed))
                      /\ dueIx = PositionOf(Len(timed))
    /\ \A i \in 1..Len(timed) : timed[i].at = DeadlineTime(i - 1)
    /\ Len(timed) > 0 => DeadlineTime(Len(timed) - 1) < call.ts
    /\ pc = "idle" => DeadlineTime(Len(timed)) >= call.ts

(***************************************************************************)
(* Deadline j was evaluated when no event behind it had been.  This holds  *)
(* of all deadlines before an event that was evaluated, and of those the   *)
(* loop has passed in the present call.                                    *)
(***************************************************************************)
OnTime(j) ==
    \E e \in evaluated :
        /\ e.at = DeadlineTime(j) /\ e.due = DueAt(j)
        /\ e.seen \in 0..Len(accepted)
        /\ \A i \in 1..e.seen : accepted[i] <= e.at

DeadlinesOnTime ==
    /\ \A i \in 1..Len(accepted) : \A j \in Nat :
          DeadlineTime(j) < accepted[i] => OnTime(j)
    /\ \A j \in Nat : j < Len(timed) => OnTime(j)

IInv ==
    /\ TypeOK
    /\ CallsRecorded
    /\ PanicsOnlyForCause
    /\ HasTimeDriven => LoopFollowsSchedule /\ DeadlinesOnTime

-----------------------------------------------------------------------------
LEMMA ConstantTypes == MaxTime \in Nat /\ NumDeadlines \in Nat
  BY MonitorAssumption, DeadlinesAssumption DEF NumDeadlines

LEMMA InitIInv == Init => IInv
<1> SUFFICES ASSUME Init PROVE IInv
  OBVIOUS
<1>1. TypeOK
  BY DEF Init, TypeOK, NoCall
<1>2. CallsRecorded /\ PanicsOnlyForCause
  BY DEF Init, CallsRecorded, PanicsOnlyForCause
<1>3. LoopFollowsSchedule
  <2>1. Len(timed) = 0 /\ call.ts = 0 /\ pc = "idle"
    BY DEF Init, NoCall
  <2>2. DeadlineTime(0) = 0
    BY DEF DeadlineTime
  <2>3. QED
    BY <2>1, <2>2 DEF LoopFollowsSchedule
<1>4. DeadlinesOnTime
  BY DEF Init, DeadlinesOnTime
<1>5. QED
  BY <1>1, <1>2, <1>3, <1>4 DEF IInv

(***************************************************************************)
(* What was evaluated on time stays so while events and deadlines are      *)
(* added.                                                                  *)
(***************************************************************************)
LEMMA OnTimeStays ==
    ASSUME TypeOK, NEW j \in Nat, OnTime(j), evaluated \subseteq evaluated',
           \/ accepted' = accepted
           \/ \E ts \in Nat : accepted' = Append(accepted, ts)
    PROVE  OnTime(j)'
<1>1. PICK e \in evaluated : /\ e.at = DeadlineTime(j) /\ e.due = DueAt(j)
                             /\ e.seen \in 0..Len(accepted)
                             /\ \A i \in 1..e.seen : accepted[i] <= e.at
  BY DEF OnTime
<1>2. /\ Len(accepted) \in Nat /\ Len(accepted) <= Len(accepted')
      /\ Len(accepted') \in Nat
      /\ \A i \in 1..Len(accepted) : accepted'[i] = accepted[i]
  <2>1. accepted \in Seq(Nat)
    BY DEF TypeOK
  <2>2. CASE accepted' = accepted
    BY <2>1, <2>2
  <2>3. ASSUME NEW ts \in Nat, accepted' = Append(accepted, ts)
        PROVE  <1>2!:
    BY <2>1, <2>3
  <2>4. QED
    BY <2>2, <2>3
<1>3. e.seen \in 0..Len(accepted') /\ \A i \in 1..e.seen : i \in 1..Len(accepted)
  BY <1>1, <1>2
<1>4. \A i \in 1..e.seen : accepted'[i] <= e.at
  BY <1>1, <1>2, <1>3
<1>5. QED
  BY <1>1, <1>3, <1>4 DEF OnTime

-----------------------------------------------------------------------------
LEMMA AcceptPreserves ==
    ASSUME IInv, NEW kind \in {"event", "time"}, NEW ts \in 0..MaxTime,
           Accept(kind, ts)
    PROVE  IInv'
<1>1. TypeOK /\ CallsRecorded
  BY DEF IInv
<1>2. /\ pc = "idle" /\ pc' = "time" /\ call' = [kind |-> kind, ts |-> ts]
      /\ nextDeadline' = 0 /\ dueIx' = NumDeadlines /\ timed' = <<>>
      /\ times' = Append(times, ts) /\ ts \in Nat
      /\ UNCHANGED <<lastCycleTime, accepted, evaluated>>
  BY ConstantTypes DEF Accept
<1>3. TypeOK'
  BY <1>1, <1>2 DEF TypeOK
<1>4. CallsRecorded'
  <2>0. times \in Seq(Nat)
    BY <1>1 DEF TypeOK
  <2>1. /\ Len(times') = Len(times) + 1 /\ times'[Len(times')] = ts /\ times' # <<>>
        /\ \A i \in 1..Len(times) : i \in 1..Len(times') /\ times'[i] = times[i]
    BY <1>2, <2>0
  <2>2. QED
    BY <1>1, <1>2, <2>1 DEF CallsRecorded
<1>5. PanicsOnlyForCause'
  BY <1>2 DEF PanicsOnlyForCause
<1>6. ASSUME HasTimeDriven PROVE LoopFollowsSchedule' /\ DeadlinesOnTime'
  <2>1. Len(timed') = 0
    BY <1>2
  <2>2. DeadlineTime(0) = 0 /\ PositionOf(0) = NumDeadlines
    BY DEF DeadlineTime, PositionOf
  <2>3. LoopFollowsSchedule'
    BY <1>2, <2>1, <2>2 DEF LoopFollowsSchedule
  <2>4. \A j \in Nat : OnTime(j)' <=> OnTime(j)
    BY <1>2 DEF OnTime
  <2>5. DeadlinesOnTime'
    BY <1>2, <1>6, <2>1, <2>4 DEF IInv, DeadlinesOnTime
  <2>6. QED
    BY <2>3, <2>5
<1>7. QED
  BY <1>3, <1>4, <1>5, <1>6 DEF IInv

(***************************************************************************)
(* The evaluator asserts that time does not run backwards.  Its last cycle *)
(* was at the time of an earlier call or of this one, so the assertion     *)
(* fails only if the times passed have decreased.                          *)
(***************************************************************************)
LEMMA PanicPreserves ==
    ASSUME IInv, pc = "time", ~Monotone(call.ts), Panic, UNCHANGED <<call, times>>
    PROVE  IInv'
<1>1. TypeOK /\ CallsRecorded
  BY DEF IInv
<1>2. /\ pc' = "panicked"
      /\ UNCHANGED <<call, times, lastCycleTime, accepted, evaluated, timed>>
  BY DEF Panic
<1>3. TypeOK' /\ CallsRecorded'
  BY <1>1, <1>2 DEF TypeOK, CallsRecorded
<1>4. PanicsOnlyForCause'
  <2>1. call.ts \in Nat /\ call.ts < lastCycleTime /\ times \in Seq(Nat)
    BY <1>1 DEF TypeOK, Monotone
  <2>2. times # <<>> /\ call.ts = times[Len(times)]
    BY <1>1 DEF CallsRecorded
  <2>3. PICK i \in 1..Len(times) : lastCycleTime = times[i]
    BY <1>1, <2>1 DEF CallsRecorded
  <2>4. Len(times) \in 1..Len(times) /\ DOMAIN times = 1..Len(times)
    BY <2>1, <2>2
  <2>5. i < Len(times) /\ ~(times[i] <= times[Len(times)])
    BY <2>1, <2>2, <2>3
  <2>6. ~NonDecreasing(times)
    BY <2>4, <2>5 DEF NonDecreasing
  <2>7. QED
    BY <1>2, <2>6 DEF PanicsOnlyForCause, NonDecreasing
<1>5. ASSUME HasTimeDriven PROVE LoopFollowsSchedule' /\ DeadlinesOnTime'
  <2>1. \A j \in Nat : OnTime(j)' <=> OnTime(j)
    BY <1>2 DEF OnTime
  <2>2. QED
    BY <1>2, <1>5, <2>1 DEF IInv, LoopFollowsSchedule, DeadlinesOnTime
<1>6. QED
  BY <1>3, <1>4, <1>5 DEF IInv

(***************************************************************************)
(* One iteration of the loop.  If an event behind the deadline has been    *)
(* evaluated, an earlier call has evaluated the deadline on time; if not,  *)
(* this iteration does.                                                    *)
(***************************************************************************)
LEMMA DeadlinePreserves ==
    ASSUME IInv, Deadline
    PROVE  IInv'
<1>1. TypeOK /\ CallsRecorded /\ HasTimeDriven /\ LoopFollowsSchedule
      /\ DeadlinesOnTime /\ pc = "time" /\ UNCHANGED <<call, times>>
  BY DEF IInv, Deadline
<1>2. CASE ~Monotone(CycleTime) /\ Panic
  BY <1>1, <1>2, PanicPreserves DEF CycleTime
<1>3. CASE Monotone(CycleTime) /\ ~Panic
  <2>0. PICK n \in Nat : n = Len(timed)
    BY <1>1 DEF TypeOK
  <2> DEFINE record == [at |-> nextDeadline, due |-> DueStreams[dueIx],
                        seen |-> Len(accepted)]
             entry == [at |-> nextDeadline, values |-> {}]
  <2>1. /\ UNCHANGED <<call, times, accepted>> /\ pc = "time"
        /\ pc' = IF Pause(NextInCycle(dueIx)) > 0 THEN "time" ELSE "panicked"
        /\ lastCycleTime' = call.ts /\ call.ts > nextDeadline
        /\ evaluated' = evaluated \cup {record}
        /\ timed' = Append(timed, entry)
        /\ dueIx' = NextInCycle(dueIx)
        /\ nextDeadline' = nextDeadline + Pause(NextInCycle(dueIx))
    BY <1>1, <1>3 DEF Deadline, CycleTime, FreshAfterDeadline, NextPause
  <2>2. /\ n = Len(timed) /\ timed \in Seq(Entries) /\ accepted \in Seq(Nat)
        /\ Len(accepted) \in Nat /\ call.ts \in Nat
    BY <1>1, <2>0 DEF TypeOK
  <2>3. /\ nextDeadline = DeadlineTime(n) /\ dueIx = PositionOf(n)
        /\ DeadlineTime(n) \in Nat
    BY <1>1, <2>2, DeadlineTypes DEF LoopFollowsSchedule
  <2>4. entry \in Entries
    BY <2>3 DEF Entries
  <2>5. /\ timed' \in Seq(Entries) /\ Len(timed') = n + 1
        /\ timed'[n + 1] = entry /\ \A i \in 1..n : timed'[i] = timed[i]
    BY <2>1, <2>2, <2>4
  <2>6. TypeOK'
    BY <1>1, <2>1, <2>2, <2>5 DEF TypeOK
  <2>7. CallsRecorded'
    <3>1. times # <<>> /\ call.ts = times[Len(times)] /\ times \in Seq(Nat)
      BY <1>1 DEF CallsRecorded, TypeOK
    <3>2. Len(times) \in 1..Len(times)
      BY <3>1
    <3>3. QED
      BY <2>1, <3>1, <3>2 DEF CallsRecorded
  <2>8. PanicsOnlyForCause'
    <3>1. SUFFICES ASSUME pc' = "panicked" PROVE MetZeroPause'
      BY DEF PanicsOnlyForCause
    <3>2. dueIx \in 1..NumDeadlines
      BY <1>1, <2>2, <2>3, DeadlineTypes
    <3>3. NextInCycle(dueIx) \in 1..NumDeadlines
      BY <1>1, <3>2, PausesNatural
    <3>4. Pause(NextInCycle(dueIx)) \in Nat
      BY <1>1, <3>3, PausesNatural
    <3>5. ~(Pause(NextInCycle(dueIx)) > 0)
      BY <2>1, <3>1
    <3>6. Pause(dueIx') = 0
      BY <2>1, <3>4, <3>5
    <3>7. Len(timed') > 0
      BY <2>2, <2>5
    <3>8. QED
      BY <1>1, <3>6, <3>7 DEF MetZeroPause
  <2>9. LoopFollowsSchedule'
    <3>1. /\ PositionOf(n + 1) = NextInCycle(PositionOf(n))
          /\ DeadlineTime(n + 1) = DeadlineTime(n) + Pause(PositionOf(n + 1))
      BY <1>1, <2>2, CycleFollowsSchedule
    <3>2. nextDeadline' = DeadlineTime(n + 1) /\ dueIx' = PositionOf(n + 1)
      BY <2>1, <2>3, <3>1
    <3>3. ASSUME NEW i \in 1..n + 1 PROVE timed'[i].at = DeadlineTime(i - 1)
      <4>1. CASE i = n + 1
        BY <2>2, <2>3, <2>5, <4>1
      <4>2. CASE i # n + 1
        <5>1. i \in 1..n /\ i \in 1..Len(timed)
          BY <2>2, <4>2
        <5>2. timed[i].at = DeadlineTime(i - 1)
          BY <1>1, <5>1 DEF LoopFollowsSchedule
        <5>3. QED
          BY <2>5, <5>1, <5>2
      <4>3. QED
        BY <4>1, <4>2
    <3>4. DeadlineTime((n + 1) - 1) < call.ts
      BY <2>1, <2>2, <2>3
    <3>5. QED
      BY <2>1, <2>5, <3>2, <3>3, <3>4 DEF LoopFollowsSchedule
  <2>10. ASSUME NEW j \in Nat, OnTime(j) PROVE OnTime(j)'
    BY <1>1, <2>1, <2>10, OnTimeStays
  <2>11. OnTime(n)'
    <3>1. CASE \E i \in 1..Len(accepted) : DeadlineTime(n) < accepted[i]
      <4>1. OnTime(n)
        BY <1>1, <3>1 DEF DeadlinesOnTime
      <4>2. QED
        BY <2>10, <4>1
    <3>2. CASE \A i \in 1..Len(accepted) : ~(DeadlineTime(n) < accepted[i])
      <4>1. \A i \in 1..Len(accepted) : accepted[i] <= DeadlineTime(n)
        BY <2>2, <2>3, <3>2
      <4>2. /\ record \in evaluated' /\ record.at = DeadlineTime(n)
            /\ record.due = DueAt(n) /\ record.seen = Len(accepted)
        BY <2>1, <2>3 DEF DueAt
      <4>3. record.seen \in 0..Len(accepted')
        BY <2>1, <2>2, <4>2
      <4>4. \A i \in 1..record.seen : accepted'[i] <= record.at
        BY <2>1, <4>1, <4>2
      <4> HIDE DEF record
      <4>5. QED
        BY <4>2, <4>3, <4>4 DEF OnTime
    <3>3. QED
      BY <3>1, <3>2
  <2>12. DeadlinesOnTime'
    <3>1. ASSUME NEW i \in 1..Len(accepted'), NEW j \in Nat,
                 DeadlineTime(j) < accepted'[i]
          PROVE  OnTime(j)'
      BY <1>1, <2>1, <2>10, <3>1 DEF DeadlinesOnTime
    <3>2. ASSUME NEW j \in Nat, j < Len(timed') PROVE OnTime(j)'
      <4>1. j = n \/ j < n
        BY <2>2, <2>5, <3>2
      <4>2. CASE j = n
        BY <2>11, <4>2
      <4>3. CASE j < n
        <5>1. OnTime(j)
          BY <1>1, <2>2, <4>3 DEF DeadlinesOnTime
        <5>2. QED
          BY <2>10, <5>1
      <4>4. QED
        BY <4>1, <4>2, <4>3
    <3>3. QED
      BY <3>1, <3>2 DEF DeadlinesOnTime
  <2>13. QED
    BY <2>6, <2>7, <2>8, <2>9, <2>12 DEF IInv
<1>4. QED
  BY <1>2, <1>3 DEF Deadline, Panic

-----------------------------------------------------------------------------
(***************************************************************************)
(* When the loop is left the next deadline is not before the time of the   *)
(* call: those before it are the ones the loop has passed.                 *)
(***************************************************************************)
LEMMA CaughtUp ==
    ASSUME IInv, Caught, HasTimeDriven
    PROVE  /\ DeadlineTime(Len(timed)) >= call.ts
           /\ \A j \in Nat : DeadlineTime(j) < call.ts => j < Len(timed)
<1>1. /\ LoopFollowsSchedule /\ pc = "time" /\ Len(timed) \in Nat /\ call.ts \in Nat
      /\ ~(call.ts > nextDeadline)
  BY DEF IInv, TypeOK, Caught
<1>2. nextDeadline = DeadlineTime(Len(timed)) /\ nextDeadline \in Nat
  BY <1>1, DeadlineTypes DEF LoopFollowsSchedule
<1>3. DeadlineTime(Len(timed)) >= call.ts
  BY <1>1, <1>2
<1>4. ASSUME NEW j \in Nat, DeadlineTime(j) < call.ts PROVE j < Len(timed)
  <2>1. DeadlineTime(j) \in Nat
    BY DeadlineTypes
  <2>2. j # Len(timed)
    BY <1>1, <1>2, <1>3, <1>4, <2>1
  <2>3. ~(Len(timed) < j)
    <3>1. SUFFICES ASSUME Len(timed) < j PROVE FALSE
      OBVIOUS
    <3>2. DeadlineTime(Len(timed)) <= DeadlineTime(j)
      BY <1>1, <3>1, DeadlinesOrdered
    <3>3. QED
      BY <1>1, <1>2, <1>3, <1>4, <2>1, <3>2
  <2>4. QED
    BY <1>1, <2>2, <2>3
<1>5. QED
  BY <1>3, <1>4

LEMMA ReturnTimePreserves ==
    ASSUME IInv, ReturnTime
    PROVE  IInv'
<1>1. TypeOK /\ CallsRecorded /\ Caught
  BY DEF IInv, ReturnTime
<1>2. /\ pc' = "idle"
      /\ UNCHANGED <<call, nextDeadline, dueIx, timed, times, lastCycleTime, accepted, evaluated>>
  BY DEF ReturnTime
<1>3. pc = "time"
  BY <1>1 DEF Caught
<1>4. TypeOK' /\ CallsRecorded' /\ PanicsOnlyForCause'
  BY <1>1, <1>2, <1>3 DEF TypeOK, CallsRecorded, PanicsOnlyForCause
<1>5. ASSUME HasTimeDriven PROVE LoopFollowsSchedule' /\ DeadlinesOnTime'
  <2>1. \A j \in Nat : OnTime(j)' <=> OnTime(j)
    BY <1>2 DEF OnTime
  <2>2. DeadlinesOnTime'
    BY <1>2, <1>5, <2>1 DEF IInv, DeadlinesOnTime
  <2>3. LoopFollowsSchedule'
    BY <1>1, <1>2, <1>5, CaughtUp DEF IInv, LoopFollowsSchedule
  <2>4. QED
    BY <2>2, <2>3
<1>6. QED
  BY <1>4, <1>5 DEF IInv

LEMMA EvaluateEventPreserves ==
    ASSUME IInv, EvaluateEvent
    PROVE  IInv'
<1>1. TypeOK /\ CallsRecorded /\ Caught /\ pc = "time" /\ UNCHANGED <<call, times>>
  BY DEF IInv, EvaluateEvent, Caught
<1>2. CASE ~Monotone(call.ts) /\ Panic
  BY <1>1, <1>2, PanicPreserves
<1>3. CASE Monotone(call.ts) /\ ~Panic
  <2>1. /\ UNCHANGED <<call, times, nextDeadline, dueIx, timed, evaluated>>
        /\ lastCycleTime' = call.ts /\ pc' = "idle"
        /\ accepted' = Append(accepted, call.ts)
    BY <1>1, <1>3 DEF EvaluateEvent
  <2>2. accepted \in Seq(Nat) /\ call.ts \in Nat /\ Len(accepted) \in Nat
    BY <1>1 DEF TypeOK
  <2>3. /\ accepted' \in Seq(Nat) /\ Len(accepted') = Len(accepted) + 1
        /\ accepted'[Len(accepted) + 1] = call.ts
        /\ \A i \in 1..Len(accepted) : accepted'[i] = accepted[i]
    BY <2>1, <2>2
  <2>4. TypeOK' /\ PanicsOnlyForCause'
    BY <1>1, <2>1, <2>2, <2>3 DEF TypeOK, PanicsOnlyForCause
  <2>5. CallsRecorded'
    <3>1. times # <<>> /\ call.ts = times[Len(times)] /\ times \in Seq(Nat)
      BY <1>1 DEF CallsRecorded, TypeOK
    <3>2. Len(times) \in 1..Len(times)
      BY <3>1
    <3>3. QED
      BY <2>1, <3>1, <3>2 DEF CallsRecorded
  <2>6. ASSUME HasTimeDriven PROVE LoopFollowsSchedule' /\ DeadlinesOnTime'
    <3>1. ASSUME NEW j \in Nat, OnTime(j) PROVE OnTime(j)'
      BY <1>1, <2>1, <2>2, <3>1, OnTimeStays
    <3>2. LoopFollowsSchedule'
      BY <1>1, <2>1, <2>6, CaughtUp DEF IInv, LoopFollowsSchedule
    <3>3. ASSUME NEW i \in 1..Len(accepted'), NEW j \in Nat,
                 DeadlineTime(j) < accepted'[i]
          PROVE  OnTime(j)'
      <4>1. CASE i \in 1..Len(accepted)
        BY <2>3, <2>6, <3>1, <3>3, <4>1 DEF IInv, DeadlinesOnTime
      <4>2. CASE i = Len(accepted) + 1
        <5>1. DeadlineTime(j) < call.ts
          BY <2>3, <3>3, <4>2
        <5>2. j < Len(timed)
          BY <1>1, <2>6, <5>1, CaughtUp
        <5>3. QED
          BY <2>6, <3>1, <5>2 DEF IInv, DeadlinesOnTime
      <4>3. QED
        BY <2>2, <2>3, <4>1, <4>2
    <3>4. ASSUME NEW j \in Nat, j < Len(timed') PROVE OnTime(j)'
      BY <2>1, <2>6, <3>1, <3>4 DEF IInv, DeadlinesOnTime
    <3>5. QED
      BY <3>2, <3>3, <3>4 DEF DeadlinesOnTime
  <2>7. QED
    BY <2>4, <2>5, <2>6 DEF IInv
<1>4. QED
  BY <1>2, <1>3 DEF EvaluateEvent, Panic

LEMMA NextPreserves ==
    ASSUME IInv, [Next]_vars
    PROVE  IInv'
<1>1. CASE AcceptEvent
  BY <1>1, AcceptPreserves DEF AcceptEvent
<1>2. CASE AcceptTime
  BY <1>2, AcceptPreserves DEF AcceptTime
<1>3. CASE Deadline \/ ReturnTime \/ EvaluateEvent
  BY <1>3, DeadlinePreserves, ReturnTimePreserves, EvaluateEventPreserves
<1>4. CASE UNCHANGED vars
  <2>1. \A j \in Nat : OnTime(j)' <=> OnTime(j)
    BY <1>4 DEF vars, OnTime
  <2>2. TypeOK' /\ CallsRecorded' /\ PanicsOnlyForCause'
    BY <1>4 DEF IInv, vars, TypeOK, CallsRecorded, PanicsOnlyForCause, MetZeroPause
  <2>3. ASSUME HasTimeDriven PROVE LoopFollowsSchedule' /\ DeadlinesOnTime'
    BY <1>4, <2>1, <2>3 DEF IInv, vars, LoopFollowsSchedule, DeadlinesOnTime
  <2>4. QED
    BY <2>2, <2>3 DEF IInv
<1>5. QED
  BY <1>1, <1>2, <1>3, <1>4 DEF Next

(***************************************************************************)
(* The inductive invariant holds always.                                   *)
(***************************************************************************)
THEOREM Invariant == Spec => []IInv
<1>1. IInv /\ [Next]_vars => IInv'
  BY NextPreserves
<1>2. QED
  BY <1>1, InitIInv, PTL DEF Spec

(***************************************************************************)
(* A call panics for one of two causes: the caller's times have decreased, *)
(* which the evaluator asserts away, or the loop has come to a pause of    *)
(* zero, which accept_time asserts away.  On a schedule without such a     *)
(* pause, callers whose times never decrease never panic.                  *)
(***************************************************************************)
THEOREM CallersPanicForCause == Spec => []PanicsOnlyForCause
<1>1. IInv => PanicsOnlyForCause
  BY DEF IInv
<1>2. QED
  BY <1>1, Invariant, PTL

(***************************************************************************)
(* What a call returns is one entry for each deadline before its time.     *)
(***************************************************************************)
THEOREM CallsReturnTheDeadlines == Spec => []ReturnsTheDeadlines
<1>1. ASSUME IInv PROVE ReturnsTheDeadlines
  <2>1. SUFFICES ASSUME pc = "idle", HasTimeDriven PROVE ReturnedFrom(0)
    <3>1. 0 \in 0..MaxTime
      BY ConstantTypes
    <3>2. QED
      BY <3>1 DEF ReturnsTheDeadlines
  <2>2. LoopFollowsSchedule /\ Len(timed) \in Nat /\ call.ts \in Nat
    BY <1>1, <2>1 DEF IInv, TypeOK
  <2>3. \A i \in 1..Len(timed) : timed[i].at = DeadlineTime(0 + i - 1)
    BY <2>2 DEF LoopFollowsSchedule
  <2>4. Len(timed) > 0 => DeadlineTime(0 + Len(timed) - 1) <= call.ts
    <3>1. SUFFICES ASSUME Len(timed) > 0
                   PROVE  DeadlineTime(0 + Len(timed) - 1) <= call.ts
      OBVIOUS
    <3>2. Len(timed) - 1 \in Nat /\ 0 + Len(timed) - 1 = Len(timed) - 1
      BY <2>2, <3>1
    <3>3. DeadlineTime(Len(timed) - 1) \in Nat
      BY <2>1, <3>2, DeadlineTypes
    <3>4. DeadlineTime(Len(timed) - 1) < call.ts
      BY <2>2, <3>1 DEF LoopFollowsSchedule
    <3>5. QED
      BY <2>2, <3>2, <3>3, <3>4
  <2>5. DeadlineTime(0 + Len(timed)) >= call.ts
    BY <2>1, <2>2 DEF LoopFollowsSchedule
  <2>6. QED
    BY <2>3, <2>4, <2>5 DEF ReturnedFrom
<1>2. QED
  BY <1>1, Invariant, PTL

(***************************************************************************)
(* Whatever the caller does, every deadline before the time reached was    *)
(* evaluated before any event that lies behind it.                         *)
(***************************************************************************)
THEOREM NoDeadlineIsLate == Spec => []NoDeadlineLate
<1>1. ASSUME IInv PROVE NoDeadlineLate
  <2>1. SUFFICES ASSUME pc = "idle", HasTimeDriven, NEW j \in 0..MaxTime,
                        DeadlineTime(j) < call.ts
                 PROVE  \E e \in evaluated :
                           /\ e.at = DeadlineTime(j) /\ e.due = DueAt(j)
                           /\ e.seen <= Cardinality(EventsUntil(e.at))
    BY DEF NoDeadlineLate
  <2>2. /\ j \in Nat /\ Len(timed) \in Nat /\ accepted \in Seq(Nat) /\ call.ts \in Nat
        /\ LoopFollowsSchedule /\ DeadlinesOnTime
    BY <1>1, <2>1, ConstantTypes DEF IInv, TypeOK
  <2>3. DeadlineTime(j) \in Nat /\ DeadlineTime(Len(timed)) \in Nat
    BY <2>1, <2>2, DeadlineTypes
  <2>4. DeadlineTime(j) < DeadlineTime(Len(timed))
    BY <2>1, <2>2, <2>3 DEF LoopFollowsSchedule
  <2>5. ~(Len(timed) < j) /\ Len(timed) # j
    <3>1. ASSUME Len(timed) < j PROVE FALSE
      <4>1. DeadlineTime(Len(timed)) <= DeadlineTime(j)
        BY <2>1, <2>2, <3>1, DeadlinesOrdered
      <4>2. QED
        BY <2>3, <2>4, <4>1
    <3>2. QED
      BY <2>3, <2>4, <3>1
  <2>6. OnTime(j)
    BY <2>2, <2>5 DEF DeadlinesOnTime
  <2>7. PICK e \in evaluated : /\ e.at = DeadlineTime(j) /\ e.due = DueAt(j)
                               /\ e.seen \in 0..Len(accepted)
                               /\ \A i \in 1..e.seen : accepted[i] <= e.at
    BY <2>6 DEF OnTime
  <2>8. 1..e.seen \in SUBSET EventsUntil(e.at) /\ EventsUntil(e.at) \in SUBSET (1..Len(accepted))
    BY <2>2, <2>7 DEF EventsUntil
  <2>9. IsFiniteSet(EventsUntil(e.at))
    <3>1. IsFiniteSet(1..Len(accepted))
      BY <2>2, FS_Interval
    <3>2. QED
      BY <2>8, <3>1, FS_Subset
  <2>10. e.seen \in Nat /\ Cardinality(1..e.seen) = e.seen
    <3>1. e.seen \in Nat
      BY <2>2, <2>7
    <3>2. \A m \in Nat : Cardinality(1..m) = IF 1 > m THEN 0 ELSE m - 1 + 1
      BY FS_Interval
    <3>3. \A m \in Nat : Cardinality(1..m) = m
      BY <3>2
    <3>4. QED
      BY <3>1, <3>3
  <2>11. e.seen <= Cardinality(EventsUntil(e.at))
    BY <2>8, <2>9, <2>10, FS_Subset
  <2>12. QED
    BY <2>7, <2>11
<1>2. QED
  BY <1>1, Invariant, PTL
=============================================================================

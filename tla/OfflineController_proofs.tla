----------------------- MODULE OfflineController_proofs -----------------------
(***************************************************************************)
(* Proofs about OfflineController, for every schedule, set of inputs and   *)
(* capacity of the queues.                                                 *)
(***************************************************************************)
EXTENDS OfflineController, Deadlines_proofs

LEMMA InputType ==
    ASSUME TypeOK
    PROVE  /\ input \in Seq(Nat) /\ Len(input) \in Nat
           /\ \A k \in 1..Len(input) : input[k] \in Nat
           /\ Items = 1..End /\ End = Len(input) + 1
<1>1. input \in Seq(Nat)
  BY InputsAssumption DEF TypeOK
<1>2. QED
  BY <1>1 DEF Items, End

LEMMA ItemsInFacts ==
    /\ ItemsIn(0) = 0
    /\ \A n \in Nat : /\ ItemsIn(n) \in Nat
                      /\ ItemsIn(n + 1) = ItemsIn(n) + CapLocal
<1>1. CapLocal \in Nat
  BY CapacityAssumption
<1>2. QED
  BY <1>1 DEF ItemsIn

LEMMA ItemsInMonotone ==
    ASSUME NEW m \in Nat, NEW n \in Nat, m <= n
    PROVE  ItemsIn(m) <= ItemsIn(n)
<1>1. CapLocal \in Nat
  BY CapacityAssumption
<1>2. QED
  BY <1>1 DEF ItemsIn

(***************************************************************************)
(* What is in the channel when all its queues are full.                    *)
(***************************************************************************)
LEMMA InChannelType ==
    ASSUME TypeOK
    PROVE  InChannel \in Nat
<1>1. CASE work = <<>>
  BY <1>1 DEF InChannel
<1>2. CASE work # <<>>
  <2>1. Len(work) - 1 \in Nat /\ work[Len(work)] \in Seq(Items)
    BY <1>2 DEF TypeOK
  <2>2. Len(work[Len(work)]) \in Nat
    BY <2>1
  <2>3. ItemsIn(Len(work) - 1) \in Nat
    BY <2>1, ItemsInFacts
  <2>4. QED
    BY <1>2, <2>2, <2>3 DEF InChannel
<1>3. QED
  BY <1>1, <1>2

LEMMA InChannelFull ==
    ASSUME TypeOK, InOrder, edm # "stopped"
    PROVE  InChannel = ItemsIn(Len(work))
<1>1. CASE work = <<>>
  BY <1>1, ItemsInFacts DEF InChannel
<1>2. CASE work # <<>>
  <2>1. Len(work) - 1 \in Nat /\ Len(work) \in 1..Len(work)
    BY <1>2 DEF TypeOK
  <2>2. Len(work[Len(work)]) = CapLocal
    BY <2>1 DEF InOrder
  <2>3. ItemsIn((Len(work) - 1) + 1) = ItemsIn(Len(work) - 1) + CapLocal
    BY <2>1, ItemsInFacts
  <2>4. (Len(work) - 1) + 1 = Len(work)
    BY <2>1
  <2>5. QED
    BY <1>2, <2>2, <2>3, <2>4 DEF InChannel
<1>3. QED
  BY <1>1, <1>2

-----------------------------------------------------------------------------
LEMMA InitIInv == Init => IInv
<1> SUFFICES ASSUME Init PROVE IInv
  OBVIOUS
<1>1. input \in Seq(Nat)
  BY InputsAssumption DEF Init
<1>2. NumDeadlines \in Nat
  BY DeadlinesAssumption DEF NumDeadlines
<1>3. TypeOK
  BY <1>1, <1>2, CapacityAssumption DEF Init, TypeOK
<1>4. Started /\ Phases /\ PanicsOnlyForCause
  BY DEF Init, Started, Phases, PanicsOnlyForCause, SenderAlive
<1>5. Clock
  <2>1. \A k \in 1..Len(input) : input[k] \in Nat
    BY <1>1
  <2>2. HasTimeDriven => PositionOf(0) = NumDeadlines /\ DeadlineTime(0) = 0
    BY DEF PositionOf, DeadlineTime
  <2>3. QED
    BY <1>1, <2>1, <2>2 DEF Init, Clock
<1>6. InOrder /\ Accounted
  BY <1>1, CapacityAssumption
  DEF Init, InOrder, Accounted, InFlight, InChannel, Numbered
<1>7. QED
  BY <1>3, <1>4, <1>5, <1>6 DEF IInv

-----------------------------------------------------------------------------
(* The EDM.                                                                *)

LEMMA ReadEventPreserves ==
    ASSUME IInv, ReadEvent
    PROVE  IInv'
<1>1. TypeOK /\ Started /\ Clock /\ Phases /\ PanicsOnlyForCause
  BY DEF IInv
<1>2. /\ input' = input /\ edm = "fill" /\ edm' = "fill"
      /\ work' = work /\ ctl' = ctl /\ batch' = batch /\ events' = events
      /\ read \in Nat /\ read < Len(input) /\ read' = read + 1
      /\ localQueue' = Append(localQueue, read + 1)
      /\ Len(localQueue) < CapLocal
      /\ timeSlot' = IF timeSlot = "open" THEN "sent" ELSE timeSlot
  BY <1>1 DEF ReadEvent, ctlVars, evalVars, TypeOK
<1>3. Len(input) \in Nat /\ read + 1 \in Items /\ Items' = Items
  BY <1>1, <1>2, InputType DEF Items
<1>4. /\ localQueue \in Seq(Items)
      /\ localQueue' \in Seq(Items)
      /\ Len(localQueue') = Len(localQueue) + 1
      /\ \A j \in 1..Len(localQueue) : localQueue'[j] = localQueue[j]
      /\ localQueue'[Len(localQueue) + 1] = read + 1
  BY <1>1, <1>2, <1>3 DEF TypeOK
<1>5. TypeOK'
  <2>1. Len(localQueue') <= CapLocal
    BY <1>2, <1>4, CapacityAssumption
  <2>2. timeSlot' \in {"open", "sent", "taken", "closed"}
    BY <1>1, <1>2 DEF TypeOK
  <2>3. read' \in 0..Len(input')
    BY <1>2, <1>3
  <2>4. QED
    BY <1>1, <1>2, <1>3, <1>4, <2>1, <2>2, <2>3
    DEF TypeOK, ReadEvent, ctlVars, evalVars
<1>6. Started'
  BY <1>1, <1>2 DEF Started, SenderAlive
<1>7. Clock'
  BY <1>1 DEF Clock, ReadEvent, ctlVars, evalVars
<1>8. Phases' /\ PanicsOnlyForCause'
  BY <1>1, <1>2 DEF Phases, PanicsOnlyForCause, MetZeroPause, ReadEvent, ctlVars, evalVars
<1>9. ASSUME Receiving' PROVE InOrder' /\ Accounted'
  <2>1. InOrder /\ Accounted
    BY <1>2, <1>9 DEF IInv, Receiving
  <2>2. InChannel' = InChannel /\ InChannel \in Nat
    BY <1>1, <1>2, InChannelType DEF InChannel
  <2>3. Len(batch) \in Nat /\ events \in Nat /\ Len(localQueue) \in Nat
    BY <1>1 DEF TypeOK
  <2>4. read = events + Len(batch) + InChannel + Len(localQueue)
    BY <1>2, <2>1, <2>2, <2>3 DEF Accounted, InFlight
  <2>5. Accounted'
    BY <1>2, <1>4, <2>2, <2>3, <2>4 DEF Accounted, InFlight
  <2>6. Numbered(localQueue, events + Len(batch) + InChannel)'
    <3>1. ASSUME NEW j \in 1..Len(localQueue')
          PROVE  localQueue'[j] = events + Len(batch) + InChannel + j
      <4>1. CASE j = Len(localQueue) + 1
        BY <1>4, <2>2, <2>3, <2>4, <4>1
      <4>2. CASE j # Len(localQueue) + 1
        <5>1. j \in 1..Len(localQueue)
          BY <1>4, <2>3, <4>2
        <5>2. localQueue[j] = events + Len(batch) + InChannel + j
          BY <2>1, <5>1 DEF InOrder, Numbered
        <5>3. QED
          BY <1>4, <5>1, <5>2
      <4>3. QED
        BY <4>1, <4>2
    <3>2. QED
      BY <1>2, <2>2, <3>1 DEF Numbered
  <2>7. InOrder'
    BY <1>2, <2>1, <2>6 DEF InOrder, Numbered
  <2>8. QED
    BY <2>5, <2>7
<1>10. QED
  BY <1>5, <1>6, <1>7, <1>8, <1>9 DEF IInv

LEMMA ReadEndPreserves ==
    ASSUME IInv, ReadEnd
    PROVE  IInv'
<1>1. TypeOK /\ Started /\ Clock /\ Phases /\ PanicsOnlyForCause
  BY DEF IInv
<1>2. /\ input' = input /\ edm = "fill" /\ edm' = "sendEnd"
      /\ work' = work /\ ctl' = ctl /\ batch' = batch /\ events' = events
      /\ read = Len(input) /\ read' = read
      /\ localQueue' = Append(localQueue, End)
      /\ Len(localQueue) < CapLocal
      /\ timeSlot' = timeSlot
  BY <1>1 DEF ReadEnd, ctlVars, evalVars, TypeOK
<1>3. Len(input) \in Nat /\ End = Len(input) + 1 /\ End \in Items /\ Items' = Items
  BY <1>1, <1>2, InputType DEF Items
<1>4. /\ localQueue \in Seq(Items)
      /\ localQueue' \in Seq(Items)
      /\ Len(localQueue') = Len(localQueue) + 1
      /\ localQueue' # <<>>
      /\ \A j \in 1..Len(localQueue) : localQueue'[j] = localQueue[j]
      /\ localQueue'[Len(localQueue) + 1] = End
  BY <1>1, <1>2, <1>3 DEF TypeOK
<1>5. TypeOK'
  <2>1. Len(localQueue') <= CapLocal
    BY <1>2, <1>4, CapacityAssumption
  <2>2. QED
    BY <1>1, <1>2, <1>3, <1>4, <2>1
    DEF TypeOK, ReadEnd, ctlVars, evalVars
<1>6. Started'
  BY <1>1, <1>2, <1>4 DEF Started, SenderAlive
<1>7. Clock'
  BY <1>1 DEF Clock, ReadEnd, ctlVars, evalVars
<1>8. Phases' /\ PanicsOnlyForCause'
  BY <1>1, <1>2 DEF Phases, PanicsOnlyForCause, MetZeroPause, ReadEnd, ctlVars, evalVars
<1>9. ASSUME Receiving' PROVE InOrder' /\ Accounted'
  <2>1. InOrder /\ Accounted
    BY <1>2, <1>9 DEF IInv, Receiving
  <2>2. InChannel' = InChannel /\ InChannel \in Nat
    BY <1>1, <1>2, InChannelType DEF InChannel
  <2>3. Len(batch) \in Nat /\ events \in Nat /\ Len(localQueue) \in Nat
    BY <1>1 DEF TypeOK
  <2>4. Len(input) = events + Len(batch) + InChannel + Len(localQueue)
    BY <1>2, <2>1, <2>2, <2>3 DEF Accounted, InFlight
  <2>5. Accounted'
    BY <1>2, <1>4, <2>2, <2>3, <2>4 DEF Accounted, InFlight
  <2>6. Numbered(localQueue, events + Len(batch) + InChannel)'
    <3>1. ASSUME NEW j \in 1..Len(localQueue')
          PROVE  localQueue'[j] = events + Len(batch) + InChannel + j
      <4>1. CASE j = Len(localQueue) + 1
        BY <1>3, <1>4, <2>2, <2>3, <2>4, <4>1
      <4>2. CASE j # Len(localQueue) + 1
        <5>1. j \in 1..Len(localQueue)
          BY <1>4, <2>3, <4>2
        <5>2. localQueue[j] = events + Len(batch) + InChannel + j
          BY <2>1, <5>1 DEF InOrder, Numbered
        <5>3. QED
          BY <1>4, <5>1, <5>2
      <4>3. QED
        BY <4>1, <4>2
    <3>2. QED
      BY <1>2, <2>2, <3>1 DEF Numbered
  <2>7. InOrder'
    BY <1>2, <2>1, <2>6 DEF InOrder, Numbered
  <2>8. QED
    BY <2>5, <2>7
<1>10. QED
  BY <1>5, <1>6, <1>7, <1>8, <1>9 DEF IInv

LEMMA SendLocalQueuePreserves ==
    ASSUME IInv, SendLocalQueue
    PROVE  IInv'
<1>1. TypeOK /\ Started /\ Clock /\ Phases /\ PanicsOnlyForCause
  BY DEF IInv
<1>2. /\ input' = input /\ read' = read
      /\ ctl' = ctl /\ batch' = batch /\ events' = events
      /\ localQueue' = <<>>
      /\ edm = "sendEnd" \/ (edm = "fill" /\ Len(localQueue) = CapLocal)
      /\ edm' = IF edm = "sendEnd" THEN "stopped" ELSE edm
      /\ timeSlot' = IF edm = "sendEnd" /\ timeSlot = "open"
                     THEN "closed" ELSE timeSlot
      /\ work' = IF ReceiverAlive THEN Append(work, localQueue) ELSE work
      /\ ReceiverAlive => Len(work) < CapWork
  BY DEF SendLocalQueue, ctlVars, evalVars
<1>3. /\ Items' = Items /\ Len(input) \in Nat
      /\ localQueue \in Seq(Items) /\ Len(localQueue) <= CapLocal
      /\ work \in Seq(Seq(Items)) /\ Len(work) <= CapWork
  BY <1>1, <1>2, InputType DEF Items, TypeOK
<1>4. TypeOK'
  <2>1. work' \in Seq(Seq(Items)) /\ Len(work') <= CapWork
    <3>1. CASE ReceiverAlive
      <4>1. work' = Append(work, localQueue)
        BY <1>2, <3>1
      <4>2. Len(Append(work, localQueue)) = Len(work) + 1 /\ Len(work) \in Nat
        BY <1>3
      <4>3. QED
        BY <1>2, <1>3, <3>1, <4>1, <4>2, CapacityAssumption
    <3>2. CASE ~ReceiverAlive
      BY <1>2, <1>3, <3>2
    <3>3. QED
      BY <3>1, <3>2
  <2>2. localQueue' \in Seq(Items) /\ Len(localQueue') <= CapLocal
    BY <1>2, CapacityAssumption
  <2>3. /\ timeSlot' \in {"open", "sent", "taken", "closed"}
        /\ edm' \in {"fill", "sendEnd", "stopped", "dead"}
    BY <1>1, <1>2 DEF TypeOK
  <2>4. QED
    BY <1>1, <1>2, <1>3, <2>1, <2>2, <2>3
    DEF TypeOK, SendLocalQueue, ctlVars, evalVars
<1>5. Started'
  BY <1>1, <1>2 DEF Started, SenderAlive
<1>6. Clock'
  BY <1>1 DEF Clock, SendLocalQueue, ctlVars, evalVars
<1>7. Phases' /\ PanicsOnlyForCause'
  BY <1>1, <1>2 DEF Phases, PanicsOnlyForCause, MetZeroPause, SendLocalQueue, ctlVars, evalVars
<1>8. ASSUME Receiving' PROVE InOrder' /\ Accounted'
  <2>1. InOrder /\ Accounted /\ ReceiverAlive
    BY <1>2, <1>8 DEF IInv, Receiving, ReceiverAlive
  <2>2. InChannel = ItemsIn(Len(work)) /\ InChannel \in Nat
    BY <1>1, <1>2, <2>1, InChannelFull, InChannelType
  <2>3. /\ work' = Append(work, localQueue)
        /\ Len(work') = Len(work) + 1
        /\ \A w \in 1..Len(work) : work'[w] = work[w]
        /\ work'[Len(work) + 1] = localQueue
        /\ work' # <<>>
        /\ Len(work) \in Nat
    BY <1>2, <1>3, <2>1
  <2>4. InChannel' = InChannel + Len(localQueue)
    <3>1. Len(work') - 1 = Len(work)
      BY <2>3
    <3>2. work'[Len(work')] = localQueue
      BY <2>3
    <3>3. QED
      BY <2>2, <2>3, <3>1, <3>2 DEF InChannel, ItemsIn
  <2>5. /\ Len(batch) \in Nat /\ events \in Nat /\ Len(localQueue) \in Nat
        /\ Len(localQueue') = 0
    BY <1>1, <1>2 DEF TypeOK
  <2>6. InFlight' = InFlight
    BY <1>2, <2>2, <2>4, <2>5 DEF InFlight
  <2>7. Accounted'
    BY <1>2, <2>1, <2>6 DEF Accounted
  <2>8. Numbered(localQueue, events + Len(batch) + InChannel)'
    BY <2>5 DEF Numbered
  <2>9. ASSUME NEW w \in 1..Len(work')
        PROVE  /\ Numbered(work'[w], events + Len(batch) + ItemsIn(w - 1))
               /\ Len(work'[w]) \in 1..CapLocal
               /\ (w < Len(work') \/ edm' # "stopped")
                     => Len(work'[w]) = CapLocal
    <3>1. CASE w \in 1..Len(work)
      <4>1. Len(work[w]) = CapLocal
        BY <1>2, <2>1, <3>1 DEF InOrder
      <4>2. QED
        BY <2>1, <2>3, <3>1, <4>1, CapacityAssumption DEF InOrder
    <3>2. CASE w = Len(work) + 1
      <4>1. work'[w] = localQueue /\ w - 1 = Len(work) /\ ~(w < Len(work'))
        BY <2>3, <3>2
      <4>2. Numbered(localQueue, events + Len(batch) + ItemsIn(w - 1))
        BY <2>1, <2>2, <4>1 DEF InOrder
      <4>3. Len(localQueue) \in 1..CapLocal
        <5>1. edm = "sendEnd" => localQueue # <<>>
          BY <1>1 DEF Started
        <5>2. localQueue # <<>> => Len(localQueue) # 0
          BY <1>3
        <5>3. QED
          BY <1>2, <1>3, <2>5, <5>1, <5>2, CapacityAssumption
      <4>4. edm' # "stopped" => Len(localQueue) = CapLocal
        BY <1>2
      <4>5. QED
        BY <4>1, <4>2, <4>3, <4>4
    <3>3. QED
      BY <2>3, <3>1, <3>2
  <2>10. Numbered(batch', events')
    BY <1>2, <2>1 DEF InOrder
  <2>11. InOrder'
    <3>1. \A w \in 1..Len(work') :
            /\ Numbered(work'[w], events' + Len(batch') + ItemsIn(w - 1))
            /\ Len(work'[w]) \in 1..CapLocal
            /\ (w < Len(work') \/ edm' # "stopped")
                     => Len(work'[w]) = CapLocal
      BY <1>2, <2>9
    <3>2. Len(batch') <= CapLocal
      BY <1>2, <2>1 DEF InOrder
    <3>3. QED
      BY <2>8, <2>10, <3>1, <3>2 DEF InOrder, Numbered, ItemsIn
  <2>12. QED
    BY <2>7, <2>11
<1>9. QED
  BY <1>4, <1>5, <1>6, <1>7, <1>8 DEF IInv

LEMMA SourcePanicsPreserves ==
    ASSUME IInv, SourcePanics
    PROVE  IInv'
<1>1. TypeOK /\ Started /\ Clock /\ Phases /\ PanicsOnlyForCause
  BY DEF IInv
<1>2. /\ input' = input /\ read' = read /\ work' = work
      /\ ctl' = ctl /\ batch' = batch /\ events' = events
      /\ localQueue' = <<>> /\ edm = "fill" /\ edm' = "dead"
      /\ Len(localQueue) < CapLocal
      /\ timeSlot' = IF timeSlot = "open" THEN "closed" ELSE timeSlot
  BY DEF SourcePanics, ctlVars, evalVars
<1>3. Items' = Items
  BY <1>2 DEF Items
<1>4. TypeOK'
  <2>1. localQueue' \in Seq(Items) /\ Len(localQueue') <= CapLocal
    BY <1>2, CapacityAssumption
  <2>2. timeSlot' \in {"open", "sent", "taken", "closed"}
    BY <1>1, <1>2 DEF TypeOK
  <2>3. QED
    BY <1>1, <1>2, <1>3, <2>1, <2>2
    DEF TypeOK, SourcePanics, ctlVars, evalVars
<1>5. Started'
  BY <1>1, <1>2 DEF Started, SenderAlive
<1>6. Clock'
  BY <1>1 DEF Clock, SourcePanics, ctlVars, evalVars
<1>7. Phases' /\ PanicsOnlyForCause'
  BY <1>1, <1>2 DEF Phases, PanicsOnlyForCause
<1>8. ASSUME Receiving' PROVE InOrder' /\ Accounted'
  <2>1. InOrder /\ Accounted
    BY <1>2, <1>8 DEF IInv, Receiving
  <2>2. InChannel' = InChannel /\ InChannel \in Nat
    BY <1>1, <1>2, InChannelType DEF InChannel
  <2>3. /\ Len(batch) \in Nat /\ events \in Nat /\ Len(localQueue) \in Nat
        /\ Len(localQueue') = 0 /\ read \in Int
    BY <1>1, <1>2 DEF TypeOK
  <2>4. Accounted'
    BY <1>2, <2>1, <2>2, <2>3, CapacityAssumption DEF Accounted, InFlight
  <2>5. InOrder'
    BY <1>2, <2>1, <2>3 DEF InOrder, Numbered
  <2>6. QED
    BY <2>4, <2>5
<1>9. QED
  BY <1>4, <1>5, <1>6, <1>7, <1>8 DEF IInv

(***************************************************************************)
(* Steps that end the controller: its queues no longer matter.             *)
(***************************************************************************)
LEMMA SourceExitsPreserves ==
    ASSUME IInv, SourceExits
    PROVE  IInv'
<1>1. TypeOK /\ Started /\ Clock /\ Phases
  BY DEF IInv
<1>2. TypeOK'
  BY <1>1 DEF SourceExits, TypeOK, edmVars, evalVars, Items
<1>3. Started'
  BY <1>1 DEF SourceExits, Started, edmVars, evalVars, SenderAlive
<1>4. Clock'
  BY <1>1 DEF SourceExits, Clock, evalVars
<1>5. Phases' /\ PanicsOnlyForCause' /\ ~Receiving'
  BY DEF SourceExits, Phases, PanicsOnlyForCause, Receiving
<1>6. QED
  BY <1>2, <1>3, <1>4, <1>5 DEF IInv

LEMMA PanicPreserves ==
    ASSUME IInv, Panic, UNCHANGED <<input, edmVars, timeSlot, work>>,
           input = <<>> \/ ~NonDecreasing(input) \/ edm = "dead"
    PROVE  IInv'
<1>1. TypeOK /\ Started /\ Clock /\ Phases
  BY DEF IInv
<1>2. TypeOK'
  BY <1>1 DEF Panic, TypeOK, edmVars, evalVars, Items
<1>3. Started'
  BY <1>1 DEF Panic, Started, edmVars, evalVars, SenderAlive
<1>4. Clock'
  BY <1>1 DEF Panic, Clock, evalVars
<1>5. Phases' /\ ~Receiving'
  BY DEF Panic, Phases, Receiving
<1>6. PanicsOnlyForCause'
  BY DEF PanicsOnlyForCause, edmVars
<1>7. QED
  BY <1>2, <1>3, <1>4, <1>5, <1>6 DEF IInv

-----------------------------------------------------------------------------
(* The controller.                                                         *)

(***************************************************************************)
(* An EDM that has stopped has sent End, so a receiving controller has not *)
(* evaluated the last item yet.                                            *)
(***************************************************************************)
LEMMA StoppedHasItems ==
    ASSUME IInv, Receiving, edm = "stopped"
    PROVE  work # <<>> \/ batch # <<>>
<1>1. SUFFICES ASSUME work = <<>>, batch = <<>> PROVE FALSE
  OBVIOUS
<1>2. TypeOK /\ Accounted /\ localQueue = <<>> /\ events <= Len(input)
  BY DEF IInv, Started, Clock
<1>3. InFlight = 0
  BY <1>1, <1>2 DEF InFlight, InChannel
<1>4. events \in Nat /\ Len(input) \in Nat
  BY <1>2, InputType DEF TypeOK
<1>5. QED
  BY <1>2, <1>3, <1>4 DEF Accounted

LEMMA ReceiveStartPreserves ==
    ASSUME IInv, ReceiveStart
    PROVE  IInv'
<1>1. TypeOK /\ Started /\ Clock /\ Phases /\ PanicsOnlyForCause
  BY DEF IInv
<1>2. CASE /\ timeSlot = "sent" /\ timeSlot' = "taken" /\ ctl' = "setup"
           /\ UNCHANGED <<batch, nextDeadline, due, currentTime, evalVars,
                          input, edmVars, work>>
  <2>1. ctl = "start"
    BY DEF ReceiveStart
  <2>2. TypeOK'
    BY <1>1, <1>2 DEF TypeOK, edmVars, evalVars, Items
  <2>3. Started' /\ Phases' /\ PanicsOnlyForCause'
    BY <1>1, <1>2, <2>1
    DEF Started, Phases, PanicsOnlyForCause, edmVars, evalVars, SenderAlive
  <2>4. Clock'
    BY <1>1, <1>2 DEF Clock, evalVars
  <2>5. InOrder /\ Accounted
    BY <2>1 DEF IInv, Receiving
  <2>6. InOrder'
    BY <1>2, <2>5
    DEF InOrder, InChannel, Numbered, edmVars, evalVars
  <2>7. Accounted'
    BY <1>2, <2>5
    DEF Accounted, InFlight, InChannel, edmVars, evalVars
  <2>8. QED
    BY <2>2, <2>3, <2>4, <2>6, <2>7 DEF IInv
<1>3. CASE timeSlot = "closed" /\ Panic /\ UNCHANGED <<input, edmVars, timeSlot, work>>
  <2>1. edm = "dead" \/ input = <<>>
    <3>1. edm = "stopped" \/ edm = "dead"
      BY <1>1, <1>3 DEF Started, SenderAlive, TypeOK
    <3>2. edm = "stopped" => Len(input) = 0
      BY <1>1, <1>3 DEF Started
    <3>3. Len(input) = 0 => input = <<>>
      BY <1>1, InputType
    <3>4. QED
      BY <3>1, <3>2, <3>3
  <2>2. QED
    BY <1>3, <2>1, PanicPreserves
<1>4. QED
  BY <1>2, <1>3 DEF ReceiveStart

LEMMA SetupPreserves ==
    ASSUME IInv, Setup
    PROVE  IInv'
<1>1. TypeOK /\ Started /\ Clock /\ Phases /\ PanicsOnlyForCause
  BY DEF IInv
<1>2. /\ ctl = "setup" /\ ctl' \in {"recv", "failed"}
      /\ UNCHANGED <<input, edmVars, timeSlot, work, evalVars,
                     batch, nextDeadline, due, currentTime>>
  BY FaultAssumption DEF Setup
<1>3. TypeOK'
  BY <1>1, <1>2 DEF TypeOK, edmVars, evalVars, Items
<1>4. Started' /\ Phases' /\ PanicsOnlyForCause'
  BY <1>1, <1>2
  DEF Started, Phases, PanicsOnlyForCause, edmVars, evalVars, SenderAlive
<1>5. Clock'
  BY <1>1, <1>2 DEF Clock, evalVars
<1>6. InOrder /\ Accounted
  BY <1>2 DEF IInv, Receiving
<1>7. InOrder'
  BY <1>2, <1>6 DEF InOrder, InChannel, Numbered, edmVars, evalVars
<1>8. Accounted'
  BY <1>2, <1>6 DEF Accounted, InFlight, InChannel, edmVars, evalVars
<1>9. QED
  BY <1>3, <1>4, <1>5, <1>7, <1>8 DEF IInv

LEMMA ReceiveLocalQueuePreserves ==
    ASSUME IInv, ReceiveLocalQueue
    PROVE  IInv'
<1>1. TypeOK /\ Started /\ Clock /\ Phases /\ PanicsOnlyForCause
  BY DEF IInv
<1>2. ctl = "recv" /\ batch = <<>> /\ InOrder /\ Accounted /\ Receiving
  BY <1>1 DEF ReceiveLocalQueue, Phases, IInv, Receiving
<1>3. CASE /\ work # <<>> /\ batch' = Head(work) /\ work' = Tail(work)
           /\ ctl' = "handle"
           /\ UNCHANGED <<nextDeadline, due, currentTime, evalVars,
                          input, edmVars, timeSlot>>
  <2>1. /\ work \in Seq(Seq(Items)) /\ Len(work) \in Nat \ {0}
        /\ batch' = work[1] /\ work[1] \in Seq(Items)
        /\ Len(work') = Len(work) - 1
        /\ work' \in Seq(Seq(Items))
        /\ \A w \in 1..Len(work') : work'[w] = work[w + 1]
        /\ Len(batch) = 0
    BY <1>1, <1>2, <1>3 DEF TypeOK
  <2>2. Items' = Items /\ edm' = edm /\ localQueue' = localQueue
        /\ events' = events /\ input' = input /\ read' = read
    BY <1>3 DEF Items, edmVars, evalVars
  <2>3. TypeOK'
    <3>1. Len(work') <= CapWork
      BY <1>1, <2>1, CapacityAssumption DEF TypeOK
    <3>2. QED
      BY <1>1, <1>3, <2>1, <2>2, <3>1 DEF TypeOK, edmVars, evalVars
  <2>4. Len(work[1]) \in 1..CapLocal /\ Numbered(work[1], events + 0 + ItemsIn(0))
    <3>1. 1 \in 1..Len(work) /\ 1 - 1 = 0
      BY <2>1
    <3>2. QED
      BY <1>2, <2>1, <3>1 DEF InOrder
  <2>5. batch' # <<>>
    BY <2>1, <2>4
  <2>6. Started' /\ Phases' /\ PanicsOnlyForCause'
    BY <1>1, <1>2, <1>3, <2>5
    DEF Started, Phases, PanicsOnlyForCause, edmVars, evalVars, SenderAlive
  <2>7. Clock'
    BY <1>1, <1>3 DEF Clock, evalVars
  <2>8. events \in Nat /\ Len(batch') \in Nat /\ Len(localQueue) \in Nat
        /\ events + 0 + ItemsIn(0) = events
    <3>1. events \in Nat /\ Len(localQueue) \in Nat
      BY <1>1 DEF TypeOK
    <3>2. Len(batch') \in Nat
      BY <2>1
    <3>3. ItemsIn(0) = 0
      BY ItemsInFacts
    <3>4. QED
      BY <3>1, <3>2, <3>3
  <2>9. Len(work) # 1 => Len(work[1]) = CapLocal
    <3>1. 1 \in 1..Len(work) /\ (Len(work) # 1 => 1 < Len(work))
      BY <2>1
    <3>2. QED
      BY <1>2, <3>1 DEF InOrder
  <2>10. Len(batch') + InChannel' = InChannel
    <3>1. CASE Len(work) = 1
      <4>1. work' = <<>>
        BY <2>1, <3>1
      <4>2. InChannel' = 0
        BY <4>1 DEF InChannel
      <4>3. InChannel = ItemsIn(0) + Len(work[1])
        BY <1>3, <3>1 DEF InChannel
      <4>4. QED
        BY <2>1, <2>8, <4>2, <4>3, ItemsInFacts
    <3>2. CASE Len(work) # 1
      <4> DEFINE m == Len(work) - 2
      <4>1. m \in Nat /\ Len(work') - 1 = m /\ Len(work) - 1 = m + 1
            /\ Len(work') \in 1..Len(work') /\ Len(work') + 1 = Len(work)
        BY <2>1, <3>2
      <4>2. work'[Len(work')] = work[Len(work)]
        BY <2>1, <4>1
      <4>3. work' # <<>>
        BY <4>1
      <4>4. InChannel' = ItemsIn(m) + Len(work[Len(work)])
        BY <4>1, <4>2, <4>3 DEF InChannel, ItemsIn
      <4>5. InChannel = ItemsIn(m + 1) + Len(work[Len(work)])
        BY <1>3, <4>1 DEF InChannel
      <4>6. ItemsIn(m + 1) = ItemsIn(m) + CapLocal /\ ItemsIn(m) \in Nat
        BY <4>1, ItemsInFacts
      <4>7. Len(work[Len(work)]) \in Nat
        <5>1. work[Len(work)] \in Seq(Items)
          BY <2>1
        <5>2. QED
          BY <5>1
      <4>8. CapLocal \in Nat /\ Len(batch') = CapLocal
        BY <2>1, <2>9, <3>2, CapacityAssumption
      <4> HIDE DEF m
      <4>9. QED
        BY <4>4, <4>5, <4>6, <4>7, <4>8
    <3>3. QED
      BY <3>1, <3>2
  <2>11. InChannel' \in Nat /\ InChannel \in Nat
    <3>1. InChannel \in Nat
      BY <1>1, InChannelType
    <3>2. InChannel' \in Nat
      <4>1. CASE work' = <<>>
        BY <4>1 DEF InChannel
      <4>2. CASE work' # <<>>
        <5>1. Len(work') - 1 \in Nat /\ work'[Len(work')] \in Seq(Items)
          BY <2>1, <4>2
        <5>2. Len(work'[Len(work')]) \in Nat
          BY <5>1
        <5>3. (Len(work') - 1) * CapLocal \in Nat
          BY <5>1, CapacityAssumption
        <5>4. QED
          BY <4>2, <5>2, <5>3 DEF InChannel, ItemsIn
      <4>3. QED
        BY <4>1, <4>2
    <3>3. QED
      BY <3>1, <3>2
  <2>12. InFlight' = InFlight
    BY <2>1, <2>2, <2>8, <2>10, <2>11 DEF InFlight
  <2>13. Accounted'
    BY <1>2, <2>2, <2>12 DEF Accounted
  <2>14. InOrder'
    <3>1. Numbered(batch', events')
      BY <2>1, <2>2, <2>4, <2>8
    <3>2. Len(batch') <= CapLocal
      BY <2>1, <2>4, CapacityAssumption
    <3>3. ASSUME NEW w \in 1..Len(work')
          PROVE  /\ Numbered(work'[w], events' + Len(batch') + ItemsIn(w - 1))
                 /\ Len(work'[w]) \in 1..CapLocal
                 /\ (w < Len(work') \/ edm' # "stopped")
                        => Len(work'[w]) = CapLocal
      <4>1. w + 1 \in 1..Len(work) /\ work'[w] = work[w + 1] /\ (w + 1) - 1 = w
            /\ w - 1 \in Nat /\ (w - 1) + 1 = w
        BY <2>1
      <4>2. /\ Numbered(work[w + 1], events + Len(batch) + ItemsIn(w))
            /\ Len(work[w + 1]) \in 1..CapLocal
            /\ (w + 1 < Len(work) \/ edm # "stopped")
                   => Len(work[w + 1]) = CapLocal
        <5>1. /\ Numbered(work[w + 1], events + Len(batch) + ItemsIn((w + 1) - 1))
              /\ Len(work[w + 1]) \in 1..CapLocal
              /\ (w + 1 < Len(work) \/ edm # "stopped")
                   => Len(work[w + 1]) = CapLocal
          BY <1>2, <4>1 DEF InOrder
        <5>2. QED
          BY <4>1, <5>1
      <4>3. Len(batch') = CapLocal
        <5>0. Len(work) \in Nat /\ w \in Int
          BY <2>1
        <5>1. Len(work) # 1
          BY <4>1, <5>0
        <5>2. batch' = work[1]
          BY <2>1
        <5>3. QED
          BY <2>9, <5>1, <5>2
      <4>4. ItemsIn(w) = ItemsIn(w - 1) + CapLocal /\ ItemsIn(w - 1) \in Nat
        BY <4>1, ItemsInFacts
      <4>5. events + Len(batch) + ItemsIn(w) =
               events' + Len(batch') + ItemsIn(w - 1)
        BY <2>1, <2>2, <2>8, <4>3, <4>4
      <4>6. QED
        BY <2>1, <2>2, <4>1, <4>2, <4>5
    <3>4. Numbered(localQueue', events' + Len(batch') + InChannel')
      <4>1. events' + Len(batch') + InChannel' = events + Len(batch) + InChannel
        <5>1. events' = events /\ Len(batch) = 0
          BY <2>1, <2>2
        <5>2. QED
          BY <2>8, <2>10, <2>11, <5>1
      <4>2. QED
        BY <1>2, <2>2, <4>1 DEF InOrder
    <3>5. QED
      BY <3>1, <3>2, <3>3, <3>4 DEF InOrder, Numbered, ItemsIn
  <2>15. QED
    BY <2>3, <2>6, <2>7, <2>13, <2>14 DEF IInv
<1>4. CASE work = <<>> /\ ~SenderAlive /\ Panic /\ UNCHANGED <<input, edmVars, timeSlot, work>>
  <2>1. edm \in {"stopped", "dead"}
    BY <1>1, <1>4 DEF TypeOK, SenderAlive
  <2>2. edm = "dead"
    BY <1>2, <1>4, <2>1, StoppedHasItems
  <2>3. QED
    BY <1>4, <2>2, PanicPreserves
<1>5. QED
  BY <1>3, <1>4 DEF ReceiveLocalQueue

(***************************************************************************)
(* The item at the head of the batch is the one after the last event.      *)
(***************************************************************************)
LEMMA HeadOfBatch ==
    ASSUME IInv, ctl = "handle"
    PROVE  /\ TypeOK /\ Started /\ Clock /\ Phases /\ PanicsOnlyForCause
           /\ InOrder /\ Accounted
           /\ batch \in Seq(Items) /\ batch # <<>> /\ Len(batch) \in Nat \ {0}
           /\ Head(batch) = events + 1 /\ events \in Nat
           /\ Head(batch) \in 1..End /\ End = Len(input) + 1
           /\ Len(input) \in Nat
<1>1. /\ TypeOK /\ Started /\ Clock /\ Phases /\ PanicsOnlyForCause
      /\ InOrder /\ Accounted
  BY DEF IInv, Receiving
<1>2. batch \in Seq(Items) /\ batch # <<>> /\ events \in Nat
  BY <1>1 DEF TypeOK, Phases
<1>3. Len(batch) \in Nat \ {0} /\ 1 \in 1..Len(batch) /\ Head(batch) = batch[1]
  BY <1>2
<1>4. batch[1] = events + 1 /\ batch[1] \in Items
  BY <1>1, <1>2, <1>3 DEF InOrder, Numbered
<1>5. Items = 1..End /\ End = Len(input) + 1 /\ Len(input) \in Nat
  BY <1>1, InputType
<1>6. QED
  BY <1>1, <1>2, <1>3, <1>4, <1>5

(***************************************************************************)
(* The assertion of the evaluator never fails on a non-decreasing input.   *)
(***************************************************************************)
LEMMA EvaluatorAccepts ==
    ASSUME IInv, ctl = "handle"
    PROVE  /\ HasTimeDriven => Monotone(nextDeadline)
           /\ NonDecreasing(input) /\ Head(batch) # End
                => Monotone(input[Head(batch)])
<1>1. Clock /\ Head(batch) = events + 1 /\ Head(batch) \in 1..End
      /\ End = Len(input) + 1 /\ Len(input) \in Nat /\ events \in Nat
  BY HeadOfBatch
<1>2. Head(batch) # End => events < Len(input)
  BY <1>1
<1>3. QED
  BY <1>1, <1>2 DEF Clock, Monotone

LEMMA ScheduleTimedPreserves ==
    ASSUME IInv, ScheduleTimed
    PROVE  IInv'
<1>1. ctl = "handle" /\ HasTimeDriven /\ DeadlineFirst
  BY DEF ScheduleTimed, DeadlineFirst
<1>2. /\ TypeOK /\ Started /\ Clock /\ Phases /\ PanicsOnlyForCause
      /\ InOrder /\ Accounted
      /\ Head(batch) = events + 1 /\ events \in Nat
      /\ Head(batch) \in 1..End /\ End = Len(input) + 1 /\ Len(input) \in Nat
  BY <1>1, HeadOfBatch
<1>3. Monotone(nextDeadline)
  BY <1>1, EvaluatorAccepts
<1>4. /\ lastCycleTime' = nextDeadline
      /\ last'.ts = nextDeadline
      /\ due' = NextInCycle(due)
      /\ nextDeadline' = nextDeadline + Pause(NextInCycle(due))
      /\ deadlines' = deadlines + 1
      /\ ctl' = IF Pause(NextInCycle(due)) > 0 THEN ctl ELSE "panicked"
      /\ UNCHANGED <<batch, currentTime, events,
                     input, edmVars, timeSlot, work>>
  BY <1>3 DEF ScheduleTimed, Evaluate
<1>5. /\ deadlines \in Nat /\ nextDeadline \in Nat /\ NumDeadlines \in Nat
      /\ due = PositionOf(deadlines) /\ nextDeadline = DeadlineTime(deadlines)
  BY <1>1, <1>2, DueTimesTypes DEF TypeOK, Clock
<1>6. /\ due' = PositionOf(deadlines') /\ due' \in 1..NumDeadlines
      /\ nextDeadline' = DeadlineTime(deadlines') /\ nextDeadline' \in Nat
      /\ nextDeadline <= nextDeadline'
      /\ deadlines' \in Nat
  <2>1. deadlines + 1 \in Nat
    BY <1>5
  <2>2. /\ PositionOf(deadlines + 1) = NextInCycle(PositionOf(deadlines))
        /\ DeadlineTime(deadlines + 1) =
              DeadlineTime(deadlines) + Pause(PositionOf(deadlines + 1))
        /\ DeadlineTime(deadlines) <= DeadlineTime(deadlines + 1)
    BY <1>1, <1>5, CycleFollowsSchedule
  <2>3. /\ PositionOf(deadlines + 1) \in 1..NumDeadlines
        /\ DeadlineTime(deadlines + 1) \in Nat
    BY <1>1, <2>1, DeadlineTypes
  <2>4. due' = PositionOf(deadlines + 1)
    BY <1>4, <1>5, <2>2
  <2>5. nextDeadline' = DeadlineTime(deadlines + 1)
    BY <1>4, <1>5, <2>2
  <2>6. QED
    BY <1>4, <1>5, <2>1, <2>2, <2>3, <2>4, <2>5
<1>7. TypeOK'
  <2>1. ctl' \in {"handle", "panicked"}
    BY <1>1, <1>4
  <2>2. QED
    BY <1>2, <1>4, <1>5, <1>6, <2>1 DEF TypeOK, edmVars, Items
<1>8. Started' /\ Phases' /\ PanicsOnlyForCause'
  <2>1. ctl' \in {"handle", "panicked"}
    BY <1>1, <1>4
  <2>2. ctl' = "panicked" => Pause(due') = 0
    <3>1. Pause(NextInCycle(due)) \in Nat
      BY <1>1, <1>4, <1>6, PausesNatural
    <3>2. QED
      BY <1>1, <1>4, <3>1
  <2>3. PanicsOnlyForCause'
    BY <1>1, <1>4, <1>5, <2>2 DEF PanicsOnlyForCause, MetZeroPause
  <2>4. Started' /\ Phases'
    BY <1>1, <1>2, <1>4, <2>1 DEF Started, Phases, edmVars, SenderAlive
  <2>5. QED
    BY <2>3, <2>4
<1>9. Clock'
  <2>1. events' <= Len(input')
    BY <1>2, <1>4 DEF Clock
  <2>2. events' > 0 => currentTime' = input'[events']
    BY <1>2, <1>4 DEF Clock
  <2>3. events' > 0 => currentTime' <= nextDeadline'
    BY <1>1, <1>2, <1>4, <1>5, <1>6 DEF Clock, TypeOK
  <2>4. lastCycleTime' <= nextDeadline'
    BY <1>4, <1>5, <1>6
  <2>5. last'.ts = lastCycleTime'
    BY <1>4
  <2>6. events' < Len(input') => lastCycleTime' <= input'[events' + 1]
    <3>1. SUFFICES ASSUME events < Len(input)
                   PROVE  nextDeadline <= input[events + 1]
      BY <1>4
    <3>2. Head(batch) # End
      BY <1>2, <3>1
    <3>3. input[events + 1] > nextDeadline
      BY <1>1, <1>2, <3>2 DEF DeadlineFirst
    <3>4. input[events + 1] \in Nat
      BY <1>2, <3>1, InputType
    <3>5. QED
      BY <1>5, <3>3, <3>4
  <2>7. QED
    BY <1>6, <2>1, <2>2, <2>3, <2>4, <2>5, <2>6 DEF Clock
<1>10. InOrder' /\ Accounted'
  BY <1>2, <1>4
  DEF InOrder, Accounted, InFlight, InChannel, Numbered, edmVars
<1>11. QED
  BY <1>7, <1>8, <1>9, <1>10 DEF IInv

LEMMA HandleEventPreserves ==
    ASSUME IInv, HandleEvent
    PROVE  IInv'
<1>1. ctl = "handle" /\ ~DeadlineFirst /\ Head(batch) # End
  BY DEF HandleEvent
<1>2. /\ TypeOK /\ Started /\ Clock /\ Phases /\ PanicsOnlyForCause
      /\ InOrder /\ Accounted
      /\ batch \in Seq(Items) /\ batch # <<>> /\ Len(batch) \in Nat \ {0}
      /\ Head(batch) = events + 1 /\ events \in Nat
      /\ Head(batch) \in 1..End /\ End = Len(input) + 1 /\ Len(input) \in Nat
  BY <1>1, HeadOfBatch
<1>3. events + 1 \in 1..Len(input) /\ input[events + 1] \in Nat
  BY <1>1, <1>2, InputType
<1>4. CASE /\ lastCycleTime' = input[events + 1]
           /\ last'.ts = input[events + 1]
           /\ currentTime' = input[events + 1]
           /\ events' = events + 1
           /\ batch' = Tail(batch)
           /\ ctl' = IF Len(batch) = 1 THEN "recv" ELSE "handle"
           /\ UNCHANGED <<nextDeadline, due, deadlines,
                          input, edmVars, timeSlot, work>>
  <2>1. /\ batch' \in Seq(Items) /\ Len(batch') = Len(batch) - 1
        /\ \A j \in 1..Len(batch') : batch'[j] = batch[j + 1]
        /\ (batch' = <<>>) <=> (Len(batch) = 1)
    <3>1. /\ batch' \in Seq(Items) /\ Len(batch') = Len(batch) - 1
          /\ \A j \in 1..Len(batch') : batch'[j] = batch[j + 1]
      BY <1>2, <1>4
    <3>2. (batch' = <<>>) <=> (Len(batch') = 0)
      BY <3>1
    <3>3. QED
      BY <1>2, <3>1, <3>2
  <2>2. Items' = Items
    BY <1>4 DEF Items
  <2>3. TypeOK'
    <3>1. ctl' \in {"recv", "handle"}
      BY <1>4
    <3>2. events' \in Nat /\ currentTime' \in Nat
          /\ lastCycleTime' \in Nat \cup {-1}
      BY <1>2, <1>3, <1>4
    <3>3. QED
      BY <1>2, <1>4, <2>1, <2>2, <3>1, <3>2 DEF TypeOK, edmVars
  <2>4. Started' /\ Phases' /\ PanicsOnlyForCause'
    BY <1>1, <1>2, <1>4, <2>1
    DEF Started, Phases, PanicsOnlyForCause, edmVars, SenderAlive
  <2>5. Clock'
    <3>1. events' <= Len(input') /\ currentTime' = input'[events']
          /\ last'.ts = lastCycleTime'
      BY <1>2, <1>3, <1>4
    <3>2. HasTimeDriven => /\ currentTime' <= nextDeadline'
                           /\ lastCycleTime' <= nextDeadline'
      <4>1. HasTimeDriven => ~(input[events + 1] > nextDeadline)
        BY <1>1, <1>2 DEF DeadlineFirst
      <4>2. nextDeadline \in Nat
        BY <1>2 DEF TypeOK
      <4>3. QED
        BY <1>3, <1>4, <4>1, <4>2
    <3>3. HasTimeDriven => /\ due' = PositionOf(deadlines')
                           /\ nextDeadline' = DeadlineTime(deadlines')
      BY <1>2, <1>4 DEF Clock
    <3>4. NonDecreasing(input') /\ events' < Len(input')
             => lastCycleTime' <= input'[events' + 1]
      <4>1. SUFFICES ASSUME NonDecreasing(input), events + 1 < Len(input)
                     PROVE  input[events + 1] <= input[events + 2]
        BY <1>2, <1>4
      <4>2. /\ events + 1 \in DOMAIN input /\ events + 2 \in DOMAIN input
            /\ events + 1 < events + 2
        BY <1>2, <1>3, <4>1, InputType
      <4>3. QED
        BY <4>1, <4>2 DEF NonDecreasing
    <3>5. QED
      BY <3>1, <3>2, <3>3, <3>4 DEF Clock
  <2>6. events' + Len(batch') = events + Len(batch)
    BY <1>2, <1>4, <2>1
  <2>7. InChannel' = InChannel /\ localQueue' = localQueue /\ edm' = edm
        /\ work' = work /\ read' = read /\ input' = input
    BY <1>4 DEF InChannel, edmVars
  <2>8. InChannel \in Nat /\ Len(localQueue) \in Nat
    BY <1>2, InChannelType DEF TypeOK
  <2>9. events' + InFlight' = events + InFlight
    BY <1>2, <1>4, <2>1, <2>7, <2>8 DEF InFlight
  <2>10. Accounted'
    BY <1>2, <2>7, <2>9 DEF Accounted
  <2>11. Numbered(batch', events')
    <3>1. ASSUME NEW j \in 1..Len(batch') PROVE batch'[j] = events' + j
      <4>1. j + 1 \in 1..Len(batch) /\ batch'[j] = batch[j + 1]
        BY <1>2, <2>1
      <4>2. batch[j + 1] = events + (j + 1)
        BY <1>2, <4>1 DEF InOrder, Numbered
      <4>3. QED
        BY <1>2, <1>4, <4>1, <4>2
    <3>2. QED
      BY <3>1 DEF Numbered
  <2>12. Len(batch') <= CapLocal
    BY <1>2, <2>1, CapacityAssumption DEF InOrder
  <2>13. InOrder'
    <3>1. \A w \in 1..Len(work') :
              /\ Numbered(work'[w], events' + Len(batch') + ItemsIn(w - 1))
              /\ Len(work'[w]) \in 1..CapLocal
              /\ (w < Len(work') \/ edm' # "stopped")
                     => Len(work'[w]) = CapLocal
      BY <1>2, <2>6, <2>7 DEF InOrder
    <3>2. Numbered(localQueue', events' + Len(batch') + InChannel')
      BY <1>2, <2>6, <2>7 DEF InOrder
    <3>3. QED
      BY <2>11, <2>12, <3>1, <3>2 DEF InOrder, Numbered, ItemsIn
  <2>14. QED
    BY <2>3, <2>4, <2>5, <2>10, <2>13 DEF IInv
<1>5. CASE /\ ~Monotone(input[events + 1]) /\ Panic
           /\ UNCHANGED <<input, edmVars, timeSlot, work>>
  <2>1. ~NonDecreasing(input)
    BY <1>1, <1>2, <1>5, EvaluatorAccepts
  <2>2. QED
    BY <1>5, <2>1, PanicPreserves
<1>6. QED
  BY <1>2, <1>4, <1>5 DEF HandleEvent, Evaluate

LEMMA HandleEndPreserves ==
    ASSUME IInv, HandleEnd
    PROVE  IInv' /\ edm = "stopped" /\ events = Len(input)
<1>1. ctl = "handle" /\ Head(batch) = End
  BY DEF HandleEnd
<1>2. /\ TypeOK /\ Started /\ Clock /\ Phases /\ PanicsOnlyForCause
      /\ InOrder /\ Accounted
      /\ batch \in Seq(Items) /\ batch # <<>> /\ Len(batch) \in Nat \ {0}
      /\ Head(batch) = events + 1 /\ events \in Nat
      /\ Head(batch) \in 1..End /\ End = Len(input) + 1 /\ Len(input) \in Nat
  BY <1>1, HeadOfBatch
<1>3. events = Len(input)
  BY <1>1, <1>2
<1>4. edm = "stopped"
  <2>1. InChannel \in Nat /\ localQueue \in Seq(Items)
        /\ Len(localQueue) \in Nat /\ read \in 0..Len(input)
    BY <1>2, InChannelType DEF TypeOK
  <2>2. edm # "fill" /\ edm # "dead"
    BY <1>2, <1>3, <2>1 DEF Accounted, InFlight
  <2>3. edm # "sendEnd"
    <3>1. SUFFICES ASSUME edm = "sendEnd" PROVE FALSE
      OBVIOUS
    <3>2. localQueue # <<>>
      BY <1>2, <3>1 DEF Started
    <3>3. Len(localQueue) # 0
      BY <2>1, <3>2
    <3>4. Len(input) + 1 = events + (Len(batch) + InChannel + Len(localQueue))
      BY <1>2, <3>1 DEF Accounted, InFlight
    <3>5. QED
      BY <1>2, <1>3, <2>1, <3>3, <3>4
  <2>4. QED
    BY <1>2, <2>2, <2>3 DEF TypeOK
<1>5. /\ batch' = <<>> /\ ctl' = "join"
      /\ UNCHANGED <<input, edmVars, timeSlot, work, evalVars,
                     nextDeadline, due, currentTime>>
  BY DEF HandleEnd
<1>6. TypeOK'
  BY <1>2, <1>5 DEF TypeOK, edmVars, evalVars, Items
<1>7. Started' /\ Phases' /\ PanicsOnlyForCause' /\ ~Receiving'
  BY <1>1, <1>2, <1>3, <1>4, <1>5
  DEF Started, Phases, PanicsOnlyForCause, edmVars, evalVars, SenderAlive,
      Receiving
<1>8. Clock'
  BY <1>2, <1>5 DEF Clock, evalVars
<1>9. QED
  BY <1>3, <1>4, <1>6, <1>7, <1>8 DEF IInv

LEMMA JoinPreserves ==
    ASSUME IInv, Join
    PROVE  IInv' /\ ctl' = "done"
<1>1. TypeOK /\ Started /\ Clock /\ Phases /\ PanicsOnlyForCause
  BY DEF IInv
<1>2. edm = "stopped" /\ events = Len(input) /\ ctl = "join"
  BY <1>1 DEF Join, Phases
<1>3. /\ ctl' = "done"
      /\ UNCHANGED <<batch, nextDeadline, due, currentTime, evalVars,
                     input, edmVars, timeSlot, work>>
  BY <1>2 DEF Join
<1>4. TypeOK'
  BY <1>1, <1>3 DEF TypeOK, edmVars, evalVars, Items
<1>5. Started' /\ Phases' /\ PanicsOnlyForCause' /\ ~Receiving'
  BY <1>1, <1>2, <1>3
  DEF Started, Phases, PanicsOnlyForCause, edmVars, evalVars, SenderAlive,
      Receiving
<1>6. Clock'
  BY <1>1, <1>3 DEF Clock, evalVars
<1>7. QED
  BY <1>3, <1>4, <1>5, <1>6 DEF IInv

-----------------------------------------------------------------------------
LEMMA StepPreserves == IInv /\ [Next]_vars => IInv'
<1> SUFFICES ASSUME IInv, [Next]_vars PROVE IInv'
  OBVIOUS
<1>1. CASE EDM
  BY <1>1, ReadEventPreserves, ReadEndPreserves, SendLocalQueuePreserves,
     SourcePanicsPreserves, SourceExitsPreserves DEF EDM
<1>2. CASE Ctl
  BY <1>2, ReceiveStartPreserves, SetupPreserves, ReceiveLocalQueuePreserves,
     ScheduleTimedPreserves, HandleEventPreserves, HandleEndPreserves,
     JoinPreserves DEF Ctl
<1>3. CASE UNCHANGED vars
  <2>1. /\ UNCHANGED <<input, edm, read, localQueue, timeSlot, work>>
        /\ UNCHANGED <<ctl, batch, nextDeadline, due, currentTime>>
        /\ UNCHANGED <<lastCycleTime, last, events, deadlines>>
    BY <1>3 DEF vars, edmVars, ctlVars, evalVars
  <2>2. TypeOK' /\ Started' /\ Clock' /\ Phases' /\ PanicsOnlyForCause'
    BY <2>1 DEF IInv, TypeOK, Started, Clock, Phases, PanicsOnlyForCause,
       MetZeroPause, Items, SenderAlive
  <2>3. (Receiving => InOrder /\ Accounted)'
    BY <2>1 DEF IInv, Receiving, InOrder, Accounted, InFlight, InChannel,
       Numbered
  <2>4. QED
    BY <2>2, <2>3 DEF IInv
<1>4. QED
  BY <1>1, <1>2, <1>3 DEF Next, Stopped

(***************************************************************************)
(* The invariant holds in every run.                                       *)
(***************************************************************************)
THEOREM Invariance == Spec => []IInv
  BY InitIInv, StepPreserves, PTL DEF Spec

(***************************************************************************)
(* The state always has its type.                                          *)
(***************************************************************************)
THEOREM TypeCorrect == Spec => []TypeOK
<1>1. IInv => TypeOK
  BY DEF IInv
<1>2. QED
  BY <1>1, Invariance, PTL

(***************************************************************************)
(* A run only panics on an empty input, on decreasing times, because the   *)
(* source did, or on coming to a pause of zero, which no schedule of whole *)
(* nanoseconds has: never because of how the threads are scheduled.        *)
(***************************************************************************)
THEOREM NoUnexpectedPanic == Spec => []PanicsOnlyForCause
<1>1. IInv => PanicsOnlyForCause
  BY DEF IInv
<1>2. QED
  BY <1>1, Invariance, PTL

(***************************************************************************)
(* A run that ends normally has evaluated every event of its input.        *)
(***************************************************************************)
THEOREM DoneMeansComplete == Spec => []DoneIsComplete
<1>1. IInv => DoneIsComplete
  BY DEF IInv, Phases, DoneIsComplete
<1>2. QED
  BY <1>1, Invariance, PTL

(***************************************************************************)
(* The EDM never reads further ahead than the queues allow.                *)
(***************************************************************************)
THEOREM ReadAheadBounded == Spec => []BoundedReadAhead
<1>1. ASSUME IInv PROVE BoundedReadAhead
  <2> SUFFICES ASSUME ReceiverAlive
               PROVE  read - events <= CapLocal * (CapWork + 2)
    BY DEF BoundedReadAhead
  <2>1. /\ TypeOK /\ Started /\ Clock /\ Phases
        /\ CapLocal \in Nat /\ CapWork \in Nat
    BY <1>1, CapacityAssumption DEF IInv
  <2>2. /\ read \in Nat /\ events \in Nat /\ Len(input) \in Nat
        /\ read <= Len(input)
        /\ Len(batch) \in Nat /\ Len(localQueue) \in Nat
        /\ Len(localQueue) <= CapLocal /\ Len(work) \in Nat
        /\ Len(work) <= CapWork
    BY <2>1, InputType DEF TypeOK
  <2>3. CASE ctl = "join"
    <3>1. read <= events
      BY <2>1, <2>2, <2>3 DEF Phases
    <3>2. CapLocal * (CapWork + 2) \in Nat
      BY <2>1
    <3>3. QED
      BY <2>2, <3>1, <3>2
  <2>4. CASE ctl # "join"
    <3>1. InOrder /\ Accounted
      BY <1>1, <2>4 DEF IInv, Receiving, ReceiverAlive
    <3>2. InChannel \in Nat
      BY <2>1, InChannelType
    <3>3. InChannel <= ItemsIn(CapWork)
      <4>1. CASE work = <<>>
        <5>1. ItemsIn(CapWork) \in Nat
          BY <2>1, ItemsInFacts
        <5>2. QED
          BY <4>1, <5>1 DEF InChannel
      <4>2. CASE work # <<>>
        <5>1. Len(work) - 1 \in Nat /\ Len(work) \in 1..Len(work)
              /\ (Len(work) - 1) + 1 = Len(work)
          BY <2>1, <4>2 DEF TypeOK
        <5>2. Len(work[Len(work)]) \in 1..CapLocal
          BY <3>1, <5>1 DEF InOrder
        <5>3. /\ ItemsIn(Len(work)) = ItemsIn(Len(work) - 1) + CapLocal
              /\ ItemsIn(Len(work) - 1) \in Nat
          BY <5>1, ItemsInFacts
        <5>4. ItemsIn(Len(work)) <= ItemsIn(CapWork)
          BY <2>1, <2>2, ItemsInMonotone
        <5>5. ItemsIn(CapWork) \in Nat
          BY <2>1, ItemsInFacts
        <5>6. InChannel = ItemsIn(Len(work) - 1) + Len(work[Len(work)])
          BY <4>2 DEF InChannel
        <5>7. QED
          BY <2>1, <5>2, <5>3, <5>4, <5>5, <5>6
      <4>3. QED
        BY <4>1, <4>2
    <3>4. Len(batch) <= CapLocal
      BY <3>1 DEF InOrder
    <3>5. read - events <= Len(batch) + InChannel + CapLocal
      <4>1. InFlight = Len(batch) + InChannel + Len(localQueue)
        BY DEF InFlight
      <4>2. CASE edm = "fill"
        BY <2>1, <2>2, <3>1, <3>2, <4>1, <4>2 DEF Accounted
      <4>3. CASE edm \in {"sendEnd", "stopped"}
        BY <2>1, <2>2, <3>1, <3>2, <4>1, <4>3 DEF Accounted
      <4>4. CASE edm = "dead"
        <5>1. Len(localQueue) = 0
          BY <2>1, <4>4 DEF Started
        <5>2. QED
          BY <2>1, <2>2, <3>1, <3>2, <4>1, <4>4, <5>1 DEF Accounted
      <4>5. QED
        BY <2>1, <4>2, <4>3, <4>4 DEF TypeOK
    <3>6. /\ CapLocal * (CapWork + 2) = ItemsIn(CapWork) + CapLocal + CapLocal
          /\ ItemsIn(CapWork) \in Nat
      BY <2>1 DEF ItemsIn
    <3>7. QED
      BY <2>1, <2>2, <3>2, <3>3, <3>4, <3>5, <3>6
  <2>5. QED
    BY <2>3, <2>4
<1>2. IInv => BoundedReadAhead
  BY <1>1
<1>3. QED
  BY <1>2, Invariance, PTL

-----------------------------------------------------------------------------
(* Refinement.                                                             *)

(***************************************************************************)
(* The instance of Deadlines inside Timeline is the one used here.         *)
(***************************************************************************)
LEMMA SameDeadlines ==
    /\ Timeline!HasTimeDriven = HasTimeDriven
    /\ \A j : Timeline!DeadlineTime(j) = DeadlineTime(j)
    /\ \A j : Timeline!DueAt(j) = DueAt(j)
<1>1. Timeline!NumDeadlines = NumDeadlines
  BY DEF Timeline!NumDeadlines, NumDeadlines
<1>2. Timeline!HyperPeriod = HyperPeriod
  BY <1>1 DEF Timeline!HyperPeriod, HyperPeriod
<1>3. \A j : Timeline!PositionOf(j) = PositionOf(j)
  BY <1>1 DEF Timeline!PositionOf, PositionOf
<1>4. Timeline!HasTimeDriven = HasTimeDriven
  BY <1>1 DEF Timeline!HasTimeDriven, HasTimeDriven
<1>5. \A j : Timeline!DeadlineTime(j) = DeadlineTime(j)
  BY <1>1, <1>2, <1>3 DEF Timeline!DeadlineTime, DeadlineTime
<1>6. \A j : Timeline!DueAt(j) = DueAt(j)
  BY <1>3 DEF Timeline!DueAt, DueAt
<1>7. QED
  BY <1>4, <1>5, <1>6

LEMMA QuietStep ==
    ASSUME UNCHANGED <<input, evalVars>>,
           (ctl' \in {"join", "done"}) <=> (ctl \in {"join", "done"})
    PROVE  UNCHANGED Timeline!vars
<1>1. CASE ctl \in {"join", "done"}
  <2>1. (ctl' \in {"join", "done"}) = TRUE /\ (ctl \in {"join", "done"}) = TRUE
    BY <1>1
  <2>2. QED
    BY <2>1 DEF Timeline!vars, evalVars
<1>2. CASE ~(ctl \in {"join", "done"})
  <2>1. /\ (ctl' \in {"join", "done"}) = FALSE
        /\ (ctl \in {"join", "done"}) = FALSE
    BY <1>2
  <2>2. QED
    BY <2>1 DEF Timeline!vars, evalVars
<1>3. QED
  BY <1>1, <1>2

LEMMA ScheduleTimedImplements ==
    ASSUME IInv, ScheduleTimed
    PROVE  Timeline!EvaluateDeadline
<1>1. ctl = "handle" /\ HasTimeDriven /\ DeadlineFirst
  BY DEF ScheduleTimed, DeadlineFirst
<1>2. /\ TypeOK /\ Clock
      /\ Head(batch) = events + 1 /\ events \in Nat
      /\ Head(batch) \in 1..End /\ End = Len(input) + 1 /\ Len(input) \in Nat
      /\ Started
  BY <1>1, HeadOfBatch
<1>3. Monotone(nextDeadline) /\ nextDeadline \in Nat /\ lastCycleTime \in Int
  BY <1>1, <1>2, EvaluatorAccepts DEF TypeOK
<1>4. /\ last' = [kind |-> "timed", what |-> DueStreams[due],
                  ts |-> nextDeadline]
      /\ deadlines' = deadlines + 1
      /\ ctl' \in {"handle", "panicked"}
      /\ UNCHANGED <<events, input>>
  BY <1>1, <1>3 DEF ScheduleTimed, Evaluate
<1>5. due = PositionOf(deadlines) /\ nextDeadline = DeadlineTime(deadlines)
  BY <1>1, <1>2 DEF Clock
<1>6. last' = Timeline!DeadlineCycle(deadlines)
  BY <1>4, <1>5, SameDeadlines DEF Timeline!DeadlineCycle, DueAt
<1>7. IF events < Len(input)
      THEN DeadlineTime(deadlines) < input[events + 1]
      ELSE events > 0 /\ DeadlineTime(deadlines) <= input[events]
  <2>1. CASE events < Len(input)
    <3>1. Head(batch) # End
      BY <1>2, <2>1
    <3>2. input[events + 1] > nextDeadline /\ input[events + 1] \in Nat
      BY <1>1, <1>2, <2>1, <3>1, InputType DEF DeadlineFirst
    <3>3. QED
      BY <1>3, <1>5, <2>1, <3>2
  <2>2. CASE ~(events < Len(input))
    <3>1. Head(batch) = End /\ events = Len(input)
      BY <1>2, <2>2
    <3>2. currentTime = nextDeadline
      BY <1>1, <3>1 DEF DeadlineFirst
    <3>3. events > 0
      <4>1. timeSlot = "taken" /\ read \in 0..Len(input)
        BY <1>1, <1>2 DEF Started, TypeOK
      <4>2. read # 0
        BY <1>2, <4>1 DEF Started
      <4>3. QED
        BY <1>2, <3>1, <4>1, <4>2
    <3>4. currentTime = input[events]
      BY <1>2, <3>3 DEF Clock
    <3>5. QED
      BY <1>3, <1>5, <2>2, <3>2, <3>3, <3>4
  <2>3. QED
    BY <2>1, <2>2
<1>8. last # NoCycle => last.ts <= DeadlineTime(deadlines)
  BY <1>2, <1>3, <1>5 DEF Clock, Monotone
<1>9. (ctl' \in {"join", "done"}) = (ctl \in {"join", "done"})
  BY <1>1, <1>4
<1>10. ~(ctl \in {"join", "done"})
  BY <1>1
<1>11. QED
  BY <1>1, <1>4, <1>6, <1>7, <1>8, <1>9, <1>10, SameDeadlines
  DEF Timeline!EvaluateDeadline

LEMMA HandleEventImplements ==
    ASSUME IInv, HandleEvent
    PROVE  Timeline!EvaluateEvent \/ UNCHANGED Timeline!vars
<1>1. ctl = "handle" /\ ~DeadlineFirst /\ Head(batch) # End
  BY DEF HandleEvent
<1>2. /\ TypeOK /\ Clock
      /\ Head(batch) = events + 1 /\ events \in Nat
      /\ Head(batch) \in 1..End /\ End = Len(input) + 1 /\ Len(input) \in Nat
  BY <1>1, HeadOfBatch
<1>3. events < Len(input) /\ input[events + 1] \in Nat /\ nextDeadline \in Nat
      /\ lastCycleTime \in Int
  BY <1>1, <1>2, InputType DEF TypeOK
<1>4. CASE /\ Monotone(input[events + 1])
           /\ last' = [kind |-> "event", what |-> events + 1,
                       ts |-> input[events + 1]]
           /\ events' = events + 1
           /\ ctl' \in {"recv", "handle"}
           /\ UNCHANGED <<deadlines, input>>
  <2>1. HasTimeDriven => input[events + 1] <= DeadlineTime(deadlines)
    <3>1. HasTimeDriven => ~(input[events + 1] > nextDeadline)
      BY <1>1, <1>2 DEF DeadlineFirst
    <3>2. QED
      BY <1>2, <1>3, <3>1 DEF Clock
  <2>2. last # NoCycle => last.ts <= input[events + 1]
    BY <1>2, <1>3, <1>4 DEF Clock, Monotone
  <2>3. last' = Timeline!EventCycle(events + 1)
    BY <1>4 DEF Timeline!EventCycle
  <2>4. (ctl' \in {"join", "done"}) = (ctl \in {"join", "done"})
        /\ ~(ctl \in {"join", "done"})
    BY <1>1, <1>4
  <2>5. QED
    BY <1>3, <1>4, <2>1, <2>2, <2>3, <2>4, SameDeadlines
    DEF Timeline!EvaluateEvent
<1>5. CASE Panic /\ UNCHANGED <<input, edmVars, timeSlot, work>>
  <2>1. UNCHANGED <<input, evalVars>> /\ ctl' = "panicked"
    BY <1>5 DEF Panic
  <2>2. (ctl' \in {"join", "done"}) <=> (ctl \in {"join", "done"})
    BY <1>1, <2>1
  <2>3. QED
    BY <2>1, <2>2, QuietStep
<1>6. QED
  BY <1>2, <1>4, <1>5 DEF HandleEvent, Evaluate

LEMMA HandleEndImplements ==
    ASSUME IInv, HandleEnd
    PROVE  Timeline!Finish
<1>1. ctl = "handle" /\ ~DeadlineFirst /\ Head(batch) = End /\ ctl' = "join"
      /\ UNCHANGED <<input, events, deadlines, last>>
  BY DEF HandleEnd, evalVars
<1>2. TypeOK /\ Clock /\ Started /\ events = Len(input) /\ events \in Nat
  BY <1>1, HeadOfBatch, HandleEndPreserves
<1>3. events > 0
  <2>1. timeSlot = "taken" /\ read \in 0..Len(input)
    BY <1>1, <1>2 DEF Started, TypeOK
  <2>2. read # 0
    BY <1>2, <2>1 DEF Started
  <2>3. QED
    BY <1>2, <2>1, <2>2
<1>4. HasTimeDriven => DeadlineTime(deadlines) > input[events]
  <2>1. SUFFICES ASSUME HasTimeDriven
                 PROVE  DeadlineTime(deadlines) > input[events]
    OBVIOUS
  <2>2. currentTime # nextDeadline
    BY <1>1, <2>1 DEF DeadlineFirst
  <2>3. /\ currentTime <= nextDeadline /\ currentTime = input[events]
        /\ nextDeadline = DeadlineTime(deadlines)
    BY <1>2, <1>3, <2>1 DEF Clock
  <2>4. currentTime \in Nat /\ nextDeadline \in Nat
    BY <1>2 DEF TypeOK
  <2>5. QED
    BY <2>2, <2>3, <2>4
<1>5. (ctl' \in {"join", "done"}) = TRUE /\ ~(ctl \in {"join", "done"})
  BY <1>1
<1>6. QED
  BY <1>1, <1>2, <1>3, <1>4, <1>5, SameDeadlines DEF Timeline!Finish

(***************************************************************************)
(* What an offline run evaluates, in which order and at which times, does  *)
(* not depend on its threads, batches and channels: it is what             *)
(* EvaluationTimeline says.                                                *)
(***************************************************************************)
THEOREM Implementation == Spec => ImplementsTimeline
<1>1. Init => Timeline!Init
  <2> SUFFICES ASSUME Init PROVE Timeline!Init
    OBVIOUS
  <2>1. (ctl \in {"join", "done"}) = FALSE
    BY DEF Init
  <2>2. QED
    BY <2>1 DEF Init, Timeline!Init
<1>2. IInv /\ [Next]_vars => [Timeline!Next]_(Timeline!vars)
  <2> SUFFICES ASSUME IInv, [Next]_vars
               PROVE  Timeline!Next \/ UNCHANGED Timeline!vars
    OBVIOUS
  <2>1. CASE EDM
    <3>1. UNCHANGED <<input, evalVars>>
      BY <2>1 DEF EDM, ReadEvent, ReadEnd, SendLocalQueue, SourcePanics,
         SourceExits
    <3>2. (ctl' \in {"join", "done"}) <=> (ctl \in {"join", "done"})
      <4>1. CASE SourceExits
        <5>1. edm = "fill" /\ ctl' = "exited"
          BY <4>1 DEF SourceExits
        <5>2. ~(ctl \in {"join", "done"})
          BY <5>1 DEF IInv, Phases
        <5>3. QED
          BY <5>1, <5>2
      <4>2. CASE ~SourceExits
        <5>1. ctl' = ctl
          BY <2>1, <4>2 DEF EDM, ReadEvent, ReadEnd, SendLocalQueue,
             SourcePanics, ctlVars
        <5>2. QED
          BY <5>1
      <4>3. QED
        BY <4>1, <4>2
    <3>3. QED
      BY <3>1, <3>2, QuietStep
  <2>2. CASE ReceiveStart \/ Setup \/ ReceiveLocalQueue
    <3>1. UNCHANGED <<input, evalVars>>
      BY <2>2 DEF ReceiveStart, Setup, ReceiveLocalQueue, Panic
    <3>2. ctl \in {"start", "setup", "recv"}
      BY <2>2 DEF ReceiveStart, Setup, ReceiveLocalQueue
    <3>3. ctl' \in {"setup", "recv", "failed", "handle", "panicked"}
      BY <2>2, FaultAssumption
      DEF ReceiveStart, Setup, ReceiveLocalQueue, Panic
    <3>4. (ctl' \in {"join", "done"}) <=> (ctl \in {"join", "done"})
      BY <3>2, <3>3
    <3>5. QED
      BY <3>1, <3>4, QuietStep
  <2>3. CASE ScheduleTimed
    BY <2>3, ScheduleTimedImplements DEF Timeline!Next
  <2>4. CASE HandleEvent
    BY <2>4, HandleEventImplements DEF Timeline!Next
  <2>5. CASE HandleEnd
    BY <2>5, HandleEndImplements DEF Timeline!Next
  <2>6. CASE Join
    <3>1. ctl' = "done" /\ ctl = "join"
      BY <2>6, JoinPreserves DEF Join
    <3>2. UNCHANGED <<input, evalVars>>
      BY <2>6 DEF Join, Panic
    <3>3. (ctl' \in {"join", "done"}) <=> (ctl \in {"join", "done"})
      BY <3>1
    <3>4. QED
      BY <3>2, <3>3, QuietStep
  <2>7. CASE UNCHANGED vars
    <3>1. UNCHANGED <<input, evalVars>> /\ ctl' = ctl
      BY <2>7 DEF vars, ctlVars, evalVars
    <3>2. (ctl' \in {"join", "done"}) <=> (ctl \in {"join", "done"})
      BY <3>1
    <3>3. QED
      BY <3>1, <3>2, QuietStep
  <2>8. QED
    BY <2>1, <2>2, <2>3, <2>4, <2>5, <2>6, <2>7 DEF Next, Ctl, Stopped
<1>3. QED
  BY <1>1, <1>2, Invariance, PTL
  DEF Spec, ImplementsTimeline, Timeline!Spec
=============================================================================

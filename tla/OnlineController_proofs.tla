------------------------ MODULE OnlineController_proofs ------------------------
(***************************************************************************)
(* Proofs about OnlineController, for every schedule and every number of   *)
(* events, with the clock running as long as it likes.                     *)
(***************************************************************************)
EXTENDS OnlineController, Deadlines_proofs, FiniteSetTheorems

Items == {EventItem(k) : k \in 1..NumEvents}
         \cup {TimeItem(i) : i \in 1..NumDeadlines} \cup {EndItem}

TypeOK ==
    /\ clock \in Nat
    /\ tdm \in {"none", "setup", "check", "wait", "dead"}
    /\ dueTime \in Nat /\ due \in 0..NumDeadlines /\ wakeAt \in Nat
    /\ edm \in {"run", "asleep", "dead"}
    /\ read \in 0..NumEvents
    /\ queue \in Seq(Items)
    /\ ctl \in {"run", "finished", "exited", "panicked"}
    /\ events \in Nat /\ deadlines \in Nat

InQueue(kind) == Ahead(kind, Len(queue) + 1)

(***************************************************************************)
(* The TDM knows the deadline after the last one it sent, counting those   *)
(* evaluated and those in the channel; what it sent was due.               *)
(***************************************************************************)
Sent == deadlines + InQueue("time")

TdmFollowsSchedule ==
    /\ tdm = "none" <=> ~HasTimeDriven
    /\ tdm \in {"none", "setup", "dead"} => Sent = 0
    /\ tdm = "setup" => dueTime = 0 /\ due = NumDeadlines
    /\ tdm = "check" =>
          /\ Sent > 0
          /\ due = PositionOf(Sent - 1) /\ dueTime = DeadlineTime(Sent - 1)
    /\ tdm = "wait" =>
          /\ due = PositionOf(Sent) /\ dueTime = DeadlineTime(Sent)
          /\ wakeAt >= dueTime

(***************************************************************************)
(* Every item carries the number its place in the channel gives it; no     *)
(* event was sent after End.                                               *)
(***************************************************************************)
EventsNumbered ==
    /\ read = events + InQueue("event")
    /\ \A k \in Pending("event") : queue[k].what = events + Ahead("event", k) + 1
    /\ \A k \in Pending("end") :
          /\ edm = "asleep" /\ read = NumEvents
          /\ \A i \in Pending("event") : i < k

DeadlineSide ==
    /\ TdmFollowsSchedule
    /\ last.kind = "time" => deadlines > 0
    /\ DeadlinesInOrder
    /\ NeverEarly

EventSide == EventsNumbered /\ FinishedIsComplete

IInv == TypeOK /\ DeadlineSide /\ EventSide

-----------------------------------------------------------------------------
(* Counting the items of a kind ahead of a position of a queue.            *)

OfKind(q, kind, k) == {i \in 1..k - 1 : q[i].kind = kind}
CountAhead(q, kind, k) == Cardinality(OfKind(q, kind, k))

LEMMA CountType ==
    ASSUME NEW q, NEW kind, NEW k \in Nat
    PROVE  IsFiniteSet(OfKind(q, kind, k)) /\ CountAhead(q, kind, k) \in Nat
<1>1. IsFiniteSet(1..k - 1)
  BY FS_Interval
<1>2. OfKind(q, kind, k) \in SUBSET (1..k - 1)
  BY DEF OfKind
<1>3. IsFiniteSet(OfKind(q, kind, k))
  BY <1>1, <1>2, FS_Subset
<1>4. QED
  BY <1>3, FS_CardinalityType DEF CountAhead

LEMMA CountNone ==
    ASSUME NEW q, NEW kind, NEW k \in Nat,
           \A i \in 1..k - 1 : q[i].kind # kind
    PROVE  CountAhead(q, kind, k) = 0
<1>1. OfKind(q, kind, k) = {}
  BY DEF OfKind
<1>2. QED
  BY <1>1, FS_EmptySet DEF CountAhead

LEMMA CountNext ==
    ASSUME NEW q, NEW kind, NEW k \in Nat \ {0}
    PROVE  CountAhead(q, kind, k + 1) =
              CountAhead(q, kind, k) + (IF q[k].kind = kind THEN 1 ELSE 0)
<1> DEFINE S == OfKind(q, kind, k)
<1>0. k \notin S
  BY DEF OfKind
<1>1. IsFiniteSet(S) /\ Cardinality(S) \in Nat
  BY CountType DEF CountAhead
<1>2. CASE q[k].kind = kind
  <2>1. OfKind(q, kind, k + 1) = S \cup {k}
    BY <1>2 DEF OfKind
  <2>2. Cardinality(S \cup {k}) = Cardinality(S) + 1
    BY <1>0, <1>1, FS_AddElement
  <2>3. QED
    BY <1>2, <2>1, <2>2 DEF CountAhead
<1>3. CASE q[k].kind # kind
  <2>1. OfKind(q, kind, k + 1) = S
    BY <1>3 DEF OfKind
  <2>2. CountAhead(q, kind, k + 1) = CountAhead(q, kind, k)
    BY <2>1 DEF CountAhead
  <2>3. CountAhead(q, kind, k) \in Nat
    BY CountType
  <2>4. QED
    BY <1>3, <2>2, <2>3
<1>4. QED
  BY <1>2, <1>3

LEMMA CountAppended ==
    ASSUME NEW q \in Seq(Items), NEW e \in Items, NEW kind,
           NEW k \in 1..Len(q) + 1
    PROVE  CountAhead(Append(q, e), kind, k) = CountAhead(q, kind, k)
<1>1. \A i \in 1..k - 1 : Append(q, e)[i] = q[i]
  OBVIOUS
<1>2. OfKind(Append(q, e), kind, k) = OfKind(q, kind, k)
  BY <1>1 DEF OfKind
<1>3. QED
  BY <1>2 DEF CountAhead

LEMMA CountAllAppended ==
    ASSUME NEW q \in Seq(Items), NEW e \in Items, NEW kind
    PROVE  CountAhead(Append(q, e), kind, Len(Append(q, e)) + 1) =
              CountAhead(q, kind, Len(q) + 1)
                 + (IF e.kind = kind THEN 1 ELSE 0)
<1> DEFINE r == Append(q, e)
           n == Len(q) + 1
<1>1. n \in Nat \ {0}
  OBVIOUS
<1>2. Len(r) = n /\ r[n] = e /\ n \in 1..n
  OBVIOUS
<1>3. CountAhead(r, kind, n) = CountAhead(q, kind, n)
  BY <1>2, CountAppended
<1> HIDE DEF n, r
<1>4. CountAhead(r, kind, n + 1) =
         CountAhead(r, kind, n) + (IF r[n].kind = kind THEN 1 ELSE 0)
  BY ONLY <1>1, CountNext
<1>5. CountAhead(r, kind, Len(r) + 1) =
         CountAhead(q, kind, n) + (IF e.kind = kind THEN 1 ELSE 0)
  BY <1>2, <1>3, <1>4
<1>6. QED
  BY <1>5 DEF n, r

(***************************************************************************)
(* Without its head, a queue has every item one place further to the       *)
(* front: counting starts one item later.                                  *)
(***************************************************************************)
LEMMA CountTail ==
    ASSUME NEW T, NEW q \in Seq(T), q # <<>>, NEW kind, NEW k \in 1..Len(q)
    PROVE  CountAhead(q, kind, k + 1) =
              CountAhead(Tail(q), kind, k)
                 + (IF Head(q).kind = kind THEN 1 ELSE 0)
<1> DEFINE S == OfKind(Tail(q), kind, k)
           U == {i \in 2..k : q[i].kind = kind}
           f == [i \in S |-> i + 1]
<1>1. IsFiniteSet(S) /\ Cardinality(S) \in Nat
  BY CountType DEF CountAhead
<1>2. \A i \in 1..k - 1 : Tail(q)[i] = q[i + 1]
  OBVIOUS
<1>3. f \in Bijection(S, U)
  <2>1. \A i \in S : i \in 1..k - 1 /\ Tail(q)[i].kind = kind
    BY DEF OfKind
  <2>2. f \in [S -> U]
    BY <1>2, <2>1
  <2>3. \A i, j \in S : f[i] = f[j] => i = j
    BY <2>1
  <2>4. ASSUME NEW u \in U PROVE \E i \in S : f[i] = u
    <3>1. u - 1 \in 1..k - 1 /\ (u - 1) + 1 = u
      OBVIOUS
    <3>2. u - 1 \in S
      BY <1>2, <3>1 DEF OfKind
    <3>3. QED
      BY <3>1, <3>2
  <2>5. QED
    BY <2>2, <2>3, <2>4
    DEF Bijection, Injection, Surjection, IsInjective
<1>4. IsFiniteSet(U) /\ Cardinality(U) = Cardinality(S)
  <2>1. ExistsBijection(S, U)
    BY <1>3 DEF ExistsBijection
  <2>2. QED
    BY <1>1, <2>1, FS_Bijection
<1>5. 1 \notin U /\ Head(q) = q[1]
  OBVIOUS
<1>6. CASE Head(q).kind = kind
  <2>1. OfKind(q, kind, k + 1) = U \cup {1}
    BY <1>5, <1>6 DEF OfKind
  <2>2. Cardinality(U \cup {1}) = Cardinality(U) + 1
    BY <1>4, <1>5, FS_AddElement
  <2>3. QED
    BY <1>4, <1>6, <2>1, <2>2 DEF CountAhead
<1>7. CASE Head(q).kind # kind
  <2>1. OfKind(q, kind, k + 1) = U
    BY <1>5, <1>7 DEF OfKind
  <2>2. CountAhead(q, kind, k + 1) = CountAhead(Tail(q), kind, k)
    BY <1>4, <2>1 DEF CountAhead
  <2>3. QED
    BY <1>7, <2>2, CountType
<1>8. QED
  BY <1>6, <1>7

-----------------------------------------------------------------------------
(* The channel as its ends see it.                                         *)

LEMMA ConstantTypes == NumEvents \in Nat /\ NumDeadlines \in Nat
  BY OnlineAssumption, DeadlinesAssumption DEF NumDeadlines

LEMMA AheadCounts ==
    /\ \A kind, k : Ahead(kind, k) = CountAhead(queue, kind, k)
    /\ \A kind, k : Ahead(kind, k)' = CountAhead(queue', kind, k)
    /\ \A kind : InQueue(kind) = CountAhead(queue, kind, Len(queue) + 1)
    /\ \A kind : InQueue(kind)' = CountAhead(queue', kind, Len(queue') + 1)
  BY DEF Ahead, InQueue, CountAhead, OfKind

LEMMA CountsAreNumbers ==
    ASSUME TypeOK
    PROVE  /\ \A kind : InQueue(kind) \in Nat
           /\ \A kind : \A k \in Nat : Ahead(kind, k) \in Nat
           /\ Sent \in Nat
<1>1. Len(queue) + 1 \in Nat /\ deadlines \in Nat
  BY DEF TypeOK
<1>2. \A kind : InQueue(kind) \in Nat
  BY <1>1, AheadCounts, CountType
<1>3. \A kind : \A k \in Nat : Ahead(kind, k) \in Nat
  BY AheadCounts, CountType
<1>4. QED
  BY <1>1, <1>2, <1>3 DEF Sent

LEMMA NextCountsAreNumbers ==
    ASSUME queue' \in Seq(Items), NEW kind
    PROVE  /\ InQueue(kind)' \in Nat
           /\ \A k \in Nat : Ahead(kind, k)' \in Nat
<1>1. Len(queue') + 1 \in Nat
  OBVIOUS
<1>2. InQueue(kind)' \in Nat
  BY <1>1, AheadCounts, CountType
<1>3. \A k \in Nat : Ahead(kind, k)' \in Nat
  BY AheadCounts, CountType
<1>4. QED
  BY <1>2, <1>3

LEMMA ItemKinds ==
    ASSUME NEW item \in Items
    PROVE  /\ item.kind \in {"event", "time", "end"}
           /\ item.kind = "end" => item = EndItem
           /\ item = EndItem => item.kind = "end"
  BY DEF Items, EventItem, TimeItem, EndItem

LEMMA PendingTypes ==
    ASSUME TypeOK, NEW kind, NEW k \in Pending(kind)
    PROVE  /\ k \in Nat /\ queue[k] \in Items /\ queue[k].kind = kind
           /\ Ahead(kind, k) \in Nat
           /\ kind = "time" => HasTimeDriven
<1>1. k \in Nat /\ queue[k] \in Items /\ queue[k].kind = kind
  BY DEF TypeOK, Pending
<1>2. Ahead(kind, k) \in Nat
  BY <1>1, CountsAreNumbers
<1>3. ASSUME kind = "time" PROVE HasTimeDriven
  <2>1. \E i \in 1..NumDeadlines : queue[k] = TimeItem(i)
    BY <1>1, <1>3 DEF Items, EventItem, EndItem
  <2>2. QED
    BY <2>1, ConstantTypes DEF HasTimeDriven
<1>4. QED
  BY <1>1, <1>2, <1>3

LEMMA CountedIsPending ==
    ASSUME TypeOK, NEW kind, InQueue(kind) = 0
    PROVE  Pending(kind) = {}
<1>1. Len(queue) + 1 \in Nat
  BY DEF TypeOK
<1>2. IsFiniteSet(OfKind(queue, kind, Len(queue) + 1))
  BY <1>1, CountType
<1>3. OfKind(queue, kind, Len(queue) + 1) = {}
  BY <1>2, AheadCounts, FS_EmptySet DEF CountAhead
<1>4. (Len(queue) + 1) - 1 = Len(queue)
  BY <1>1
<1>5. QED
  BY <1>3, <1>4 DEF OfKind, Pending

LEMMA PendingDeadline ==
    ASSUME TypeOK, NEW k \in Pending("time")
    PROVE  /\ HasTimeDriven /\ deadlines + Ahead("time", k) \in Nat
           /\ DeadlineTime(deadlines + Ahead("time", k)) \in Nat
<1>1. HasTimeDriven /\ Ahead("time", k) \in Nat /\ deadlines \in Nat
  BY PendingTypes DEF TypeOK
<1>2. deadlines + Ahead("time", k) \in Nat
  BY <1>1
<1>3. QED
  BY <1>1, <1>2, DeadlineTypes

LEMMA QueueStays ==
    ASSUME UNCHANGED queue
    PROVE  /\ \A kind : Pending(kind)' = Pending(kind)
           /\ \A kind, k : Ahead(kind, k)' = Ahead(kind, k)
           /\ \A kind : InQueue(kind)' = InQueue(kind)
  BY DEF Pending, Ahead, InQueue

LEMMA AppendCounted ==
    ASSUME queue \in Seq(Items), NEW item \in Items,
           queue' = Append(queue, item), NEW kind
    PROVE  InQueue(kind)' = InQueue(kind) + (IF item.kind = kind THEN 1 ELSE 0)
<1>1. CountAhead(queue', kind, Len(queue') + 1) =
         CountAhead(queue, kind, Len(queue) + 1)
            + (IF item.kind = kind THEN 1 ELSE 0)
  BY CountAllAppended
<1>2. QED
  BY <1>1, AheadCounts

LEMMA AppendPending ==
    ASSUME queue \in Seq(Items), NEW item \in Items,
           queue' = Append(queue, item), NEW kind, NEW k \in Pending(kind)'
    PROVE  \/ /\ k \in Pending(kind) /\ queue'[k] = queue[k]
              /\ Ahead(kind, k)' = Ahead(kind, k)
           \/ /\ k = Len(queue) + 1 /\ queue'[k] = item /\ item.kind = kind
              /\ Ahead(kind, k)' = InQueue(kind)
<1> DEFINE n == Len(queue) + 1
<1>1. Len(queue') = n /\ queue'[n] = item /\ k \in 1..n /\ queue'[k].kind = kind
  BY DEF Pending
<1>2. Ahead(kind, k)' = Ahead(kind, k)
  <2>1. CountAhead(queue', kind, k) = CountAhead(queue, kind, k)
    BY <1>1, CountAppended
  <2>2. QED
    BY <2>1, AheadCounts
<1>3. CASE k \in 1..Len(queue)
  <2>1. queue'[k] = queue[k]
    BY <1>3
  <2>2. k \in Pending(kind)
    BY <1>1, <1>3, <2>1 DEF Pending
  <2>3. QED
    BY <1>2, <2>1, <2>2
<1>4. CASE k = n
  <2>1. Ahead(kind, k) = InQueue(kind)
    BY <1>4 DEF InQueue
  <2>2. QED
    BY <1>1, <1>2, <1>4, <2>1
<1>5. QED
  BY <1>1, <1>3, <1>4

LEMMA HeadPending ==
    ASSUME queue \in Seq(Items), queue # <<>>
    PROVE  /\ Head(queue) \in Items /\ Head(queue) = queue[1]
           /\ 1 \in Pending(Head(queue).kind)
           /\ \A kind : Ahead(kind, 1) = 0
<1>1. Len(queue) \in Nat \ {0} /\ Head(queue) = queue[1] /\ Head(queue) \in Items
  OBVIOUS
<1>2. 1 \in Pending(Head(queue).kind)
  BY <1>1 DEF Pending
<1>3. ASSUME NEW kind PROVE Ahead(kind, 1) = 0
  <2>1. CountAhead(queue, kind, 1) = 0
    BY CountNone
  <2>2. QED
    BY <2>1, AheadCounts
<1>4. QED
  BY <1>1, <1>2, <1>3

LEMMA TailCounted ==
    ASSUME queue \in Seq(Items), queue # <<>>, queue' = Tail(queue), NEW kind
    PROVE  InQueue(kind) = InQueue(kind)'
              + (IF Head(queue).kind = kind THEN 1 ELSE 0)
<1> DEFINE n == Len(queue)
<1>1. n \in 1..n /\ Len(queue') + 1 = n
  OBVIOUS
<1>2. CountAhead(queue, kind, n + 1) = CountAhead(queue', kind, n)
         + (IF Head(queue).kind = kind THEN 1 ELSE 0)
  BY <1>1, CountTail
<1>3. CountAhead(queue', kind, Len(queue') + 1) = CountAhead(queue', kind, n)
  BY <1>1
<1>4. QED
  BY <1>2, <1>3, AheadCounts

LEMMA TailPending ==
    ASSUME queue \in Seq(Items), queue # <<>>, queue' = Tail(queue), NEW kind,
           NEW k \in Pending(kind)'
    PROVE  /\ k \in Nat /\ k + 1 \in Pending(kind) /\ queue'[k] = queue[k + 1]
           /\ Ahead(kind, k + 1) = Ahead(kind, k)'
                 + (IF Head(queue).kind = kind THEN 1 ELSE 0)
<1>1. k \in 1..Len(queue) - 1 /\ queue'[k].kind = kind
  BY DEF Pending
<1>2. k + 1 \in 1..Len(queue) /\ k \in 1..Len(queue) /\ queue'[k] = queue[k + 1]
  BY <1>1
<1>3. k \in Nat /\ k + 1 \in Pending(kind)
  BY <1>1, <1>2 DEF Pending
<1>4. CountAhead(queue, kind, k + 1) = CountAhead(queue', kind, k)
         + (IF Head(queue).kind = kind THEN 1 ELSE 0)
  BY <1>2, CountTail
<1>5. QED
  BY <1>2, <1>3, <1>4, AheadCounts

-----------------------------------------------------------------------------
LEMMA InitIInv == Init => IInv
<1> SUFFICES ASSUME Init PROVE IInv
  OBVIOUS
<1>1. TypeOK
  BY ConstantTypes DEF Init, TypeOK
<1>2. queue = <<>> /\ Len(queue) = 0 /\ deadlines = 0 /\ events = 0 /\ read = 0
  BY DEF Init
<1>3. \A kind : InQueue(kind) = 0 /\ Pending(kind) = {}
  <2>1. \A kind : CountAhead(queue, kind, 1) = 0
    BY CountNone
  <2>2. QED
    BY <1>2, <2>1, AheadCounts DEF Pending
<1>4. DeadlineSide
  <2>1. Sent = 0
    BY <1>2, <1>3 DEF Sent
  <2>2. last.kind = "none"
    BY DEF Init, NoCycle
  <2>3. TdmFollowsSchedule
    BY <2>1 DEF Init, TdmFollowsSchedule
  <2>4. QED
    BY <1>3, <2>2, <2>3 DEF DeadlineSide, DeadlinesInOrder, NeverEarly
<1>5. EventSide
  <2>1. last.kind = "none" /\ ctl = "run"
    BY DEF Init, NoCycle
  <2>2. QED
    BY <1>2, <1>3, <2>1 DEF EventSide, EventsNumbered, FinishedIsComplete
<1>6. QED
  BY <1>1, <1>4, <1>5 DEF IInv

-----------------------------------------------------------------------------
(* Steps that leave one side alone.                                        *)

(***************************************************************************)
(* Nothing sent or taken on the side of the deadlines: time may pass, and  *)
(* the EDM may append its items.                                           *)
(***************************************************************************)
LEMMA DeadlineSideStays ==
    ASSUME TypeOK, DeadlineSide, clock' \in Nat, clock' >= clock,
           UNCHANGED <<tdmVars, deadlines, last>>,
           \/ UNCHANGED queue
           \/ \E item \in Items :
                 item.kind # "time" /\ queue' = Append(queue, item)
    PROVE  DeadlineSide'
<1>1. /\ InQueue("time")' = InQueue("time")
      /\ \A k \in Pending("time")' :
            /\ k \in Pending("time") /\ queue'[k] = queue[k]
            /\ Ahead("time", k)' = Ahead("time", k)
  <2>1. CASE UNCHANGED queue
    BY <2>1, QueueStays
  <2>2. ASSUME NEW item \in Items, item.kind # "time", queue' = Append(queue, item)
        PROVE  <1>1!:
    <3>1. queue \in Seq(Items) /\ InQueue("time") \in Nat
      BY CountsAreNumbers DEF TypeOK
    <3>2. InQueue("time")' = InQueue("time")
      BY <2>2, <3>1, AppendCounted
    <3>3. QED
      BY <2>2, <3>1, <3>2, AppendPending
  <2>3. QED
    BY <2>1, <2>2
<1>2. Sent' = Sent
  BY <1>1 DEF Sent
<1>3. TdmFollowsSchedule'
  BY <1>2 DEF DeadlineSide, TdmFollowsSchedule, tdmVars
<1>4. DeadlinesInOrder'
  BY <1>1 DEF DeadlineSide, DeadlinesInOrder
<1>5. NeverEarly'
  <2>1. ASSUME NEW k \in Pending("time")'
        PROVE  clock' >= DeadlineTime(deadlines + Ahead("time", k)')
    <3>1. clock >= DeadlineTime(deadlines + Ahead("time", k))
      BY <1>1 DEF DeadlineSide, NeverEarly
    <3>2. DeadlineTime(deadlines + Ahead("time", k)) \in Nat
      BY <1>1, PendingDeadline
    <3>3. QED
      BY <1>1, <3>1, <3>2 DEF TypeOK
  <2>2. QED
    BY <2>1 DEF DeadlineSide, NeverEarly
<1>6. QED
  BY <1>3, <1>4, <1>5 DEF DeadlineSide

(***************************************************************************)
(* Nothing sent or taken on the side of the events: the TDM may append its *)
(* items, and the EDM stop without having sent End.                        *)
(***************************************************************************)
LEMMA EventSideStays ==
    ASSUME TypeOK, EventSide, UNCHANGED <<read, events, last>>,
           edm' = edm \/ edm = "run",
           ctl' = ctl \/ ctl' # "finished",
           \/ UNCHANGED queue
           \/ \E i \in 1..NumDeadlines : queue' = Append(queue, TimeItem(i))
    PROVE  EventSide'
<1>1. /\ InQueue("event")' = InQueue("event")
      /\ \A kind \in {"event", "end"} : \A k \in Pending(kind)' :
            /\ k \in Pending(kind) /\ queue'[k] = queue[k]
            /\ Ahead(kind, k)' = Ahead(kind, k)
  <2>1. CASE UNCHANGED queue
    BY <2>1, QueueStays
  <2>2. ASSUME NEW i \in 1..NumDeadlines, queue' = Append(queue, TimeItem(i))
        PROVE  <1>1!:
    <3>1. queue \in Seq(Items) /\ InQueue("event") \in Nat
      BY CountsAreNumbers DEF TypeOK
    <3>2. TimeItem(i) \in Items /\ TimeItem(i).kind = "time"
      BY DEF Items, TimeItem
    <3>3. InQueue("event")' = InQueue("event")
      BY <2>2, <3>1, <3>2, AppendCounted
    <3>4. ASSUME NEW kind \in {"event", "end"}, NEW k \in Pending(kind)'
          PROVE  /\ k \in Pending(kind) /\ queue'[k] = queue[k]
                 /\ Ahead(kind, k)' = Ahead(kind, k)
      BY <2>2, <3>1, <3>2, <3>4, AppendPending
    <3>5. QED
      BY <3>3, <3>4
  <2>3. QED
    BY <2>1, <2>2
<1>2. ASSUME NEW k \in Pending("end")'
      PROVE  edm' = "asleep" /\ read' = NumEvents /\ \A i \in Pending("event")' : i < k
  <2>1. k \in Pending("end") /\ \A i \in Pending("event")' : i \in Pending("event")
    BY <1>1
  <2>2. edm = "asleep" /\ read = NumEvents /\ \A i \in Pending("event") : i < k
    BY <2>1 DEF EventSide, EventsNumbered
  <2>3. QED
    BY <2>1, <2>2
<1>3. EventsNumbered'
  BY <1>1, <1>2 DEF EventSide, EventsNumbered
<1>4. FinishedIsComplete'
  BY DEF EventSide, FinishedIsComplete
<1>5. QED
  BY <1>3, <1>4 DEF EventSide

-----------------------------------------------------------------------------
(* The TDM.                                                                *)

LEMMA StartPreserves ==
    ASSUME IInv, Start
    PROVE  IInv'
<1>1. TypeOK /\ DeadlineSide /\ EventSide /\ TdmFollowsSchedule /\ HasTimeDriven
  BY DEF IInv, DeadlineSide, TdmFollowsSchedule, Start
<1> DEFINE item == TimeItem(NumDeadlines)
<1>2. item \in Items /\ item.kind = "time" /\ item.what = DueStreams[NumDeadlines]
  BY <1>1, ConstantTypes DEF Items, TimeItem, HasTimeDriven
<1>3. /\ UNCHANGED <<clock, dueTime, due, wakeAt, edm, read, ctl, events, deadlines, last>>
      /\ tdm = "setup" /\ tdm' \in {"check", "dead"}
      /\ queue' = IF tdm' = "check" THEN Append(queue, item) ELSE queue
  BY OnlineAssumption DEF Start, edmVars, ctlVars
<1>4. queue \in Seq(Items)
  BY <1>1 DEF TypeOK
<1>5. TypeOK'
  BY <1>1, <1>2, <1>3, <1>4 DEF TypeOK
<1>6. EventSide'
  <2>1. queue' = queue \/ \E i \in 1..NumDeadlines : queue' = Append(queue, TimeItem(i))
    BY <1>1, <1>3, ConstantTypes DEF HasTimeDriven
  <2>2. QED
    BY <1>1, <1>3, <2>1, EventSideStays
<1>7. Sent = 0 /\ deadlines = 0 /\ InQueue("time") = 0
  <2>1. Sent = 0
    BY <1>1, <1>3 DEF TdmFollowsSchedule
  <2>2. deadlines \in Nat /\ InQueue("time") \in Nat
    BY <1>1, CountsAreNumbers DEF TypeOK
  <2>3. QED
    BY <2>1, <2>2 DEF Sent
<1>8. DeadlineSide'
  <2>1. CASE tdm' = "dead"
    <3>1. UNCHANGED queue
      BY <1>3, <2>1
    <3>2. Sent' = Sent
      BY <1>3, <3>1, QueueStays DEF Sent
    <3>3. TdmFollowsSchedule'
      BY <1>1, <1>3, <1>7, <2>1, <3>2 DEF TdmFollowsSchedule
    <3>4. DeadlinesInOrder' /\ NeverEarly' /\ (last'.kind = "time" => deadlines' > 0)
      BY <1>1, <1>3, <3>1, QueueStays DEF DeadlineSide, DeadlinesInOrder, NeverEarly
    <3>5. QED
      BY <3>3, <3>4 DEF DeadlineSide
  <2>2. CASE tdm' = "check"
    <3>1. queue' = Append(queue, item)
      BY <1>3, <2>2
    <3>2. InQueue("time")' = 1
      BY <1>2, <1>4, <1>7, <3>1, AppendCounted
    <3>3. Sent' = 1 /\ Sent' - 1 = 0
      BY <1>3, <1>7, <3>2 DEF Sent
    <3>4. PositionOf(0) = NumDeadlines /\ DeadlineTime(0) = 0
      BY DEF PositionOf, DeadlineTime
    <3>5. TdmFollowsSchedule'
      BY <1>1, <1>3, <2>2, <3>3, <3>4 DEF TdmFollowsSchedule
    <3>6. ASSUME NEW k \in Pending("time")'
          PROVE  /\ queue'[k].what = DueAt(deadlines' + Ahead("time", k)')
                 /\ clock' >= DeadlineTime(deadlines' + Ahead("time", k)')
      <4>1. Pending("time") = {}
        BY <1>1, <1>7, CountedIsPending
      <4>2. k = Len(queue) + 1 /\ queue'[k] = item /\ Ahead("time", k)' = 0
        BY <1>2, <1>4, <1>7, <3>1, <4>1, AppendPending
      <4>3. QED
        BY <1>1, <1>2, <1>3, <1>7, <3>4, <4>2 DEF DueAt, TypeOK
    <3>7. QED
      BY <1>1, <1>3, <3>5, <3>6 DEF DeadlineSide, DeadlinesInOrder, NeverEarly
  <2>3. QED
    BY <1>3, <2>1, <2>2
<1>9. QED
  BY <1>5, <1>6, <1>8 DEF IInv

LEMMA CheckClockPreserves ==
    ASSUME IInv, CheckClock
    PROVE  IInv'
<1>1. TypeOK /\ DeadlineSide /\ EventSide /\ TdmFollowsSchedule /\ HasTimeDriven
  BY DEF IInv, DeadlineSide, TdmFollowsSchedule, CheckClock
<1>2. /\ UNCHANGED <<clock, edm, read, queue, ctl, events, deadlines, last>>
      /\ tdm = "check" /\ tdm' = "wait"
      /\ due' = NextInCycle(due)
      /\ dueTime' = dueTime + Pause(NextInCycle(due))
      /\ wakeAt' = IF clock < dueTime' THEN clock + (dueTime' - clock) ELSE clock
  BY DEF CheckClock, edmVars, ctlVars
<1> DEFINE j == Sent - 1
<1>3. j \in Nat /\ j + 1 = Sent /\ due = PositionOf(j) /\ dueTime = DeadlineTime(j)
  BY <1>1, <1>2, CountsAreNumbers DEF TdmFollowsSchedule
<1> HIDE DEF j
<1>4. due' = PositionOf(Sent) /\ dueTime' = DeadlineTime(Sent)
  <2>1. /\ PositionOf(j + 1) = NextInCycle(PositionOf(j))
        /\ DeadlineTime(j + 1) = DeadlineTime(j) + Pause(PositionOf(j + 1))
    BY <1>1, <1>3, CycleFollowsSchedule
  <2>2. QED
    BY <1>2, <1>3, <2>1
<1>5. due' \in 1..NumDeadlines /\ dueTime' \in Nat
  BY <1>1, <1>4, CountsAreNumbers, DeadlineTypes
<1>6. wakeAt' \in Nat /\ wakeAt' >= dueTime'
  BY <1>1, <1>2, <1>5 DEF TypeOK
<1>7. TypeOK'
  BY <1>1, <1>2, <1>5, <1>6, ConstantTypes DEF TypeOK
<1>8. EventSide'
  BY <1>1, <1>2, EventSideStays
<1>9. DeadlineSide'
  <2>1. Sent' = Sent
    BY <1>2, QueueStays DEF Sent
  <2>2. TdmFollowsSchedule'
    BY <1>1, <1>2, <1>4, <1>6, <2>1 DEF TdmFollowsSchedule
  <2>3. DeadlinesInOrder' /\ NeverEarly' /\ (last'.kind = "time" => deadlines' > 0)
    BY <1>1, <1>2, QueueStays DEF DeadlineSide, DeadlinesInOrder, NeverEarly
  <2>4. QED
    BY <2>2, <2>3 DEF DeadlineSide
<1>10. QED
  BY <1>7, <1>8, <1>9 DEF IInv

LEMMA SendDeadlinePreserves ==
    ASSUME IInv, SendDeadline
    PROVE  IInv'
<1>1. TypeOK /\ DeadlineSide /\ EventSide /\ TdmFollowsSchedule /\ HasTimeDriven
  BY DEF IInv, DeadlineSide, TdmFollowsSchedule, SendDeadline
<1> DEFINE item == TimeItem(due)
<1>2. /\ UNCHANGED <<clock, dueTime, due, wakeAt, edm, read, ctl, events, deadlines, last>>
      /\ tdm = "wait" /\ tdm' = "check" /\ clock >= wakeAt
      /\ queue' = Append(queue, item)
  BY DEF SendDeadline, edmVars, ctlVars
<1>3. /\ due = PositionOf(Sent) /\ dueTime = DeadlineTime(Sent) /\ wakeAt >= dueTime
      /\ Sent \in Nat /\ Sent = deadlines + InQueue("time")
      /\ deadlines \in Nat /\ InQueue("time") \in Nat
  BY <1>1, <1>2, CountsAreNumbers DEF TdmFollowsSchedule, TypeOK, Sent
<1>4. due \in 1..NumDeadlines
  BY <1>1, <1>3, DeadlineTypes
<1>5. /\ item \in Items /\ item.kind = "time" /\ item.what = DueAt(Sent)
      /\ queue \in Seq(Items)
  BY <1>1, <1>3, <1>4 DEF Items, TimeItem, DueAt, TypeOK
<1>6. TypeOK'
  BY <1>1, <1>2, <1>5 DEF TypeOK
<1>7. EventSide'
  <2>1. \E i \in 1..NumDeadlines : queue' = Append(queue, TimeItem(i))
    BY <1>2, <1>4
  <2>2. QED
    BY <1>1, <1>2, <2>1, EventSideStays
<1>8. DeadlineSide'
  <2>1. InQueue("time")' = InQueue("time") + 1
    BY <1>2, <1>5, AppendCounted
  <2>2. Sent' = Sent + 1 /\ Sent' > 0 /\ Sent' - 1 = Sent
    <3>1. Sent' = deadlines' + InQueue("time")'
      BY DEF Sent
    <3>2. QED
      BY <1>2, <1>3, <2>1, <3>1
  <2>3. TdmFollowsSchedule'
    BY <1>1, <1>2, <1>3, <2>2 DEF TdmFollowsSchedule
  <2>4. ASSUME NEW k \in Pending("time")'
        PROVE  /\ queue'[k].what = DueAt(deadlines' + Ahead("time", k)')
               /\ clock' >= DeadlineTime(deadlines' + Ahead("time", k)')
    <3>1. CASE /\ k \in Pending("time") /\ queue'[k] = queue[k]
               /\ Ahead("time", k)' = Ahead("time", k)
      BY <1>1, <1>2, <3>1 DEF DeadlineSide, DeadlinesInOrder, NeverEarly
    <3>2. CASE /\ k = Len(queue) + 1 /\ queue'[k] = item
               /\ Ahead("time", k)' = InQueue("time")
      <4>1. deadlines' + Ahead("time", k)' = Sent
        BY <1>2, <1>3, <3>2
      <4>2. clock >= DeadlineTime(Sent)
        BY <1>1, <1>2, <1>3 DEF TypeOK
      <4>3. QED
        BY <1>2, <1>5, <3>2, <4>1, <4>2
    <3> HIDE DEF item
    <3>3. \/ /\ k \in Pending("time") /\ queue'[k] = queue[k]
             /\ Ahead("time", k)' = Ahead("time", k)
          \/ /\ k = Len(queue) + 1 /\ queue'[k] = item /\ item.kind = "time"
             /\ Ahead("time", k)' = InQueue("time")
      <4>1. queue \in Seq(Items) /\ item \in Items /\ queue' = Append(queue, item)
        BY <1>2, <1>5
      <4>2. QED
        BY <4>1, AppendPending
    <3>4. QED
      BY <3>1, <3>2, <3>3
  <2>5. QED
    BY <1>1, <1>2, <2>3, <2>4 DEF DeadlineSide, DeadlinesInOrder, NeverEarly
<1>9. QED
  BY <1>6, <1>7, <1>8 DEF IInv

-----------------------------------------------------------------------------
(* The EDM.                                                                *)

LEMMA SendEventPreserves ==
    ASSUME IInv, SendEvent
    PROVE  IInv'
<1>1. TypeOK /\ DeadlineSide /\ EventSide
  BY DEF IInv
<1> DEFINE item == EventItem(read + 1)
<1>2. /\ UNCHANGED <<clock, tdmVars, edm, ctl, events, deadlines, last>>
      /\ edm = "run" /\ read < NumEvents /\ read' = read + 1
      /\ queue' = Append(queue, item)
  BY DEF SendEvent, ctlVars
<1>3. read \in Nat /\ read + 1 \in 1..NumEvents /\ queue \in Seq(Items)
  BY <1>1, <1>2, ConstantTypes DEF TypeOK
<1>4. item \in Items /\ item.kind = "event" /\ item.what = read + 1
  BY <1>3 DEF Items, EventItem
<1>5. TypeOK'
  BY <1>1, <1>2, <1>3, <1>4, ConstantTypes DEF TypeOK, tdmVars
<1>6. DeadlineSide'
  BY <1>1, <1>2, <1>4, DeadlineSideStays DEF TypeOK
<1>7. EventSide'
  <2>1. InQueue("event")' = InQueue("event") + 1
    BY <1>2, <1>3, <1>4, AppendCounted
  <2>2. read = events + InQueue("event") /\ InQueue("event") \in Nat /\ events \in Nat
    BY <1>1, CountsAreNumbers DEF EventSide, EventsNumbered, TypeOK
  <2>3. read' = events' + InQueue("event")'
    BY <1>2, <2>1, <2>2
  <2>4. ASSUME NEW k \in Pending("event")'
        PROVE  queue'[k].what = events' + Ahead("event", k)' + 1
    <3>1. CASE /\ k \in Pending("event") /\ queue'[k] = queue[k]
               /\ Ahead("event", k)' = Ahead("event", k)
      BY <1>1, <1>2, <3>1 DEF EventSide, EventsNumbered
    <3>2. CASE /\ k = Len(queue) + 1 /\ queue'[k] = item
               /\ Ahead("event", k)' = InQueue("event")
      BY <1>2, <1>4, <2>2, <3>2
    <3> HIDE DEF item
    <3>3. \/ /\ k \in Pending("event") /\ queue'[k] = queue[k]
             /\ Ahead("event", k)' = Ahead("event", k)
          \/ /\ k = Len(queue) + 1 /\ queue'[k] = item
             /\ Ahead("event", k)' = InQueue("event")
      BY <1>2, <1>3, <1>4, AppendPending
    <3>4. QED
      BY <3>1, <3>2, <3>3
  <2>5. ASSUME NEW k \in Pending("end")' PROVE FALSE
    <3>1. k \in Pending("end")
      BY <1>2, <1>3, <1>4, AppendPending
    <3>2. QED
      BY <1>1, <1>2, <3>1 DEF EventSide, EventsNumbered
  <2>6. FinishedIsComplete'
    BY <1>1, <1>2 DEF EventSide, FinishedIsComplete
  <2>7. QED
    BY <2>3, <2>4, <2>5, <2>6 DEF EventSide, EventsNumbered
<1>8. QED
  BY <1>5, <1>6, <1>7 DEF IInv

LEMMA SendEndPreserves ==
    ASSUME IInv, SendEnd
    PROVE  IInv'
<1>1. TypeOK /\ DeadlineSide /\ EventSide
  BY DEF IInv
<1>2. /\ UNCHANGED <<clock, tdmVars, read, ctl, events, deadlines, last>>
      /\ edm = "run" /\ read = NumEvents /\ edm' = "asleep"
      /\ queue' = Append(queue, EndItem)
  BY DEF SendEnd, ctlVars
<1>3. EndItem \in Items /\ EndItem.kind = "end" /\ queue \in Seq(Items)
  BY <1>1 DEF Items, EndItem, TypeOK
<1>4. TypeOK'
  BY <1>1, <1>2, <1>3 DEF TypeOK, tdmVars
<1>5. DeadlineSide'
  BY <1>1, <1>2, <1>3, DeadlineSideStays DEF TypeOK
<1>6. EventSide'
  <2>1. InQueue("event")' = InQueue("event")
    <3>1. InQueue("event") \in Nat
      BY <1>1, CountsAreNumbers
    <3>2. QED
      BY <1>2, <1>3, <3>1, AppendCounted
  <2>2. ASSUME NEW k \in Pending("event")'
        PROVE  /\ k \in Pending("event") /\ queue'[k] = queue[k]
               /\ Ahead("event", k)' = Ahead("event", k)
    <3>1. ~(EndItem.kind = "event")
      BY <1>3
    <3>2. QED
      BY <1>2, <1>3, <3>1, AppendPending
  <2>3. ASSUME NEW k \in Pending("end")' PROVE \A i \in Pending("event")' : i < k
    <3>1. k \notin Pending("end")
      BY <1>1, <1>2 DEF EventSide, EventsNumbered
    <3>2. k = Len(queue) + 1
      BY <1>2, <1>3, <3>1, AppendPending
    <3>3. \A i \in Pending("event") : i < Len(queue) + 1
      BY <1>3 DEF Pending
    <3>4. QED
      BY <2>2, <3>2, <3>3
  <2>4. FinishedIsComplete'
    BY <1>1, <1>2 DEF EventSide, FinishedIsComplete
  <2>5. QED
    BY <1>1, <1>2, <2>1, <2>2, <2>3, <2>4 DEF EventSide, EventsNumbered
<1>7. QED
  BY <1>4, <1>5, <1>6 DEF IInv

LEMMA SourceStopsPreserves ==
    ASSUME IInv, SourcePanics \/ SourceExits
    PROVE  IInv'
<1>1. TypeOK /\ DeadlineSide /\ EventSide
  BY DEF IInv
<1>2. /\ UNCHANGED <<clock, tdmVars, read, queue, events, deadlines, last>>
      /\ edm' \in {edm, "dead"} /\ (edm' = edm \/ edm = "run")
      /\ ctl' \in {ctl, "exited"}
  BY DEF SourcePanics, SourceExits, edmVars, ctlVars
<1>3. TypeOK'
  BY <1>1, <1>2 DEF TypeOK, tdmVars
<1>4. DeadlineSide'
  BY <1>1, <1>2, DeadlineSideStays DEF TypeOK
<1>5. EventSide'
  BY <1>1, <1>2, EventSideStays
<1>6. QED
  BY <1>3, <1>4, <1>5 DEF IInv

-----------------------------------------------------------------------------
(* The main thread.                                                        *)

LEMMA EvaluatePreserves ==
    ASSUME IInv, Evaluate
    PROVE  IInv'
<1>1. TypeOK /\ DeadlineSide /\ EventSide
  BY DEF IInv
<1> DEFINE item == Head(queue)
<1>2. /\ UNCHANGED <<clock, tdmVars, edm, read, ctl>>
      /\ queue # <<>> /\ queue' = Tail(queue)
      /\ item.kind \in {"event", "time"}
      /\ last' = [kind |-> item.kind, what |-> item.what, at |-> clock]
      /\ item.kind = "event" => events' = events + 1 /\ deadlines' = deadlines
      /\ item.kind = "time" => deadlines' = deadlines + 1 /\ events' = events
  BY DEF Evaluate, edmVars
<1>3. queue \in Seq(Items) /\ queue' \in Seq(Items) /\ events \in Nat /\ deadlines \in Nat
  BY <1>1, <1>2 DEF TypeOK
<1>4. item = queue[1] /\ 1 \in Pending(item.kind) /\ \A kind : Ahead(kind, 1) = 0
  BY <1>2, <1>3, HeadPending
<1>5. TypeOK'
  BY <1>1, <1>2, <1>3 DEF TypeOK, tdmVars
<1>6. /\ InQueue("event") \in Nat /\ InQueue("time") \in Nat
      /\ InQueue("event")' \in Nat /\ InQueue("time")' \in Nat
  BY <1>1, <1>3, CountsAreNumbers, NextCountsAreNumbers
<1>7. DeadlineSide'
  <2>1. deadlines' + InQueue("time")' = deadlines + InQueue("time")
    BY <1>2, <1>3, <1>6, TailCounted
  <2>2. Sent' = Sent
    BY <2>1 DEF Sent
  <2>3. TdmFollowsSchedule'
    BY <1>1, <1>2, <2>2 DEF DeadlineSide, TdmFollowsSchedule, tdmVars
  <2>4. ASSUME NEW k \in Pending("time")'
        PROVE  /\ queue'[k].what = DueAt(deadlines' + Ahead("time", k)')
               /\ clock' >= DeadlineTime(deadlines' + Ahead("time", k)')
    <3>1. /\ k \in Nat /\ k + 1 \in Pending("time") /\ queue'[k] = queue[k + 1]
          /\ Ahead("time", k + 1) = Ahead("time", k)'
                + (IF item.kind = "time" THEN 1 ELSE 0)
      BY <1>2, <1>3, TailPending
    <3>2. Ahead("time", k)' \in Nat
      BY <1>3, <3>1, NextCountsAreNumbers
    <3>3. deadlines' + Ahead("time", k)' = deadlines + Ahead("time", k + 1)
      BY <1>2, <1>3, <3>1, <3>2
    <3>4. QED
      BY <1>1, <1>2, <3>1, <3>3 DEF DeadlineSide, DeadlinesInOrder, NeverEarly
  <2>5. ASSUME last'.kind = "time"
        PROVE  /\ deadlines' > 0 /\ last'.what = DueAt(deadlines' - 1)
               /\ last'.at >= DeadlineTime(deadlines' - 1)
    <3>1. item.kind = "time" /\ deadlines' > 0 /\ deadlines' - 1 = deadlines + Ahead("time", 1)
      BY <1>2, <1>3, <1>4, <2>5
    <3>2. /\ queue[1].what = DueAt(deadlines + Ahead("time", 1))
          /\ clock >= DeadlineTime(deadlines + Ahead("time", 1))
      BY <1>1, <1>4, <3>1 DEF DeadlineSide, DeadlinesInOrder, NeverEarly
    <3>3. QED
      BY <1>2, <1>4, <3>1, <3>2
  <2>6. QED
    BY <2>3, <2>4, <2>5 DEF DeadlineSide, DeadlinesInOrder, NeverEarly
<1>8. EventSide'
  <2>1. read' = events' + InQueue("event")'
    <3>1. read = events + InQueue("event")
      BY <1>1 DEF EventSide, EventsNumbered
    <3>2. QED
      BY <1>2, <1>3, <1>6, <3>1, TailCounted
  <2>2. ASSUME NEW k \in Pending("event")'
        PROVE  queue'[k].what = events' + Ahead("event", k)' + 1
    <3>1. /\ k \in Nat /\ k + 1 \in Pending("event") /\ queue'[k] = queue[k + 1]
          /\ Ahead("event", k + 1) = Ahead("event", k)'
                + (IF item.kind = "event" THEN 1 ELSE 0)
      BY <1>2, <1>3, TailPending
    <3>2. Ahead("event", k)' \in Nat
      BY <1>3, <3>1, NextCountsAreNumbers
    <3>3. events' + Ahead("event", k)' + 1 = events + Ahead("event", k + 1) + 1
      BY <1>2, <1>3, <3>1, <3>2
    <3>4. QED
      BY <1>1, <3>1, <3>3 DEF EventSide, EventsNumbered
  <2>3. ASSUME NEW k \in Pending("end")'
        PROVE  /\ edm' = "asleep" /\ read' = NumEvents
               /\ \A i \in Pending("event")' : i < k
    <3>1. k \in Nat /\ k + 1 \in Pending("end")
      BY <1>2, <1>3, TailPending
    <3>2. edm = "asleep" /\ read = NumEvents /\ \A i \in Pending("event") : i < k + 1
      BY <1>1, <3>1 DEF EventSide, EventsNumbered
    <3>3. ASSUME NEW i \in Pending("event")' PROVE i < k
      <4>1. i \in Nat /\ i + 1 \in Pending("event")
        BY <1>2, <1>3, TailPending
      <4>2. QED
        BY <3>1, <3>2, <4>1
    <3>4. QED
      BY <1>2, <3>2, <3>3
  <2>4. FinishedIsComplete'
    <3>1. ctl' = "run"
      BY <1>2 DEF Evaluate, Running
    <3>2. ASSUME last'.kind = "event" PROVE last'.what = events'
      <4>1. item.kind = "event" /\ events' = events + Ahead("event", 1) + 1
        BY <1>2, <1>3, <1>4, <3>2
      <4>2. queue[1].what = events + Ahead("event", 1) + 1
        BY <1>1, <1>4, <4>1 DEF EventSide, EventsNumbered
      <4>3. QED
        BY <1>2, <1>4, <4>1, <4>2
    <3>3. QED
      BY <3>1, <3>2 DEF FinishedIsComplete
  <2>5. QED
    BY <2>1, <2>2, <2>3, <2>4 DEF EventSide, EventsNumbered
<1>9. QED
  BY <1>5, <1>7, <1>8 DEF IInv

(***************************************************************************)
(* No event is behind End, and every event that was read is evaluated or   *)
(* in the channel: none is left when End is taken.                         *)
(***************************************************************************)
LEMMA FinishPreserves ==
    ASSUME IInv, Finish
    PROVE  IInv'
<1>1. TypeOK /\ DeadlineSide /\ EventSide
  BY DEF IInv
<1>2. /\ UNCHANGED <<clock, tdmVars, edm, read, events, deadlines, last>>
      /\ queue # <<>> /\ queue' = Tail(queue) /\ Head(queue) = EndItem
      /\ ctl' = "finished"
  BY DEF Finish, edmVars
<1>3. queue \in Seq(Items) /\ queue' \in Seq(Items) /\ EndItem.kind = "end"
  BY <1>1, <1>2 DEF TypeOK, EndItem
<1>4. TypeOK'
  BY <1>1, <1>2, <1>3 DEF TypeOK, tdmVars
<1>5. ASSUME NEW kind \in {"event", "time"}
      PROVE  InQueue(kind)' = InQueue(kind)
  <2>1. InQueue(kind)' \in Nat
    BY <1>3, NextCountsAreNumbers
  <2>2. QED
    BY <1>2, <1>3, <1>5, <2>1, TailCounted
<1>6. ASSUME NEW kind \in {"event", "time"}, NEW k \in Pending(kind)'
      PROVE  /\ k + 1 \in Pending(kind) /\ queue'[k] = queue[k + 1]
             /\ Ahead(kind, k)' = Ahead(kind, k + 1)
  <2>1. /\ k \in Nat /\ k + 1 \in Pending(kind) /\ queue'[k] = queue[k + 1]
        /\ Ahead(kind, k + 1) = Ahead(kind, k)'
              + (IF Head(queue).kind = kind THEN 1 ELSE 0)
    BY <1>2, <1>3, TailPending
  <2>2. Ahead(kind, k)' \in Nat
    BY <1>3, <2>1, NextCountsAreNumbers
  <2>3. ~(Head(queue).kind = kind)
    BY <1>2, <1>3
  <2>4. Ahead(kind, k + 1) = Ahead(kind, k)'
    BY <2>1, <2>2, <2>3
  <2>5. QED
    BY <2>1, <2>4
<1>7. DeadlineSide'
  <2>1. Sent' = Sent
    BY <1>2, <1>5 DEF Sent
  <2>2. TdmFollowsSchedule'
    BY <1>1, <1>2, <2>1 DEF DeadlineSide, TdmFollowsSchedule, tdmVars
  <2>3. DeadlinesInOrder' /\ NeverEarly'
    BY <1>1, <1>2, <1>6 DEF DeadlineSide, DeadlinesInOrder, NeverEarly
  <2>4. QED
    BY <1>1, <1>2, <2>2, <2>3 DEF DeadlineSide
<1>8. 1 \in Pending("end")
  BY <1>2, <1>3, HeadPending
<1>9. Pending("event") = {} /\ read = NumEvents /\ edm = "asleep"
  <2>1. edm = "asleep" /\ read = NumEvents /\ \A i \in Pending("event") : i < 1
    BY <1>1, <1>8 DEF EventSide, EventsNumbered
  <2>2. \A i \in Pending("event") : i >= 1
    BY <1>3 DEF Pending
  <2>3. \A i \in Pending("event") : i \in Nat
    BY <1>3 DEF Pending
  <2>4. QED
    BY <2>1, <2>2, <2>3
<1>10. EventSide'
  <2>1. Pending("event")' = {}
    BY <1>6, <1>9
  <2>2. InQueue("event") = 0
    <3>1. CountAhead(queue, "event", Len(queue) + 1) = 0
      BY <1>3, <1>9, CountNone DEF Pending
    <3>2. QED
      BY <3>1, AheadCounts
  <2>3. read = events + InQueue("event") /\ events \in Nat
    BY <1>1 DEF EventSide, EventsNumbered, TypeOK
  <2>4. events' = NumEvents /\ read' = events' + InQueue("event")'
    BY <1>2, <1>5, <1>9, <2>2, <2>3
  <2>5. FinishedIsComplete'
    BY <1>1, <1>2, <2>4 DEF EventSide, FinishedIsComplete
  <2>6. EventsNumbered'
    BY <1>2, <1>9, <2>1, <2>4 DEF EventsNumbered
  <2>7. QED
    BY <2>5, <2>6 DEF EventSide
<1>11. QED
  BY <1>4, <1>7, <1>10 DEF IInv

LEMMA OthersPreserve ==
    ASSUME IInv, Tick \/ BothHungUp \/ UNCHANGED vars
    PROVE  IInv'
<1>1. TypeOK /\ DeadlineSide /\ EventSide
  BY DEF IInv
<1>2. /\ UNCHANGED <<tdmVars, edm, read, queue, events, deadlines, last>>
      /\ clock' \in {clock, clock + 1}
      /\ ctl' \in {ctl, "panicked"}
  BY DEF Tick, BothHungUp, vars, edmVars, ctlVars
<1>3. TypeOK' /\ clock' \in Nat /\ clock' >= clock
  BY <1>1, <1>2 DEF TypeOK, tdmVars
<1>4. DeadlineSide'
  BY <1>1, <1>2, <1>3, DeadlineSideStays
<1>5. EventSide'
  BY <1>1, <1>2, EventSideStays
<1>6. QED
  BY <1>3, <1>4, <1>5 DEF IInv

-----------------------------------------------------------------------------
LEMMA NextPreserves ==
    ASSUME IInv, [Next]_vars
    PROVE  IInv'
<1>1. CASE TDM
  BY <1>1, StartPreserves, CheckClockPreserves, SendDeadlinePreserves DEF TDM
<1>2. CASE EDM
  BY <1>2, SendEventPreserves, SendEndPreserves, SourceStopsPreserves DEF EDM
<1>3. CASE Main
  BY <1>3, EvaluatePreserves, FinishPreserves, OthersPreserve DEF Main
<1>4. CASE Tick \/ Ended \/ OutOfTime \/ UNCHANGED vars
  BY <1>4, OthersPreserve DEF Ended, OutOfTime
<1>5. QED
  BY <1>1, <1>2, <1>3, <1>4 DEF Next

(***************************************************************************)
(* The inductive invariant holds always: what the TDM knows, what is in    *)
(* the channel and what was evaluated continue one another.                *)
(***************************************************************************)
THEOREM Invariant == Spec => []IInv
<1>1. IInv /\ [Next]_vars => IInv'
  BY NextPreserves
<1>2. QED
  BY <1>1, InitIInv, PTL DEF Spec

(***************************************************************************)
(* The main thread evaluates the deadlines of the schedule one after the   *)
(* other, each with its streams, none lost, repeated or overtaken.         *)
(***************************************************************************)
THEOREM DeadlinesAlwaysInOrder == Spec => []DeadlinesInOrder
<1>1. IInv => DeadlinesInOrder
  BY DEF IInv, DeadlineSide
<1>2. QED
  BY <1>1, Invariant, PTL

(***************************************************************************)
(* No deadline is sent or evaluated before its time on the clock.          *)
(***************************************************************************)
THEOREM NothingIsEarly == Spec => []NeverEarly
<1>1. IInv => NeverEarly
  BY DEF IInv, DeadlineSide
<1>2. QED
  BY <1>1, Invariant, PTL

(***************************************************************************)
(* process::exit at End comes after the evaluation of every event, and the *)
(* events are evaluated in the order of the source.                        *)
(***************************************************************************)
THEOREM ExitsWhenComplete == Spec => []FinishedIsComplete
<1>1. IInv => FinishedIsComplete
  BY DEF IInv, EventSide
<1>2. QED
  BY <1>1, Invariant, PTL
=============================================================================

------------------------- MODULE SlidingWindow_proofs -------------------------
(***************************************************************************)
(* Proofs about SlidingWindow, for every number of buckets, duration,      *)
(* all slips of the quotient and bounds: which values the buckets hold.    *)
(* And, from the aggregations on, about WindowAggregations: what the       *)
(* buckets make of the values they hold.                                   *)
(***************************************************************************)
EXTENDS WindowAggregations, FiniteSetTheorems, SequenceTheorems,
        WellFoundedInduction, TLAPS

(***************************************************************************)
(* Division with remainder.                                                *)
(***************************************************************************)
LEMMA DivMod ==
    ASSUME NEW x \in Nat, NEW d \in Nat \ {0}
    PROVE  /\ x \div d \in Nat
           /\ x % d \in 0..d - 1
           /\ x = d * (x \div d) + (x % d)
  OBVIOUS

LEMMA MulMono ==
    ASSUME NEW n \in Nat, NEW a \in Int, NEW b \in Int, a <= b
    PROVE  n * a <= n * b
  OBVIOUS

LEMMA MulSub ==
    ASSUME NEW n \in Nat, NEW a \in Int, NEW b \in Int
    PROVE  (a - b) * n = n * a - n * b
  OBVIOUS

LEMMA TimePerBucketPositive == TimePerBucket \in Nat \ {0}
<1>1. /\ Duration = NumBuckets * TimePerBucket + (Duration % NumBuckets)
      /\ Duration % NumBuckets \in 0..NumBuckets - 1
      /\ TimePerBucket \in Nat
  BY DivMod, NumBucketsAssumption, DurationAssumption DEF TimePerBucket
<1>2. TimePerBucket # 0
  <2>1. SUFFICES ASSUME TimePerBucket = 0 PROVE FALSE
    OBVIOUS
  <2>2. NumBuckets * TimePerBucket = 0
    BY <2>1, NumBucketsAssumption
  <2>3. QED
    BY <1>1, <2>2, NumBucketsAssumption, DurationAssumption
<1>3. QED
  BY <1>1, <1>2

(***************************************************************************)
(* The quotient reaches the numbers in ascending order, each within        *)
(* Precision of the multiple of TimePerBucket.                             *)
(***************************************************************************)
LEMMA ReachesNear ==
    ASSUME NEW k \in Nat
    PROVE  /\ TimePerBucket * k \in Nat /\ Reaches(k) \in Int
           /\ TimePerBucket * k - Precision <= Reaches(k)
           /\ Reaches(k) <= TimePerBucket * k + Precision
           /\ k = 0 => Reaches(k) = 0
<1> DEFINE m == k * TimePerBucket
           d == IF k \in DOMAIN Slips THEN Slips[k] ELSE 0
<1>1. TimePerBucket \in Nat /\ Precision \in Nat
  BY TimePerBucketPositive, SlipsAssumption
<1>2. m = TimePerBucket * k /\ m \in Nat /\ (k = 0 => m = 0)
  BY <1>1
<1>3. d \in Int /\ -Precision <= d /\ d <= Precision /\ (k = 0 => d = 0)
  BY <1>1, SlipsAssumption
<1>4. Reaches(k) = m + d
  BY DEF Reaches
<1> HIDE DEF m, d
<1>5. QED
  BY <1>1, <1>2, <1>3, <1>4

LEMMA ReachesInOrder ==
    ASSUME NEW j \in Nat, NEW k \in Nat, j <= k
    PROVE  Reaches(j) <= Reaches(k)
<1> DEFINE T == TimePerBucket
<1>1. T \in Nat \ {0} /\ Precision \in Nat /\ Precision <= T
  BY TimePerBucketPositive, SlipsAssumption
<1>2. /\ Reaches(j) \in Int /\ Reaches(j) <= T * j + Precision
      /\ Reaches(k) \in Int /\ T * k - Precision <= Reaches(k)
  BY ReachesNear
<1>3. CASE j = k
  BY <1>2, <1>3
<1>4. CASE k = j + 1
  <2>1. CASE j \in DOMAIN Slips
    BY <1>4, <2>1, SlipsAssumption
  <2>2. CASE k \in DOMAIN Slips
    <3>1. k - 1 = j
      BY <1>4
    <3>2. Reaches(k - 1) <= Reaches(k)
      BY <2>2, SlipsAssumption
    <3>3. QED
      BY <3>1, <3>2
  <2>3. CASE j \notin DOMAIN Slips /\ k \notin DOMAIN Slips
    <3>1. Reaches(j) = j * T + 0 /\ Reaches(k) = k * T + 0
      BY <2>3 DEF Reaches
    <3>2. k * T = j * T + T /\ j * T \in Nat
      BY <1>1, <1>4
    <3> HIDE DEF T
    <3>3. QED
      BY <1>1, <3>1, <3>2
  <2>4. QED
    BY <2>1, <2>2, <2>3
<1>5. CASE j + 2 <= k
  <2>1. T * (j + 2) <= T * k
    BY <1>1, <1>5, MulMono
  <2>2. T * (j + 2) = T * j + T + T /\ T * j \in Nat /\ T * k \in Nat
    BY <1>1
  <2> HIDE DEF T
  <2>3. QED
    BY <1>1, <1>2, <2>1, <2>2
<1>6. QED
  BY <1>3, <1>4, <1>5

(***************************************************************************)
(* A time lies between the two where the quotient reaches the number of    *)
(* its bucket and the next one.                                            *)
(***************************************************************************)
LEMMA OverallIxBounds ==
    ASSUME NEW t \in Nat
    PROVE  /\ OverallIx(t) \in Nat
           /\ Reaches(OverallIx(t)) <= t
           /\ t < Reaches(OverallIx(t) + 1)
<1> DEFINE T == TimePerBucket
           q == t \div T
           r == t % T
<1>1. T \in Nat \ {0} /\ Precision \in Nat /\ Precision <= T
  BY TimePerBucketPositive, SlipsAssumption
<1>2. q \in Nat /\ r \in 0..T - 1 /\ t = T * q + r /\ T * q \in Nat
  <2>1. q \in Nat /\ r \in 0..T - 1 /\ t = T * q + r
    BY <1>1, DivMod
  <2> HIDE DEF q, T
  <2>2. T * q \in Nat
    BY <1>1, <2>1
  <2>3. QED
    BY <2>1, <2>2
<1>3. OverallIx(t) = IF t < Reaches(q) THEN q - 1
                     ELSE IF t >= Reaches(q + 1) THEN q + 1 ELSE q
  BY DEF OverallIx
<1> HIDE DEF q, r
<1>4. CASE t < Reaches(q)
  <2>1. q # 0
    <3>1. q = 0 => Reaches(q) = 0
      BY <1>2, ReachesNear
    <3>2. QED
      BY <1>4, <3>1
  <2>2. q - 1 \in Nat /\ (q - 1) + 1 = q
    BY <1>2, <2>1
  <2>3. Reaches(q - 1) \in Int /\ Reaches(q - 1) <= T * (q - 1) + Precision
    BY <2>2, ReachesNear
  <2>4. T * (q - 1) = T * q - T
    BY <1>1, <1>2
  <2>5. Reaches(q - 1) <= t
    <3> HIDE DEF T
    <3>1. QED
      BY <1>1, <1>2, <2>3, <2>4
  <2>6. QED
    BY <1>3, <1>4, <2>2, <2>5
<1>5. CASE ~(t < Reaches(q)) /\ t >= Reaches(q + 1)
  <2>1. q + 1 \in Nat /\ q + 2 \in Nat /\ (q + 1) + 1 = q + 2
    BY <1>2
  <2>2. Reaches(q + 2) \in Int /\ T * (q + 2) - Precision <= Reaches(q + 2)
    BY <2>1, ReachesNear
  <2>3. T * (q + 2) = T * q + T + T
    BY <1>1, <1>2
  <2>4. t < Reaches(q + 2)
    <3> HIDE DEF T
    <3>1. QED
      BY <1>1, <1>2, <2>2, <2>3
  <2>5. QED
    BY <1>3, <1>5, <2>1, <2>4
<1>6. CASE ~(t < Reaches(q)) /\ ~(t >= Reaches(q + 1))
  <2>1. Reaches(q) \in Int /\ Reaches(q + 1) \in Int
    BY <1>2, ReachesNear
  <2>2. QED
    BY <1>2, <1>3, <1>6, <2>1
<1>7. QED
  BY <1>4, <1>5, <1>6

LEMMA OverallIxMonotone ==
    ASSUME NEW s \in Nat, NEW t \in Nat, s <= t
    PROVE  OverallIx(s) <= OverallIx(t)
<1> DEFINE a == OverallIx(s)
           b == OverallIx(t)
<1>1. /\ a \in Nat /\ b \in Nat
      /\ Reaches(a) <= s /\ t < Reaches(b + 1)
  BY OverallIxBounds
<1> HIDE DEF a, b
<1>2. SUFFICES ASSUME b + 1 <= a PROVE FALSE
  BY <1>1 DEF a, b
<1>3. b + 1 \in Nat /\ Reaches(b + 1) <= Reaches(a)
  BY <1>1, <1>2, ReachesInOrder
<1>4. Reaches(a) \in Int /\ Reaches(b + 1) \in Int
  BY <1>1, <1>3, ReachesNear
<1>5. QED
  BY <1>1, <1>3, <1>4

LEMMA BucketType ==
    ASSUME NEW t \in Nat
    PROVE  GetCurrentBucket(t) \in BIx
  BY OverallIxBounds, DivMod, NumBucketsAssumption
  DEF GetCurrentBucket, BIx, Slots

(***************************************************************************)
(* buckets_since counts the buckets between two times, across periods, and *)
(* its panic is unreachable when time does not run backwards.              *)
(***************************************************************************)
THEOREM BucketsSinceCounts ==
    ASSUME NEW s \in Nat, NEW t \in Nat, s <= t
    PROVE  /\ ~MoreRecent(GetCurrentBucket(s), GetCurrentBucket(t))
           /\ BucketsSince(GetCurrentBucket(t), GetCurrentBucket(s))
                  = OverallIx(t) - OverallIx(s)
<1> DEFINE N == NumBuckets
           a == OverallIx(s)
           b == OverallIx(t)
           p == a \div N
           i == a % N
           q == b \div N
           j == b % N
<1>1. N \in Nat \ {0}
  BY NumBucketsAssumption
<1>2. a \in Nat /\ b \in Nat /\ a <= b
  BY OverallIxBounds, OverallIxMonotone
<1>3. p \in Nat /\ i \in 0..N - 1 /\ a = N * p + i
  BY <1>1, <1>2, DivMod
<1>4. q \in Nat /\ j \in 0..N - 1 /\ b = N * q + j
  BY <1>1, <1>2, DivMod
<1> HIDE DEF p, i, q, j, a, b, N
<1>5. N * p \in Int /\ N * q \in Int
  BY <1>1, <1>3, <1>4
<1>6. ~(p > q)
  <2>1. SUFFICES ASSUME q + 1 <= p PROVE FALSE
    BY <1>3, <1>4
  <2>2. N * (q + 1) <= N * p
    BY <1>1, <1>3, <1>4, <2>1, MulMono
  <2>3. N * (q + 1) = N * q + N
    BY <1>1, <1>4
  <2>4. QED
    BY <1>1, <1>2, <1>3, <1>4, <1>5, <2>2, <2>3
<1>7. ~(p = q /\ i > j)
  BY <1>2, <1>3, <1>4, <1>5
<1>8. GetCurrentBucket(s) = [period |-> p, ix |-> i]
  BY DEF GetCurrentBucket, p, i, a, N
<1>9. GetCurrentBucket(t) = [period |-> q, ix |-> j]
  BY DEF GetCurrentBucket, q, j, b, N
<1>10. ~MoreRecent(GetCurrentBucket(s), GetCurrentBucket(t))
  BY <1>6, <1>7, <1>8, <1>9 DEF MoreRecent
<1>11. BucketsSince(GetCurrentBucket(t), GetCurrentBucket(s)) =
         IF j < i THEN (q - p - 1) * N + (N - i + j)
                  ELSE (q - p) * N + (j - i)
  BY <1>8, <1>9 DEF BucketsSince, N
<1>12. (q - p) * N = N * q - N * p
  BY <1>1, <1>3, <1>4, MulSub
<1>13. (q - p - 1) * N = N * q - N * p - N
  BY <1>1, <1>3, <1>4, <1>12
<1>14. BucketsSince(GetCurrentBucket(t), GetCurrentBucket(s)) = b - a
  BY <1>1, <1>3, <1>4, <1>5, <1>11, <1>12, <1>13
<1>15. QED
  BY <1>10, <1>14 DEF a, b

-----------------------------------------------------------------------------
LEMMA RangeAppend ==
    ASSUME NEW S, NEW s \in Seq(S), NEW e \in S
    PROVE  /\ Append(s, e) \in Seq(S)
           /\ Range(Append(s, e)) = Range(s) \cup {e}
<1>1. Append(s, e) \in Seq(S)
  OBVIOUS
<1>2. DOMAIN Append(s, e) = 1..Len(s) + 1 /\ DOMAIN s = 1..Len(s)
  OBVIOUS
<1>3. /\ \A i \in 1..Len(s) : Append(s, e)[i] = s[i]
      /\ Append(s, e)[Len(s) + 1] = e
      /\ Len(s) \in Nat
  OBVIOUS
<1>4. ASSUME NEW x \in Range(Append(s, e)) PROVE x \in Range(s) \cup {e}
  <2>1. PICK i \in 1..Len(s) + 1 : x = Append(s, e)[i]
    BY <1>2, <1>4 DEF Range
  <2>2. CASE i = Len(s) + 1
    BY <2>1, <2>2, <1>3
  <2>3. CASE i # Len(s) + 1
    <3>1. i \in 1..Len(s)
      BY <2>3, <1>3
    <3>2. QED
      BY <3>1, <2>1, <1>2, <1>3 DEF Range
  <2>4. QED
    BY <2>2, <2>3
<1>5. ASSUME NEW x \in Range(s) \cup {e} PROVE x \in Range(Append(s, e))
  <2>1. CASE x = e
    BY <2>1, <1>2, <1>3 DEF Range
  <2>2. CASE x \in Range(s)
    <3>1. PICK i \in 1..Len(s) : x = s[i]
      BY <2>2, <1>2 DEF Range
    <3>2. i \in 1..Len(s) + 1
      BY <1>3
    <3>3. QED
      BY <3>1, <3>2, <1>2, <1>3 DEF Range
  <2>3. QED
    BY <1>5, <2>1, <2>2
<1>6. QED
  BY <1>1, <1>4, <1>5

LEMMA RangeEmpty == Range(<<>>) = {}
  BY DEF Range

(***************************************************************************)
(* The effect of moving a window that satisfies the invariant to a later   *)
(* time: no panic, and every bucket holds the values of its own interval.  *)
(***************************************************************************)
LEMMA ShiftedContents ==
    ASSUME IInv, NEW ts \in now..MaxTime
    PROVE  /\ ~MoreRecent(lastBucketIx, GetCurrentBucket(ts))
           /\ Shifted(ts) \in [Slots -> Seq(1..MaxValues)]
           /\ \A k \in Slots :
                Range(Shifted(ts)[k]) = {i \in DOMAIN accepted :
                    OverallIx(accepted[i]) = OverallIx(ts) - k}
<1> DEFINE d == BucketsSince(GetCurrentBucket(ts), lastBucketIx)
<1>1. /\ now \in Nat /\ ts \in Nat /\ now <= ts
      /\ buckets \in [Slots -> Seq(1..MaxValues)]
      /\ accepted \in Seq(Times)
      /\ lastBucketIx = GetCurrentBucket(now)
      /\ \A i \in DOMAIN accepted : accepted[i] \in Nat /\ accepted[i] <= now
  BY BoundsAssumption DEF IInv, TypeOK, Times, Tracks
<1>2. /\ ~MoreRecent(lastBucketIx, GetCurrentBucket(ts))
      /\ d = OverallIx(ts) - OverallIx(now)
  BY <1>1, BucketsSinceCounts
<1>3. OverallIx(ts) \in Nat /\ OverallIx(now) \in Nat
  BY <1>1, OverallIxBounds
<1>4. d \in Nat
  BY <1>1, <1>2, <1>3, OverallIxMonotone
<1>5. Shifted(ts) = [k \in Slots |-> IF k < d THEN <<>> ELSE buckets[k - d]]
  BY DEF Shifted, InvalidateN
<1> HIDE DEF d
<1>6. \A k \in Slots : ~(k < d) => k - d \in Slots
  BY <1>4, NumBucketsAssumption DEF Slots
<1>7. Shifted(ts) \in [Slots -> Seq(1..MaxValues)]
  <2>1. ASSUME NEW k \in Slots
        PROVE  (IF k < d THEN <<>> ELSE buckets[k - d]) \in Seq(1..MaxValues)
    <3>1. CASE k < d
      BY <3>1
    <3>2. CASE ~(k < d)
      BY <3>2, <1>1, <1>6
    <3>3. QED
      BY <3>1, <3>2
  <2>2. QED
    BY <1>5, <2>1
<1>8. ASSUME NEW k \in Slots
      PROVE  Range(Shifted(ts)[k]) = {i \in DOMAIN accepted :
                 OverallIx(accepted[i]) = OverallIx(ts) - k}
  <2>1. k \in Nat
    BY NumBucketsAssumption DEF Slots
  <2>2. CASE k < d
    <3>1. Range(Shifted(ts)[k]) = {}
      BY <1>5, <2>2, RangeEmpty
    <3>2. ASSUME NEW i \in DOMAIN accepted
          PROVE  OverallIx(accepted[i]) # OverallIx(ts) - k
      <4>1. accepted[i] \in Nat /\ accepted[i] <= now
        BY <1>1
      <4>2. /\ OverallIx(accepted[i]) \in Nat
            /\ OverallIx(accepted[i]) <= OverallIx(now)
        BY <1>1, <4>1, OverallIxBounds, OverallIxMonotone
      <4>3. QED
        BY <1>2, <1>3, <2>1, <2>2, <4>2
    <3>3. QED
      BY <3>1, <3>2
  <2>3. CASE ~(k < d)
    <3>1. k - d \in Slots
      BY <1>6, <2>3
    <3>2. Range(Shifted(ts)[k]) = {i \in DOMAIN accepted :
              OverallIx(accepted[i]) = OverallIx(now) - (k - d)}
      BY <1>5, <2>3, <3>1 DEF IInv, BucketContents
    <3>3. OverallIx(now) - (k - d) = OverallIx(ts) - k
      BY <1>2, <1>3, <2>1
    <3>4. QED
      BY <3>2, <3>3
  <2>4. QED
    BY <2>2, <2>3
<1>9. QED
  BY <1>2, <1>7, <1>8

-----------------------------------------------------------------------------
LEMMA InitIInv == Init => IInv
<1> SUFFICES ASSUME Init PROVE IInv
  OBVIOUS
<1>1. OverallIx(0) = 0
  <2>1. TimePerBucket \in Nat \ {0}
    BY TimePerBucketPositive
  <2>2. /\ 0 \div TimePerBucket \in Nat
        /\ 0 % TimePerBucket \in Nat
        /\ 0 = TimePerBucket * (0 \div TimePerBucket) + (0 % TimePerBucket)
    BY <2>1, DivMod
  <2>3. 0 \div TimePerBucket = 0
    BY <2>1, <2>2
  <2>4. Reaches(0) = 0 /\ Reaches(0 + 1) \in Int /\ Reaches(0 + 1) > 0
    BY ReachesNear, SlipsAssumption
  <2>5. QED
    BY <2>3, <2>4 DEF OverallIx
<1>2. GetCurrentBucket(0) = [period |-> 0, ix |-> 0]
  <2>1. /\ 0 \div NumBuckets \in Nat
        /\ 0 % NumBuckets \in Nat
        /\ 0 = NumBuckets * (0 \div NumBuckets) + (0 % NumBuckets)
    BY DivMod, NumBucketsAssumption
  <2>2. 0 \div NumBuckets = 0 /\ 0 % NumBuckets = 0
    BY <2>1, NumBucketsAssumption
  <2>3. QED
    BY <1>1, <2>2 DEF GetCurrentBucket
<1>3. TypeOK
  <2>1. [period |-> 0, ix |-> 0] \in BIx
    BY NumBucketsAssumption DEF BIx, Slots
  <2>2. accepted \in Seq(Times) /\ Len(accepted) = 0
    BY DEF Init
  <2>3. buckets \in [Slots -> Seq(1..MaxValues)]
    <3>1. <<>> \in Seq(1..MaxValues)
      OBVIOUS
    <3>2. QED
      BY <3>1 DEF Init
  <2>4. panicked \in BOOLEAN /\ lastBucketIx \in BIx
    BY <2>1 DEF Init
  <2>5. now \in Times /\ Len(accepted) <= MaxValues
    BY <2>2, BoundsAssumption DEF Init, Times
  <2>6. QED
    BY <2>2, <2>3, <2>4, <2>5 DEF TypeOK
<1>4. DOMAIN accepted = {}
  BY DEF Init
<1>5. Tracks
  BY <1>2, <1>4 DEF Init, Tracks
<1>6. BucketContents
  <2>1. ASSUME NEW k \in Slots PROVE Range(buckets[k]) = {}
    BY RangeEmpty DEF Init
  <2>2. QED
    BY <1>4, <2>1 DEF BucketContents
<1>7. QED
  BY <1>3, <1>5, <1>6 DEF IInv, NoPanic, Init

LEMMA UpdatePreserves ==
    ASSUME IInv, NEW ts \in now..MaxTime, UpdateBuckets(ts)
    PROVE  IInv'
<1>1. /\ ts \in Nat /\ now \in Nat /\ now <= ts /\ ts <= MaxTime
      /\ accepted \in Seq(Times) /\ Len(accepted) <= MaxValues
      /\ \A i \in DOMAIN accepted : accepted[i] \in Nat /\ accepted[i] <= now
  BY BoundsAssumption DEF IInv, TypeOK, Times, Tracks
<1>2. /\ buckets' = Shifted(ts)
      /\ lastBucketIx' = GetCurrentBucket(ts)
      /\ now' = ts
      /\ accepted' = accepted
      /\ panicked' = FALSE
  BY ShiftedContents DEF UpdateBuckets
<1>3. TypeOK'
  <2>1. buckets' \in [Slots -> Seq(1..MaxValues)]
    BY <1>2, ShiftedContents
  <2>2. lastBucketIx' \in BIx
    BY <1>1, <1>2, BucketType
  <2>3. now' \in Times
    BY <1>1, <1>2 DEF Times
  <2>4. panicked' \in BOOLEAN
    BY <1>2
  <2>5. accepted' \in Seq(Times) /\ Len(accepted') <= MaxValues
    BY <1>1, <1>2
  <2>6. QED
    BY <2>1, <2>2, <2>3, <2>4, <2>5 DEF TypeOK
<1>4. Tracks'
  BY <1>1, <1>2 DEF Tracks
<1>5. BucketContents'
  BY <1>2, ShiftedContents DEF BucketContents
<1>6. QED
  BY <1>2, <1>3, <1>4, <1>5 DEF IInv, NoPanic

LEMMA AcceptPreserves ==
    ASSUME IInv, NEW ts \in now..MaxTime, AcceptValue(ts)
    PROVE  IInv'
<1> DEFINE n == Len(accepted) + 1
<1>1. /\ ts \in Nat /\ now \in Nat /\ now <= ts /\ ts <= MaxTime
      /\ accepted \in Seq(Times) /\ Len(accepted) \in Nat
      /\ n \in 1..MaxValues
      /\ \A i \in DOMAIN accepted : accepted[i] \in Nat /\ accepted[i] <= now
  BY BoundsAssumption DEF IInv, TypeOK, Times, Tracks, AcceptValue
<1>2. /\ buckets' = [Shifted(ts) EXCEPT ![0] = Append(@, n)]
      /\ lastBucketIx' = GetCurrentBucket(ts)
      /\ now' = ts
      /\ accepted' = Append(accepted, ts)
      /\ panicked' = FALSE
  BY ShiftedContents DEF AcceptValue
<1>3. 0 \in Slots
  BY NumBucketsAssumption DEF Slots
<1>4. /\ Shifted(ts) \in [Slots -> Seq(1..MaxValues)]
      /\ Shifted(ts)[0] \in Seq(1..MaxValues)
  BY <1>3, ShiftedContents
<1>5. /\ Append(Shifted(ts)[0], n) \in Seq(1..MaxValues)
      /\ Range(Append(Shifted(ts)[0], n)) = Range(Shifted(ts)[0]) \cup {n}
  <2> DEFINE S == 1..MaxValues
             front == Shifted(ts)[0]
  <2>1. n \in S /\ front \in Seq(S)
    BY <1>1, <1>4
  <2> HIDE DEF n, S, front
  <2>2. Append(front, n) \in Seq(S) /\ Range(Append(front, n)) = Range(front) \cup {n}
    BY <2>1, RangeAppend
  <2>3. QED
    BY <2>2 DEF S, front
<1>6. /\ ts \in Times
      /\ accepted' \in Seq(Times)
      /\ Len(accepted') = n
      /\ DOMAIN accepted = 1..Len(accepted)
      /\ DOMAIN accepted' = DOMAIN accepted \cup {n}
      /\ n \notin DOMAIN accepted
      /\ accepted'[n] = ts
      /\ \A i \in DOMAIN accepted : accepted'[i] = accepted[i]
  BY <1>1, <1>2 DEF Times
<1>7. /\ buckets'[0] = Append(Shifted(ts)[0], n)
      /\ \A k \in Slots \ {0} : buckets'[k] = Shifted(ts)[k]
  BY <1>2, <1>3, <1>4
<1>8. TypeOK'
  <2>1. buckets' \in [Slots -> Seq(1..MaxValues)]
    BY <1>2, <1>3, <1>4, <1>5
  <2>2. lastBucketIx' \in BIx
    BY <1>1, <1>2, BucketType
  <2>3. now' \in Times /\ Len(accepted') <= MaxValues
    BY <1>1, <1>2, <1>6
  <2>4. panicked' \in BOOLEAN
    BY <1>2
  <2>5. QED
    BY <1>6, <2>1, <2>2, <2>3, <2>4 DEF TypeOK
<1>9. Tracks'
  <2>1. ASSUME NEW i \in DOMAIN accepted' PROVE accepted'[i] <= now'
    BY <1>1, <1>2, <1>6
  <2>2. QED
    BY <1>2, <2>1 DEF Tracks
<1>10. BucketContents'
  <2>1. OverallIx(ts) \in Nat
    BY <1>1, OverallIxBounds
  <2>2. CASE \A k \in Slots : k \in Nat
    <3>1. ASSUME NEW k \in Slots
          PROVE  Range(buckets'[k]) = {i \in DOMAIN accepted' :
                     OverallIx(accepted'[i]) = OverallIx(now') - k}
      <4>1. Range(Shifted(ts)[k]) = {i \in DOMAIN accepted :
                     OverallIx(accepted[i]) = OverallIx(ts) - k}
        BY ShiftedContents
      <4>2. {i \in DOMAIN accepted : OverallIx(accepted'[i]) = OverallIx(ts) - k}
              = Range(Shifted(ts)[k])
        BY <4>1, <1>6
      <4>3. CASE k = 0
        <5>1. OverallIx(accepted'[n]) = OverallIx(ts) - 0
          BY <1>6, <2>1
        <5>2. Range(buckets'[0]) = Range(Shifted(ts)[0]) \cup {n}
          BY <1>5, <1>7
        <5>3. QED
          BY <4>2, <4>3, <5>1, <5>2, <1>2, <1>6
      <4>4. CASE k # 0
        <5>1. OverallIx(accepted'[n]) # OverallIx(ts) - k
          BY <1>6, <2>1, <2>2, <4>4
        <5>2. Range(buckets'[k]) = Range(Shifted(ts)[k])
          BY <1>7, <4>4
        <5>3. QED
          BY <4>2, <5>1, <5>2, <1>2, <1>6
      <4>5. QED
        BY <4>3, <4>4
    <3>2. QED
      BY <3>1 DEF BucketContents
  <2>3. QED
    BY <2>2, NumBucketsAssumption DEF Slots
<1>11. QED
  BY <1>2, <1>8, <1>9, <1>10 DEF IInv, NoPanic

(***************************************************************************)
(* The invariant is inductive.                                             *)
(***************************************************************************)
THEOREM Invariance == Spec => []IInv
<1>1. IInv /\ [Next]_vars => IInv'
  <2> SUFFICES ASSUME IInv, [Next]_vars PROVE IInv'
    OBVIOUS
  <2>1. CASE Next
    BY <2>1, UpdatePreserves, AcceptPreserves DEF Next
  <2>2. CASE UNCHANGED vars
    BY <2>2 DEF vars, IInv, TypeOK, NoPanic, Tracks, BucketContents
  <2>3. QED
    BY <2>1, <2>2
<1>2. QED
  BY InitIInv, <1>1, PTL DEF Spec

(***************************************************************************)
(* The state always has its type.                                          *)
(***************************************************************************)
THEOREM TypeCorrect == Spec => []TypeOK
<1>1. IInv => TypeOK
  BY DEF IInv
<1>2. QED
  BY <1>1, Invariance, PTL

(***************************************************************************)
(* No call at a non-decreasing time ends in the panic of buckets_since.    *)
(***************************************************************************)
THEOREM NeverPanics == Spec => []NoPanic
<1>1. IInv => NoPanic
  BY DEF IInv
<1>2. QED
  BY <1>1, Invariance, PTL

(***************************************************************************)
(* Every bucket holds exactly the values of its own interval of time.      *)
(***************************************************************************)
THEOREM ContentsCorrect == Spec => []BucketContents
<1>1. IInv => BucketContents
  BY DEF IInv
<1>2. QED
  BY <1>1, Invariance, PTL

(***************************************************************************)
(* What is still in the window is less than one Duration old, but for the  *)
(* slips at both of its ends.                                              *)
(***************************************************************************)
THEOREM NeverStale == Spec => []NothingStale
<1>1. ASSUME IInv PROVE NothingStale
  <2> SUFFICES ASSUME NEW k \in Slots, NEW i \in Range(buckets[k])
               PROVE  now - accepted[i] < Duration + 2 * Precision
    BY DEF NothingStale
  <2> DEFINE T == TimePerBucket
             a == OverallIx(accepted[i])
             b == OverallIx(now)
             N == NumBuckets
  <2>1. i \in DOMAIN accepted /\ a = b - k
    BY <1>1 DEF IInv, BucketContents
  <2>2. now \in Nat /\ accepted[i] \in Nat
    BY <1>1, <2>1, BoundsAssumption DEF IInv, TypeOK, Times
  <2>3. /\ T \in Nat \ {0} /\ N \in Nat \ {0} /\ k \in Nat /\ k <= N - 1
        /\ Precision \in Nat
    BY TimePerBucketPositive, NumBucketsAssumption, SlipsAssumption DEF Slots
  <2>4. a \in Nat /\ b \in Nat /\ Reaches(a) <= accepted[i] /\ now < Reaches(b + 1)
    BY <2>2, OverallIxBounds
  <2>5. /\ T * a - Precision <= Reaches(a) /\ Reaches(a) \in Int
        /\ Reaches(b + 1) <= T * (b + 1) + Precision /\ Reaches(b + 1) \in Int
    <3> HIDE DEF a, b
    <3>1. b + 1 \in Nat
      BY <2>4
    <3>2. QED
      BY <2>4, <3>1, ReachesNear
  <2>6. b + 1 <= a + N
    BY <2>1, <2>3, <2>4
  <2>7. T * (b + 1) <= T * (a + N)
    BY <2>3, <2>4, <2>6, MulMono
  <2>8. T * (a + N) = T * a + T * N
    BY <2>3, <2>4
  <2>9. T * N <= Duration
    <3>1. /\ Duration = N * T + (Duration % N)
          /\ Duration % N \in Nat
      BY DivMod, NumBucketsAssumption, DurationAssumption DEF TimePerBucket
    <3>2. T * N = N * T
      BY <2>3
    <3>3. QED
      BY <3>1, <3>2, <2>3, DurationAssumption
  <2>10. T * a \in Int /\ T * (b + 1) \in Int /\ T * N \in Int
    BY <2>3, <2>4
  <2> HIDE DEF T, a, b, N
  <2>11. now - accepted[i] < T * (b + 1) - T * a + 2 * Precision
    BY <2>2, <2>3, <2>4, <2>5, <2>10
  <2>12. T * (b + 1) - T * a <= Duration
    BY <2>7, <2>8, <2>9, <2>10, DurationAssumption
  <2>13. QED
    BY <2>2, <2>3, <2>10, <2>11, <2>12, DurationAssumption
<1>2. IInv => NothingStale
  BY <1>1
<1>3. QED
  BY <1>2, Invariance, PTL

(***************************************************************************)
(* What was accepted in the last NumBuckets - 1 bucket lengths is still in *)
(* the window, but for the slips.                                          *)
(***************************************************************************)
THEOREM NeverShort == Spec => []NothingRecentLost
<1>1. ASSUME IInv PROVE NothingRecentLost
  <2> DEFINE T == TimePerBucket
             N == NumBuckets
  <2> SUFFICES ASSUME NEW i \in DOMAIN accepted,
                      now - accepted[i] + 2 * Precision <= (N - 1) * T
               PROVE  \E k \in Slots : i \in Range(buckets[k])
    BY DEF NothingRecentLost
  <2> DEFINE a == OverallIx(accepted[i])
             b == OverallIx(now)
  <2>2. now \in Nat /\ accepted[i] \in Nat /\ accepted[i] <= now
    BY <1>1, BoundsAssumption DEF IInv, TypeOK, Times, Tracks
  <2>3. T \in Nat \ {0} /\ N \in Nat \ {0} /\ Precision \in Nat
    BY TimePerBucketPositive, NumBucketsAssumption, SlipsAssumption
  <2>4. /\ a \in Nat /\ b \in Nat /\ a <= b
        /\ Reaches(b) <= now
        /\ accepted[i] < Reaches(a + 1)
    BY <2>2, OverallIxBounds, OverallIxMonotone
  <2>5. b - a \in Slots
    <3>1. SUFFICES ASSUME a + N <= b PROVE FALSE
      BY <2>3, <2>4 DEF Slots
    <3>2. T * (a + N) <= T * b
      BY <2>3, <2>4, <3>1, MulMono
    <3>3. T * (a + N) = T * a + T * N /\ T * (a + 1) = T * a + T
      BY <2>3, <2>4
    <3>4. (N - 1) * T = T * N - T
      BY <2>3
    <3>5. T * a \in Int /\ T * b \in Int /\ T * N \in Int
      BY <2>3, <2>4
    <3>6. /\ T * b - Precision <= Reaches(b) /\ Reaches(b) \in Int
          /\ Reaches(a + 1) <= T * (a + 1) + Precision /\ Reaches(a + 1) \in Int
      <4> HIDE DEF a, b
      <4>1. a + 1 \in Nat
        BY <2>4
      <4>2. QED
        BY <2>4, <4>1, ReachesNear
    <3> HIDE DEF T, a, b, N
    <3>7. now - accepted[i] > T * b - T * (a + 1) - 2 * Precision
      BY <2>2, <2>3, <2>4, <3>3, <3>5, <3>6
    <3>8. T * b - T * (a + 1) >= (N - 1) * T
      BY <2>3, <3>2, <3>3, <3>4, <3>5
    <3>9. (N - 1) * T \in Int /\ T * (a + 1) \in Int
      BY <2>3, <3>3, <3>4, <3>5
    <3>10. now - accepted[i] + 2 * Precision <= (N - 1) * T
      BY DEF N, T
    <3>11. QED
      BY <2>2, <2>3, <3>5, <3>7, <3>8, <3>9, <3>10
  <2>6. a = b - (b - a)
    BY <2>4
  <2>7. i \in Range(buckets[b - a])
    BY <1>1, <2>5, <2>6 DEF IInv, BucketContents
  <2>8. QED
    BY <2>5, <2>7
<1>2. IInv => NothingRecentLost
  BY <1>1
<1>3. QED
  BY <1>2, Invariance, PTL

-----------------------------------------------------------------------------
(* What get_value folds over.                                              *)

LEMMA LeastNumber ==
    ASSUME NEW S \in SUBSET Nat, S # {}
    PROVE  \E n \in S : \A m \in S : n <= m
<1> DEFINE R == {ss \in Nat \X Nat : ss[1] < ss[2]}
<1>1. OpToRel(<, Nat) = R
  BY Zenon DEF OpToRel
<1>2. IsWellFoundedOn(R, Nat)
  BY <1>1, NatLessThanWellFounded, Zenon
<1>3. PICK n \in S : \A m \in S : <<m, n>> \notin R
  BY <1>2, WFMin
<1>4. ASSUME NEW m \in S PROVE n <= m
  <2>1. n \in Nat /\ m \in Nat /\ ~(n > m)
    BY <1>3, <1>4
  <2>2. QED
    BY <2>1
<1>5. QED
  BY <1>4

(***************************************************************************)
(* A function that solves the equation of FlattenSeq gives its result.     *)
(***************************************************************************)
LEMMA FlattenIs ==
    ASSUME NEW seqs, NEW n \in Nat \ {0}, Len(seqs) = n, NEW F,
           \A i \in 1..n :
               F[i] = IF i = 1 THEN seqs[i] ELSE F[i - 1] \o seqs[i]
    PROVE  FlattenSeq(seqs) = F[n]
<1> DEFINE Flattens(G) ==
               G = [i \in 1..n |-> IF i = 1 THEN seqs[i] ELSE G[i - 1] \o seqs[i]]
           C == CHOOSE G : Flattens(G)
           G == [i \in 1..n |-> F[i]]
<1>0. Flattens(G)
  <2>1. ASSUME NEW i \in 1..n
        PROVE  G[i] = IF i = 1 THEN seqs[i] ELSE G[i - 1] \o seqs[i]
    <3>1. CASE i = 1
      BY <3>1
    <3>2. CASE i # 1
      <4>1. i - 1 \in 1..n
        BY <3>2
      <4>2. G[i - 1] = F[i - 1] /\ G[i] = F[i]
        BY <4>1
      <4>3. QED
        BY <3>2, <4>2
    <3>3. QED
      BY <3>1, <3>2
  <2>2. QED
    BY <2>1
<1>1. Flattens(C)
  BY <1>0
<1>2. FlattenSeq(seqs) = C[n]
  BY DEF FlattenSeq
<1> HIDE DEF C
<1> DEFINE Different == {i \in 1..n : C[i] # F[i]}
<1>3. Different = {}
  <2>1. SUFFICES ASSUME Different # {} PROVE FALSE
    OBVIOUS
  <2>2. PICK i \in Different : \A j \in Different : i <= j
    <3>1. Different \in SUBSET Nat
      OBVIOUS
    <3> HIDE DEF Different
    <3>2. QED
      BY <3>1, <2>1, LeastNumber
  <2>3. CASE i = 1
    <3>1. C[1] = seqs[1] /\ F[1] = seqs[1]
      BY <1>1
    <3>2. QED
      BY <2>2, <2>3, <3>1
  <2>4. CASE i # 1
    <3>1. i - 1 \in 1..n /\ i - 1 \notin Different
      BY <2>2, <2>4
    <3>2. C[i - 1] = F[i - 1]
      BY <3>1
    <3>3. C[i] = C[i - 1] \o seqs[i] /\ F[i] = F[i - 1] \o seqs[i]
      BY <1>1, <2>2, <2>4
    <3>4. QED
      BY <2>2, <3>2, <3>3
  <2>5. QED
    BY <2>3, <2>4
<1>4. n \in 1..n
  OBVIOUS
<1>5. QED
  BY <1>2, <1>3, <1>4

(***************************************************************************)
(* A run of consecutive numbers.                                           *)
(***************************************************************************)
Stretch(from, to) == [j \in 1..to - from |-> from + j]

LEMMA StretchNext ==
    ASSUME NEW from \in Nat, NEW to \in Nat, from <= to
    PROVE  Append(Stretch(from, to), to + 1) = Stretch(from, to + 1)
  BY DEF Stretch

LEMMA StretchesJoin ==
    ASSUME NEW a \in Nat, NEW b \in Nat, NEW c \in Nat, a <= b, b <= c
    PROVE  Stretch(a, b) \o Stretch(b, c) = Stretch(a, c)
  BY DEF Stretch

LEMMA StretchEmpty ==
    ASSUME NEW a \in Nat
    PROVE  Stretch(a, a) = <<>>
  BY DEF Stretch

(***************************************************************************)
(* The buckets cut a suffix of the history into stretches: bucket k holds  *)
(* the values after position cut[k + 1], up to position cut[k].            *)
(***************************************************************************)
IsCut(cut) ==
    /\ cut \in [0..NumBuckets -> 0..Len(accepted)]
    /\ cut[0] = Len(accepted)
    /\ \A k \in Slots : /\ cut[k + 1] <= cut[k]
                        /\ buckets[k] = Stretch(cut[k + 1], cut[k])

Consecutive == \E cut : IsCut(cut)

LEMMA InitConsecutive == Init => Consecutive
<1> SUFFICES ASSUME Init PROVE Consecutive
  OBVIOUS
<1> DEFINE cut == [k \in 0..NumBuckets |-> 0]
<1>1. Len(accepted) = 0
  BY DEF Init
<1>2. ASSUME NEW k \in Slots PROVE buckets[k] = Stretch(0, 0)
  BY StretchEmpty DEF Init
<1>3. \A k \in Slots : k \in 0..NumBuckets /\ k + 1 \in 0..NumBuckets
  BY NumBucketsAssumption DEF Slots
<1>4. IsCut(cut)
  BY <1>1, <1>2, <1>3, NumBucketsAssumption DEF IsCut
<1>5. QED
  BY <1>4 DEF Consecutive

(***************************************************************************)
(* Moving the window by n buckets moves the cuts by n, and the new buckets *)
(* lie behind the last value.                                              *)
(***************************************************************************)
Moved(cut, n) ==
    [k \in 0..NumBuckets |-> IF k <= n THEN cut[0] ELSE cut[k - n]]

LEMMA ShiftedCut ==
    ASSUME NEW n \in Nat, NEW cut, IsCut(cut), TypeOK
    PROVE  /\ Moved(cut, n) \in [0..NumBuckets -> 0..Len(accepted)]
           /\ Moved(cut, n)[0] = Len(accepted)
           /\ \A k \in Slots :
                 /\ Moved(cut, n)[k + 1] <= Moved(cut, n)[k]
                 /\ InvalidateN(buckets, n)[k] =
                        Stretch(Moved(cut, n)[k + 1], Moved(cut, n)[k])
<1> DEFINE moved == [k \in 0..NumBuckets |-> IF k <= n THEN cut[0] ELSE cut[k - n]]
<1>1. /\ NumBuckets \in Nat \ {0} /\ Len(accepted) \in Nat
      /\ Slots = 0..NumBuckets - 1
  BY NumBucketsAssumption DEF TypeOK, Slots
<1>2. \A k \in 0..NumBuckets : cut[k] \in 0..Len(accepted)
  BY DEF IsCut
<1>3. \A k \in 0..NumBuckets : moved[k] \in 0..Len(accepted)
  BY <1>1, <1>2
<1>4. ASSUME NEW k \in Slots
      PROVE  /\ moved[k + 1] <= moved[k]
             /\ InvalidateN(buckets, n)[k] = Stretch(moved[k + 1], moved[k])
  <2>1. k \in 0..NumBuckets /\ k + 1 \in 0..NumBuckets /\ k \in Nat
    BY <1>1
  <2>2. CASE k < n
    <3>1. moved[k] = cut[0] /\ moved[k + 1] = cut[0]
      BY <2>1, <2>2
    <3>2. InvalidateN(buckets, n)[k] = <<>>
      BY <2>2 DEF InvalidateN
    <3>3. cut[0] \in Nat
      BY <1>1, <1>2
    <3>4. QED
      BY <3>1, <3>2, <3>3, StretchEmpty
  <2>3. CASE ~(k < n)
    <3>1. k - n \in Slots
      BY <1>1, <2>1, <2>3
    <3>2. moved[k] = cut[k - n]
      BY <2>1, <2>3
    <3>3. moved[k + 1] = cut[(k - n) + 1]
      BY <2>1, <2>3
    <3>4. InvalidateN(buckets, n)[k] = buckets[k - n]
      BY <2>3 DEF InvalidateN
    <3>5. cut[(k - n) + 1] <= cut[k - n]
          /\ buckets[k - n] = Stretch(cut[(k - n) + 1], cut[k - n])
      BY <3>1 DEF IsCut
    <3>6. QED
      BY <3>2, <3>3, <3>4, <3>5
  <2>4. QED
    BY <2>2, <2>3
<1>5. moved[0] = Len(accepted)
  BY <1>1 DEF IsCut
<1>6. moved \in [0..NumBuckets -> 0..Len(accepted)]
  BY <1>3
<1>7. Moved(cut, n) = moved
  BY DEF Moved
<1> HIDE DEF moved
<1>8. QED
  BY <1>4, <1>5, <1>6, <1>7

LEMMA MovesForward ==
    ASSUME IInv, NEW ts \in now..MaxTime
    PROVE  BucketsSince(GetCurrentBucket(ts), lastBucketIx) \in Nat
<1>1. /\ now \in Nat /\ ts \in Nat /\ now <= ts
      /\ lastBucketIx = GetCurrentBucket(now)
  BY BoundsAssumption DEF IInv, TypeOK, Times, Tracks
<1>2. BucketsSince(GetCurrentBucket(ts), lastBucketIx)
         = OverallIx(ts) - OverallIx(now)
  BY <1>1, BucketsSinceCounts
<1>3. /\ OverallIx(ts) \in Nat /\ OverallIx(now) \in Nat
      /\ OverallIx(now) <= OverallIx(ts)
  BY <1>1, OverallIxBounds, OverallIxMonotone
<1>4. QED
  BY <1>2, <1>3

LEMMA ShiftIsCut ==
    ASSUME IInv, Consecutive, NEW ts \in now..MaxTime
    PROVE  \E cut :
              /\ cut \in [0..NumBuckets -> 0..Len(accepted)]
              /\ cut[0] = Len(accepted)
              /\ \A k \in Slots : /\ cut[k + 1] <= cut[k]
                                  /\ Shifted(ts)[k] = Stretch(cut[k + 1], cut[k])
<1> DEFINE n == BucketsSince(GetCurrentBucket(ts), lastBucketIx)
<1>1. n \in Nat /\ TypeOK
  BY MovesForward DEF IInv
<1>2. PICK cut : IsCut(cut)
  BY DEF Consecutive
<1>3. Shifted(ts) = InvalidateN(buckets, n)
  BY DEF Shifted
<1> HIDE DEF n
<1> DEFINE moved == Moved(cut, n)
<1>4. /\ moved \in [0..NumBuckets -> 0..Len(accepted)]
      /\ moved[0] = Len(accepted)
      /\ \A k \in Slots :
            /\ moved[k + 1] <= moved[k]
            /\ Shifted(ts)[k] = Stretch(moved[k + 1], moved[k])
  BY <1>1, <1>2, <1>3, ShiftedCut
<1> HIDE DEF moved
<1>5. QED
  BY <1>4

LEMMA UpdateConsecutive ==
    ASSUME IInv, Consecutive, NEW ts \in now..MaxTime, UpdateBuckets(ts)
    PROVE  Consecutive'
<1>1. buckets' = Shifted(ts) /\ accepted' = accepted
  BY ShiftedContents DEF UpdateBuckets
<1>2. PICK cut :
         /\ cut \in [0..NumBuckets -> 0..Len(accepted)]
         /\ cut[0] = Len(accepted)
         /\ \A k \in Slots : /\ cut[k + 1] <= cut[k]
                             /\ Shifted(ts)[k] = Stretch(cut[k + 1], cut[k])
  BY ShiftIsCut
<1>3. IsCut(cut)'
  BY <1>1, <1>2 DEF IsCut
<1>4. QED
  BY <1>3 DEF Consecutive

(***************************************************************************)
(* A new value prolongs the stretch in the front bucket.                   *)
(***************************************************************************)
LEMMA AcceptConsecutive ==
    ASSUME IInv, Consecutive, NEW ts \in now..MaxTime, AcceptValue(ts)
    PROVE  Consecutive'
<1> DEFINE L == Len(accepted)
<1>1. /\ buckets' = [Shifted(ts) EXCEPT ![0] = Append(@, L + 1)]
      /\ accepted' = Append(accepted, ts)
  BY ShiftedContents DEF AcceptValue
<1>2. PICK cut :
         /\ cut \in [0..NumBuckets -> 0..L]
         /\ cut[0] = L
         /\ \A k \in Slots : /\ cut[k + 1] <= cut[k]
                             /\ Shifted(ts)[k] = Stretch(cut[k + 1], cut[k])
  BY ShiftIsCut
<1>3. /\ accepted \in Seq(Times) /\ L \in Nat /\ ts \in Times
      /\ Shifted(ts) \in [Slots -> Seq(1..MaxValues)]
  <2>1. accepted \in Seq(Times) /\ now \in Times
    BY DEF IInv, TypeOK
  <2>2. L \in Nat /\ ts \in Times
    BY <2>1, BoundsAssumption DEF Times
  <2>3. Shifted(ts) \in [Slots -> Seq(1..MaxValues)]
    BY ShiftedContents
  <2>4. QED
    BY <2>1, <2>2, <2>3
<1>4. Len(accepted') = L + 1
  BY <1>1, <1>3
<1>5. /\ NumBuckets \in Nat \ {0} /\ 0 \in Slots
      /\ \A k \in Slots : /\ k \in Nat /\ k \in 0..NumBuckets
                          /\ k + 1 \in 0..NumBuckets /\ k + 1 # 0
      /\ 0 \in 0..NumBuckets
  BY NumBucketsAssumption DEF Slots
<1>6. /\ buckets'[0] = Append(Shifted(ts)[0], L + 1)
      /\ \A k \in Slots \ {0} : buckets'[k] = Shifted(ts)[k]
  BY <1>1, <1>3, <1>5
<1> HIDE DEF L
<1> DEFINE longer == [k \in 0..NumBuckets |-> IF k = 0 THEN L + 1 ELSE cut[k]]
<1>7. longer \in [0..NumBuckets -> 0..L + 1]
  BY <1>2, <1>3, <1>5
<1>8. /\ longer[0] = L + 1
      /\ \A k \in 0..NumBuckets : k # 0 => longer[k] = cut[k]
      /\ \A k \in 0..NumBuckets : cut[k] \in Nat /\ cut[k] <= L
  BY <1>2, <1>3, <1>5
<1> HIDE DEF longer
<1>9. ASSUME NEW k \in Slots
      PROVE  /\ longer[k + 1] <= longer[k]
             /\ buckets'[k] = Stretch(longer[k + 1], longer[k])
  <2>1. longer[k + 1] = cut[k + 1]
    BY <1>5, <1>8
  <2>2. CASE k = 0
    <3>1. cut[1] \in Nat /\ cut[1] <= L /\ Shifted(ts)[0] = Stretch(cut[1], L)
      BY <1>2, <1>5, <1>8
    <3>2. Append(Stretch(cut[1], L), L + 1) = Stretch(cut[1], L + 1)
      BY <1>3, <3>1, StretchNext
    <3>3. /\ longer[k] = L + 1 /\ longer[k + 1] = cut[1]
          /\ buckets'[k] = Append(Shifted(ts)[0], L + 1)
      BY <1>6, <1>8, <2>1, <2>2
    <3>4. QED
      BY <1>3, <3>1, <3>2, <3>3
  <2>3. CASE k # 0
    <3>1. longer[k] = cut[k] /\ buckets'[k] = Shifted(ts)[k]
      BY <1>5, <1>6, <1>8, <2>3
    <3>2. QED
      BY <1>2, <2>1, <3>1
  <2>4. QED
    BY <2>2, <2>3
<1>10. PICK c : c = longer
  OBVIOUS
<1>11. IsCut(c)'
  BY <1>4, <1>7, <1>8, <1>9, <1>10 DEF IsCut
<1>12. QED
  BY <1>11 DEF Consecutive

(***************************************************************************)
(* The buckets always cut the end of the history into consecutive          *)
(* stretches.                                                              *)
(***************************************************************************)
THEOREM AlwaysConsecutive == Spec => [](IInv /\ Consecutive)
<1>1. IInv /\ Consecutive /\ [Next]_vars => Consecutive'
  <2> SUFFICES ASSUME IInv, Consecutive, [Next]_vars PROVE Consecutive'
    OBVIOUS
  <2>1. CASE Next
    BY <2>1, UpdateConsecutive, AcceptConsecutive DEF Next
  <2>2. CASE UNCHANGED vars
    BY <2>2 DEF vars, Consecutive, IsCut
  <2>3. QED
    BY <2>1, <2>2
<1>2. QED
  BY InitConsecutive, Invariance, <1>1, PTL DEF Spec

(***************************************************************************)
(* Put together, the stretches are one: flattening them, oldest first,     *)
(* leads step by step from the last cut up to the last value.              *)
(***************************************************************************)
LEMMA FlattenBuckets ==
    ASSUME TypeOK, NEW cut, IsCut(cut)
    PROVE  FlattenSeq([k \in 1..NumBuckets |-> buckets[NumBuckets - k]])
              = Stretch(cut[NumBuckets], Len(accepted))
<1> DEFINE N == NumBuckets
           seqs == [k \in 1..N |-> buckets[N - k]]
           F == [i \in 1..N |-> Stretch(cut[N], cut[N - i])]
<1>1. /\ N \in Nat \ {0} /\ Len(accepted) \in Nat /\ Len(seqs) = N
      /\ \A i \in 1..N : /\ N - i \in Slots /\ N - i \in 0..N
                         /\ N - (i - 1) = (N - i) + 1
      /\ \A k \in 0..N : cut[k] \in Nat
  BY NumBucketsAssumption DEF TypeOK, Slots, IsCut
<1>2. \A i \in 1..N : seqs[i] = Stretch(cut[(N - i) + 1], cut[N - i])
  BY <1>1 DEF IsCut
<1> DEFINE Least(i) == cut[N] <= cut[N - i]
<1>3. \A i \in 0..N : Least(i)
  <2> DEFINE Bad == {i \in 0..N : ~Least(i)}
  <2>1. SUFFICES ASSUME Bad # {} PROVE FALSE
    OBVIOUS
  <2>2. Bad \in SUBSET Nat
    OBVIOUS
  <2>3. PICK i \in Bad : \A j \in Bad : i <= j
    <3> HIDE DEF Bad
    <3>1. QED
      BY <2>1, <2>2, LeastNumber
  <2>4. i # 0
    BY <1>1, <2>3
  <2>5. i - 1 \in 0..N /\ ~(i <= i - 1) /\ i \in 1..N
    BY <1>1, <2>3, <2>4
  <2>6. Least(i - 1)
    BY <2>3, <2>5
  <2>7. cut[(N - i) + 1] <= cut[N - i]
    BY <1>1, <2>5 DEF IsCut
  <2>8. cut[N] <= cut[N - i]
    <3>1. /\ cut[N] \in Nat /\ cut[(N - i) + 1] \in Nat /\ cut[N - i] \in Nat
      <4>1. N \in 0..N /\ (N - i) + 1 \in 0..N /\ N - i \in 0..N
        BY <1>1, <2>5
      <4>2. QED
        BY <1>1, <4>1
    <3>2. cut[N] <= cut[(N - i) + 1]
      BY <1>1, <2>5, <2>6
    <3>3. QED
      BY <2>7, <3>1, <3>2
  <2>9. QED
    BY <2>3, <2>8
<1>4. ASSUME NEW i \in 1..N
      PROVE  F[i] = IF i = 1 THEN seqs[i] ELSE F[i - 1] \o seqs[i]
  <2>1. seqs[i] = Stretch(cut[(N - i) + 1], cut[N - i])
    BY <1>2
  <2>2. CASE i = 1
    <3>1. (N - i) + 1 = N
      BY <1>1, <2>2
    <3>2. QED
      BY <2>1, <2>2, <3>1
  <2>3. CASE i # 1
    <3>1. i - 1 \in 1..N /\ F[i - 1] = Stretch(cut[N], cut[(N - i) + 1])
      BY <1>1, <2>3
    <3>2. /\ cut[N] \in Nat /\ cut[(N - i) + 1] \in Nat /\ cut[N - i] \in Nat
      <4>1. N \in 0..N /\ (N - i) + 1 \in 0..N /\ N - i \in 0..N
        BY <1>1
      <4>2. QED
        BY <1>1, <4>1
    <3>3. cut[(N - i) + 1] <= cut[N - i]
      BY <1>1 DEF IsCut
    <3>4. cut[N] <= cut[(N - i) + 1]
      <4>1. i - 1 \in 0..N
        BY <1>1, <3>1
      <4>2. QED
        BY <1>1, <1>3, <4>1
    <3>5. Stretch(cut[N], cut[(N - i) + 1]) \o Stretch(cut[(N - i) + 1], cut[N - i])
             = Stretch(cut[N], cut[N - i])
      BY <3>2, <3>3, <3>4, StretchesJoin
    <3>6. QED
      BY <2>1, <2>3, <3>1, <3>5
  <2>4. QED
    BY <2>2, <2>3
<1>5. F[N] = Stretch(cut[N], Len(accepted))
  <2>1. N \in 1..N /\ N - N = 0
    BY <1>1
  <2>2. QED
    BY <2>1 DEF IsCut
<1> HIDE DEF F, seqs
<1>6. FlattenSeq(seqs) = F[N]
  <2>1. N \in Nat \ {0} /\ Len(seqs) = N
    BY <1>1
  <2> HIDE DEF N
  <2>2. QED
    BY <1>4, <2>1, FlattenIs
<1>7. QED
  BY <1>5, <1>6 DEF seqs

(***************************************************************************)
(* The fold of get_value meets a suffix of the values, each once and in    *)
(* the order in which they were accepted; a window that waits has none.    *)
(***************************************************************************)
THEOREM AlwaysFoldsASuffix == Spec => []FoldsASuffix
<1>1. ASSUME IInv, Consecutive PROVE FoldsASuffix
  <2> DEFINE n == Len(accepted)
  <2>1. PICK cut : IsCut(cut)
    BY <1>1 DEF Consecutive
  <2>2. cut[NumBuckets] \in 0..n
    BY <2>1, NumBucketsAssumption DEF IsCut
  <2>3. CASE Wait /\ now < Duration
    BY <2>3 DEF FoldsASuffix, GetValue, Waiting
  <2>4. CASE ~(Wait /\ now < Duration)
    <3>1. GetValue = Stretch(cut[NumBuckets], n)
      BY <1>1, <2>1, <2>4, FlattenBuckets DEF GetValue, Waiting, IInv
    <3>2. GetValue = [j \in 1..(n - cut[NumBuckets]) |-> cut[NumBuckets] + j]
      BY <3>1 DEF Stretch
    <3>3. QED
      BY <2>2, <2>4, <3>2 DEF FoldsASuffix
  <2>5. QED
    BY <2>3, <2>4
<1>2. IInv /\ Consecutive => FoldsASuffix
  BY <1>1
<1>3. QED
  BY <1>2, AlwaysConsecutive, PTL

-----------------------------------------------------------------------------
(* Induction and recursion over the numbers up to n, and over sequences.   *)

(* A set of numbers with 0 and every successor has all numbers up to n.     *)
LEMMA UpTo ==
    ASSUME NEW n \in Nat, NEW T, 0 \in T,
           \A i \in 0..n : i # n /\ i \in T => i + 1 \in T
    PROVE  \A i \in 0..n : i \in T
<1> DEFINE Missing == {i \in 0..n : i \notin T}
<1>1. SUFFICES ASSUME Missing # {} PROVE FALSE
  OBVIOUS
<1>2. Missing \in SUBSET Nat
  OBVIOUS
<1>3. PICK i \in Missing : \A j \in Missing : i <= j
  <2> HIDE DEF Missing
  <2>1. QED
    BY <1>1, <1>2, LeastNumber
<1>4. i \in 0..n /\ i \notin T /\ i # 0
  BY <1>3
<1>5. i - 1 \in 0..n /\ i - 1 # n /\ ~(i <= i - 1) /\ (i - 1) + 1 = i
  BY <1>4
<1>6. i - 1 \in T
  BY <1>3, <1>5
<1>7. i \in T
  BY <1>5, <1>6
<1>8. QED
  BY <1>4, <1>7

(***************************************************************************)
(* A function whose value is computed from the one before exists.          *)
(***************************************************************************)
Iterates(F, n, V, a, G) ==
    /\ F \in [0..n -> V]
    /\ F[0] = a
    /\ \A i \in 0..n : i # 0 => F[i] = G[<<i, F[i - 1]>>]

LEMMA Recursion ==
    ASSUME NEW n \in Nat, NEW V, NEW a \in V, NEW G \in [(0..n) \X V -> V]
    PROVE  \E F : Iterates(F, n, V, a, G)
<1> DEFINE Solves(F, m) == Iterates(F, m, V, a, G)
           T == {m \in 0..n : \E F : Solves(F, m)}
<1> USE DEF Iterates
<1>1. 0 \in T
  <2>1. Solves([i \in 0..0 |-> a], 0)
    OBVIOUS
  <2> HIDE DEF Solves
  <2>2. QED
    BY <2>1
<1>2. ASSUME NEW k \in 0..n, k # n, k \in T PROVE k + 1 \in T
  <2>1. PICK F : Solves(F, k)
    BY <1>2
  <2> DEFINE m == k + 1
             H == [i \in 0..m |-> IF i = m THEN G[<<m, F[m - 1]>>] ELSE F[i]]
  <2>2. m \in 0..n /\ m - 1 = k /\ k \in 0..k /\ 0 \in 0..k /\ m # 0 /\ m \in 0..m
    BY <1>2
  <2>3. F[m - 1] \in V
    BY <2>1, <2>2
  <2> HIDE DEF m
  <2>4. G[<<m, F[m - 1]>>] \in V
    BY <2>2, <2>3
  <2>5. \A i \in 0..m : i # m => i \in 0..k
    BY <2>2 DEF m
  <2>6. H \in [0..m -> V]
    BY <2>1, <2>4, <2>5
  <2>7. /\ H[m] = G[<<m, F[m - 1]>>]
        /\ \A i \in 0..m : i # m => H[i] = F[i]
    BY <2>2
  <2> HIDE DEF H
  <2>8. H[0] = a
    <3>1. 0 \in 0..m /\ 0 # m
      BY <2>2 DEF m
    <3>2. QED
      BY <2>1, <2>7, <3>1
  <2>9. ASSUME NEW i \in 0..m, i # 0 PROVE H[i] = G[<<i, H[i - 1]>>]
    <3>1. i - 1 \in 0..m /\ i - 1 # m
      BY <2>2, <2>9 DEF m
    <3>2. H[i - 1] = F[i - 1]
      BY <2>7, <3>1
    <3>3. CASE i = m
      BY <2>7, <3>2, <3>3
    <3>4. CASE i # m
      <4>1. i \in 0..k /\ H[i] = F[i]
        BY <2>5, <2>7, <3>4
      <4>2. QED
        BY <2>1, <2>9, <3>2, <4>1
    <3>5. QED
      BY <3>3, <3>4
  <2>10. Solves(H, m)
    BY <2>6, <2>8, <2>9
  <2> HIDE DEF Solves
  <2>11. QED
    BY <2>2, <2>10 DEF m
<1>3. n \in 0..n
  OBVIOUS
<1>4. \A i \in 0..n : i \in T
  <2> HIDE DEF T
  <2>1. QED
    BY <1>1, <1>2, UpTo
<1>5. PICK F : Solves(F, n)
  BY <1>3, <1>4
<1> HIDE DEF Iterates
<1>6. QED
  BY <1>5

(* A set with the empty sequence and every extension has all sequences.     *)
LEMMA SeqInduction ==
    ASSUME NEW S, NEW T, <<>> \in T,
           \A s \in Seq(S), e \in S : s \in T => Append(s, e) \in T
    PROVE  \A s \in Seq(S) : s \in T
<1> TAKE s \in Seq(S)
<1> DEFINE U == {i \in 0..Len(s) : SubSeq(s, 1, i) \in T}
<1>1. 0 \in U
  <2>1. SubSeq(s, 1, 0) = <<>>
    BY SubSeqEmpty
  <2>2. 0 \in 0..Len(s)
    OBVIOUS
  <2>3. QED
    BY <2>1, <2>2
<1>2. ASSUME NEW i \in 0..Len(s), i # Len(s), i \in U PROVE i + 1 \in U
  <2>1. i + 1 \in 1..Len(s) /\ i + 1 \in 0..Len(s)
    BY <1>2
  <2>2. s[i + 1] \in S /\ SubSeq(s, 1, i) \in Seq(S)
    BY <2>1
  <2>3. SubSeq(s, 1, i + 1) = SubSeq(s, 1, i) \o <<s[i + 1]>>
    <3>1. 1 \in 1..Len(s) /\ (i + 1) \in 1..Len(s) /\ (i + 1) - 1 = i
      BY <2>1
    <3>2. QED
      BY <3>1, SubSeqRecursiveSecond
  <2>4. SubSeq(s, 1, i + 1) = Append(SubSeq(s, 1, i), s[i + 1])
    BY <2>2, <2>3, AppendIsConcat
  <2>5. QED
    BY <1>2, <2>1, <2>2, <2>4
<1>3. Len(s) \in 0..Len(s) /\ Len(s) \in Nat
  OBVIOUS
<1>4. \A i \in 0..Len(s) : i \in U
  <2> HIDE DEF U
  <2>1. QED
    BY <1>1, <1>2, <1>3, UpTo
<1>5. SubSeq(s, 1, Len(s)) \in T
  BY <1>3, <1>4
<1>6. QED
  BY <1>5, SubSeqFull

-----------------------------------------------------------------------------
(* Sums.                                                                   *)

Sums(F, nums) ==
    F = [i \in 0..Len(nums) |-> IF i = 0 THEN 0 ELSE F[i - 1] + nums[i]]

(* The partial sums of a sequence.                                          *)
LEMMA TotalSteps ==
    ASSUME NEW nums \in Seq(Int)
    PROVE  \E F \in [0..Len(nums) -> Int] :
               /\ F[0] = 0 /\ F[Len(nums)] = Total(nums)
               /\ \A i \in 1..Len(nums) : F[i] = F[i - 1] + nums[i]
<1> DEFINE n == Len(nums)
           G == [p \in (0..n) \X Int |-> IF p[1] = 0 THEN 0 ELSE p[2] + nums[p[1]]]
           C == CHOOSE F : Sums(F, nums)
<1>1. n \in Nat /\ \A i \in 1..n : nums[i] \in Int
  OBVIOUS
<1> HIDE DEF n
<1>2. G \in [(0..n) \X Int -> Int]
  <2>1. ASSUME NEW p \in (0..n) \X Int
        PROVE  (IF p[1] = 0 THEN 0 ELSE p[2] + nums[p[1]]) \in Int
    <3>1. p[2] \in Int /\ (p[1] # 0 => p[1] \in 1..n)
      BY <1>1
    <3>2. p[1] # 0 => nums[p[1]] \in Int
      BY <1>1, <3>1
    <3>3. QED
      BY <3>1, <3>2
  <2>2. QED
    BY <2>1
<1>3. PICK F : Iterates(F, n, Int, 0, G)
  <2> HIDE DEF G
  <2>1. 0 \in Int
    OBVIOUS
  <2>2. QED
    BY <1>1, <1>2, <2>1, Recursion
<1>4. F \in [0..n -> Int] /\ F[0] = 0
  BY <1>3 DEF Iterates
<1>5. ASSUME NEW i \in 1..n PROVE F[i] = F[i - 1] + nums[i]
  <2>1. i \in 0..n /\ i # 0 /\ i - 1 \in 0..n
    BY <1>1
  <2>2. F[i] = G[<<i, F[i - 1]>>] /\ F[i - 1] \in Int
    BY <1>3, <2>1 DEF Iterates
  <2>3. QED
    BY <2>1, <2>2
<1>6. Sums(F, nums)
  <2>1. ASSUME NEW i \in 0..n PROVE F[i] = IF i = 0 THEN 0 ELSE F[i - 1] + nums[i]
    <3>1. i # 0 => i \in 1..n
      BY <1>1
    <3>2. QED
      BY <1>4, <1>5, <3>1
  <2>2. F = [i \in 0..n |-> F[i]]
    BY <1>4
  <2>3. QED
    BY <2>1, <2>2 DEF n, Sums
<1>7. Sums(C, nums)
  BY <1>6
<1>8. Total(nums) = C[n]
  BY DEF Total, Sums, n
<1> HIDE DEF C, G
<1>9. C[0] = 0 /\ \A i \in 1..n : C[i] = C[i - 1] + nums[i]
  <2>1. 0 \in 0..n /\ \A i \in 1..n : i \in 0..n /\ i # 0
    BY <1>1
  <2>2. QED
    BY <1>7, <2>1 DEF Sums, n
<1> DEFINE T == {i \in 0..n : C[i] = F[i]}
<1>10. 0 \in T
  BY <1>1, <1>4, <1>9
<1>11. ASSUME NEW i \in 0..n, i # n, i \in T PROVE i + 1 \in T
  <2>1. i + 1 \in 1..n /\ i + 1 \in 0..n /\ (i + 1) - 1 = i
    BY <1>1, <1>11
  <2>2. C[i + 1] = C[i] + nums[i + 1] /\ F[i + 1] = F[i] + nums[i + 1]
    BY <1>5, <1>9, <2>1
  <2>3. QED
    BY <1>11, <2>1, <2>2
<1>12. n \in 0..n
  BY <1>1
<1>13. n \in T
  <2> HIDE DEF T
  <2>1. QED
    BY <1>1, <1>10, <1>11, <1>12, UpTo
<1>14. F[n] = Total(nums)
  BY <1>8, <1>13
<1>15. QED
  BY <1>4, <1>5, <1>14 DEF n

LEMMA TotalEmpty == Total(<<>>) = 0
<1>1. <<>> \in Seq(Int) /\ Len(<<>>) = 0
  OBVIOUS
<1>2. PICK F \in [0..Len(<<>>) -> Int] : F[0] = 0 /\ F[Len(<<>>)] = Total(<<>>)
  BY <1>1, TotalSteps
<1>3. QED
  BY <1>1, <1>2

LEMMA TotalAppend ==
    ASSUME NEW nums \in Seq(Int), NEW e \in Int
    PROVE  /\ Total(nums) \in Int
           /\ Total(Append(nums, e)) = Total(nums) + e
<1> DEFINE n == Len(nums) more == Append(nums, e)
<1>1. more \in Seq(Int) /\ Len(more) = n + 1 /\ n \in Nat /\ more[n + 1] = e
      /\ \A i \in 1..n : more[i] = nums[i]
  BY AppendProperties
<1>2. PICK F \in [0..n -> Int] :
          /\ F[0] = 0 /\ F[n] = Total(nums)
          /\ \A i \in 1..n : F[i] = F[i - 1] + nums[i]
  BY TotalSteps
<1> HIDE DEF n, more
<1>3. PICK H \in [0..n + 1 -> Int] :
          /\ H[0] = 0 /\ H[n + 1] = Total(more)
          /\ \A i \in 1..n + 1 : H[i] = H[i - 1] + more[i]
  <2>1. \E H \in [0..Len(more) -> Int] :
            /\ H[0] = 0 /\ H[Len(more)] = Total(more)
            /\ \A i \in 1..Len(more) : H[i] = H[i - 1] + more[i]
    BY <1>1, TotalSteps, Zenon
  <2>2. Len(more) = n + 1
    BY <1>1
  <2>3. QED
    BY <2>1, <2>2, Zenon
<1> DEFINE T == {i \in 0..n : H[i] = F[i]}
<1>4. 0 \in T
  BY <1>1, <1>2, <1>3
<1>5. ASSUME NEW i \in 0..n, i # n, i \in T PROVE i + 1 \in T
  <2>1. i + 1 \in 1..n /\ i + 1 \in 0..n /\ i + 1 \in 1..n + 1 /\ (i + 1) - 1 = i
    BY <1>1, <1>5
  <2>2. F[i + 1] = F[i] + nums[i + 1] /\ H[i + 1] = H[i] + more[i + 1]
    BY <1>2, <1>3, <2>1
  <2>3. QED
    BY <1>1, <1>5, <2>1, <2>2
<1>6. n \in 0..n /\ n + 1 \in 1..n + 1 /\ (n + 1) - 1 = n
  BY <1>1
<1>7. n \in T
  <2> HIDE DEF T
  <2>1. QED
    BY <1>1, <1>4, <1>5, <1>6, UpTo
<1>8. H[n + 1] = H[n] + more[n + 1]
  BY <1>3, <1>6
<1>9. F[n] \in Int /\ H[n] = F[n]
  BY <1>2, <1>6, <1>7
<1>10. Total(more) = F[n] + e
  BY <1>1, <1>3, <1>8, <1>9
<1>11. QED
  BY <1>2, <1>9, <1>10 DEF more

LEMMA TotalConcat ==
    ASSUME NEW a \in Seq(Int), NEW b \in Seq(Int)
    PROVE  Total(a \o b) = Total(a) + Total(b)
<1> DEFINE T == {s \in Seq(Int) : Total(a \o s) = Total(a) + Total(s)}
<1>1. <<>> \in T
  <2>1. a \o <<>> = a /\ <<>> \in Seq(Int)
    BY ConcatEmptySeq
  <2>2. Total(a) \in Int
    BY TotalAppend
  <2>3. QED
    BY <2>1, <2>2, TotalEmpty
<1>2. ASSUME NEW s \in Seq(Int), NEW e \in Int, s \in T PROVE Append(s, e) \in T
  <2>1. a \o Append(s, e) = Append(a \o s, e) /\ Append(s, e) \in Seq(Int)
        /\ a \o s \in Seq(Int)
    OBVIOUS
  <2>2. Total(Append(a \o s, e)) = Total(a \o s) + e
        /\ Total(Append(s, e)) = Total(s) + e
        /\ Total(s) \in Int /\ Total(a) \in Int
    BY <2>1, TotalAppend
  <2>3. Total(a \o s) = Total(a) + Total(s)
    BY <1>2
  <2>4. Total(Append(a \o s, e)) = Total(a) + Total(Append(s, e))
    BY <2>2, <2>3
  <2>5. QED
    BY <2>1, <2>4
<1>3. b \in T
  <2> HIDE DEF T
  <2>1. QED
    BY <1>1, <1>2, SeqInduction
<1>4. QED
  BY <1>3

-----------------------------------------------------------------------------
(* The values a bucket has held, and the volume below them.                *)

Held == [num : Int, at : Nat]

LEMMA Joined ==
    ASSUME NEW S, NEW s \in Seq(S), NEW t \in Seq(S)
    PROVE  /\ s \o t \in Seq(S) /\ Len(s \o t) = Len(s) + Len(t)
           /\ \A i \in 1..Len(s) : (s \o t)[i] = s[i]
           /\ \A i \in 1..Len(t) : (s \o t)[Len(s) + i] = t[i]
  OBVIOUS

LEMMA NumsOfType ==
    ASSUME NEW s \in Seq(Held)
    PROVE  /\ NumsOf(s) \in Seq(Int) /\ Len(NumsOf(s)) = Len(s)
           /\ \A i \in 1..Len(s) : NumsOf(s)[i] = s[i].num
<1>1. DOMAIN s = 1..Len(s) /\ Len(s) \in Nat /\ \A i \in 1..Len(s) : s[i].num \in Int
  <2>1. DOMAIN s = 1..Len(s) /\ Len(s) \in Nat /\ \A i \in 1..Len(s) : s[i] \in Held
    OBVIOUS
  <2>2. \A v \in Held : v.num \in Int
    BY DEF Held
  <2>3. QED
    BY <2>1, <2>2
<1> DEFINE f == [i \in 1..Len(s) |-> s[i].num]
<1>2. NumsOf(s) = f
  BY <1>1 DEF NumsOf
<1>3. f \in Seq(Int) /\ Len(f) = Len(s)
  BY <1>1
<1>4. QED
  BY <1>2, <1>3

LEMMA NumsOfConcat ==
    ASSUME NEW s \in Seq(Held), NEW t \in Seq(Held)
    PROVE  NumsOf(s \o t) = NumsOf(s) \o NumsOf(t)
<1> DEFINE m == Len(s) n == Len(t) st == s \o t
           a == NumsOf(s) b == NumsOf(t) c == NumsOf(st)
<1>1. m \in Nat /\ n \in Nat /\ st \in Seq(Held) /\ Len(st) = m + n
      /\ (\A i \in 1..m : st[i] = s[i]) /\ \A i \in 1..n : st[m + i] = t[i]
  BY ConcatProperties
<1>2. /\ a \in Seq(Int) /\ Len(a) = m /\ \A i \in 1..m : a[i] = s[i].num
      /\ b \in Seq(Int) /\ Len(b) = n /\ \A i \in 1..n : b[i] = t[i].num
  BY NumsOfType
<1>3. c \in Seq(Int) /\ Len(c) = m + n /\ \A i \in 1..m + n : c[i] = st[i].num
  <2>1. c \in Seq(Int) /\ Len(c) = Len(st) /\ \A i \in 1..Len(st) : c[i] = st[i].num
    BY <1>1, NumsOfType, Zenon
  <2>2. QED
    BY <1>1, <2>1, Zenon
<1> HIDE DEF m, n, st, a, b, c
<1>4. a \o b \in Seq(Int) /\ Len(a \o b) = m + n
      /\ (\A i \in 1..m : (a \o b)[i] = a[i])
      /\ \A i \in 1..n : (a \o b)[m + i] = b[i]
  <2>1. a \o b \in Seq(Int) /\ Len(a \o b) = Len(a) + Len(b)
        /\ (\A i \in 1..Len(a) : (a \o b)[i] = a[i])
        /\ \A i \in 1..Len(b) : (a \o b)[Len(a) + i] = b[i]
    <3>1. a \in Seq(Int) /\ b \in Seq(Int)
      BY <1>2
    <3>2. QED
      BY <3>1, Joined
  <2>2. QED
    BY <1>2, <2>1, Zenon
<1>5. ASSUME NEW i \in 1..m + n PROVE c[i] = (a \o b)[i]
  <2>1. CASE i \in 1..m
    <3>1. c[i] = st[i].num /\ st[i] = s[i] /\ a[i] = s[i].num /\ (a \o b)[i] = a[i]
      BY <1>1, <1>2, <1>3, <1>4, <2>1
    <3>2. QED
      BY <3>1, Zenon
  <2>2. CASE i \notin 1..m
    <3> DEFINE j == i - m
    <3>1. j \in 1..n /\ i = m + j
      BY <1>1, <2>2
    <3> HIDE DEF j
    <3>2. c[i] = t[j].num /\ (a \o b)[i] = t[j].num
      BY <1>1, <1>2, <1>3, <1>4, <3>1
    <3>3. QED
      BY <3>2
  <2>3. QED
    BY <2>1, <2>2
<1>6. c = a \o b
  BY <1>3, <1>4, <1>5, SeqEqual
<1>7. QED
  BY <1>6 DEF a, b, c, st

LEMMA TimeDiffType ==
    ASSUME NEW x \in Nat, NEW y \in Nat
    PROVE  TimeDiff(x, y) \in Int
<1>1. Second \in Nat \ {0}
  BY SecondAssumption
<1>2. y - x \in Int
  OBVIOUS
<1>3. (y - x) \div Second \in Int /\ (y - x) % Second \in Int
  BY <1>1, <1>2
<1> DEFINE q == (y - x) \div Second r == (y - x) % Second
<1> HIDE DEF q, r
<1>4. q * Second + 10 * r \in Int
  BY <1>1, <1>3 DEF q, r
<1>5. QED
  BY <1>4 DEF TimeDiff, q, r

(***************************************************************************)
(* The areas between each value and the one before.                        *)
(***************************************************************************)
Area(x, y) == (x.num + y.num) * TimeDiff(x.at, y.at)
Areas(s) == [i \in 1..Len(s) |-> IF i = 1 THEN 0 ELSE Area(s[i - 1], s[i])]
Volume(s) == Total(Areas(s))

LEMMA VolumeIs ==
    ASSUME NEW s \in Seq(Held)
    PROVE  Trapezoids(s, TimeDiff) = Volume(s)
  BY DEF Trapezoids, Volume, Areas, Area

LEMMA AreaType ==
    ASSUME NEW x \in Held, NEW y \in Held
    PROVE  Area(x, y) \in Int
<1>1. x.num + y.num \in Int /\ x.at \in Nat /\ y.at \in Nat
  BY DEF Held
<1>2. TimeDiff(x.at, y.at) \in Int
  BY <1>1, TimeDiffType
<1>3. QED
  BY <1>1, <1>2 DEF Area

LEMMA AreasType ==
    ASSUME NEW s \in Seq(Held)
    PROVE  /\ Areas(s) \in Seq(Int) /\ Len(Areas(s)) = Len(s)
           /\ \A i \in 1..Len(s) :
                  Areas(s)[i] = IF i = 1 THEN 0 ELSE Area(s[i - 1], s[i])
<1>1. Len(s) \in Nat /\ \A i \in 1..Len(s) : s[i] \in Held
  OBVIOUS
<1>2. ASSUME NEW i \in 1..Len(s)
      PROVE  (IF i = 1 THEN 0 ELSE Area(s[i - 1], s[i])) \in Int
  <2>1. i # 1 => i - 1 \in 1..Len(s)
    BY <1>1
  <2>2. i # 1 => Area(s[i - 1], s[i]) \in Int
    BY <1>1, <2>1, AreaType
  <2>3. QED
    BY <2>2
<1>3. QED
  BY <1>1, <1>2 DEF Areas

LEMMA VolumeType ==
    ASSUME NEW s \in Seq(Held)
    PROVE  Volume(s) \in Int
  BY AreasType, TotalAppend DEF Volume

(***************************************************************************)
(* Of two sequences the areas are those of each and the one in between.    *)
(***************************************************************************)
LEMMA VolumeConcat ==
    ASSUME NEW s \in Seq(Held), NEW t \in Seq(Held), s # <<>>, t # <<>>
    PROVE  Volume(s \o t) = Volume(s) + Volume(t) + Area(s[Len(s)], t[1])
<1> DEFINE m == Len(s) n == Len(t) st == s \o t
           a == Areas(s) b == Areas(t) c == Areas(st)
           r == [i \in 1..n - 1 |-> b[i + 1]]
           gap == Area(s[m], t[1])
<1>1. m \in Nat \ {0} /\ n \in Nat \ {0} /\ st \in Seq(Held) /\ Len(st) = m + n
      /\ (\A i \in 1..m : st[i] = s[i]) /\ \A i \in 1..n : st[m + i] = t[i]
  BY ConcatProperties, EmptySeq
<1>2. /\ a \in Seq(Int) /\ Len(a) = m
      /\ \A i \in 1..m : a[i] = IF i = 1 THEN 0 ELSE Area(s[i - 1], s[i])
  BY AreasType
<1>3. /\ b \in Seq(Int) /\ Len(b) = n
      /\ \A i \in 1..n : b[i] = IF i = 1 THEN 0 ELSE Area(t[i - 1], t[i])
  BY AreasType
<1>4. /\ c \in Seq(Int) /\ Len(c) = m + n
      /\ \A i \in 1..m + n : c[i] = IF i = 1 THEN 0 ELSE Area(st[i - 1], st[i])
  <2>1. /\ c \in Seq(Int) /\ Len(c) = Len(st)
        /\ \A i \in 1..Len(st) : c[i] = IF i = 1 THEN 0 ELSE Area(st[i - 1], st[i])
    BY <1>1, AreasType, Zenon
  <2>2. QED
    BY <1>1, <2>1, Zenon
<1>5. gap \in Int
  <2>1. s[m] \in Held /\ t[1] \in Held
    BY <1>1
  <2>2. QED
    BY <2>1, AreaType
<1>6. Volume(s) = Total(a) /\ Volume(t) = Total(b) /\ Volume(st) = Total(c)
  BY DEF Volume
<1> HIDE DEF m, n, st, a, b, c, gap
<1>7. r \in Seq(Int) /\ Len(r) = n - 1 /\ \A i \in 1..n - 1 : r[i] = b[i + 1]
  <2>1. \A i \in 1..n - 1 : b[i + 1] \in Int
    BY <1>1, <1>3
  <2>2. n - 1 \in Nat
    BY <1>1
  <2>3. QED
    BY <2>1, <2>2
<1> HIDE DEF r
<1>8. ASSUME NEW x \in Int
      PROVE  /\ <<x>> \o r \in Seq(Int) /\ Len(<<x>> \o r) = n
             /\ (<<x>> \o r)[1] = x
             /\ \A i \in 2..n : (<<x>> \o r)[i] = b[i]
             /\ Total(<<x>> \o r) = x + Total(r) /\ Total(r) \in Int
  <2>1. <<x>> \in Seq(Int) /\ Len(<<x>>) = 1 /\ <<x>>[1] = x
    OBVIOUS
  <2>2. /\ <<x>> \o r \in Seq(Int) /\ Len(<<x>> \o r) = 1 + (n - 1)
        /\ (<<x>> \o r)[1] = x /\ \A i \in 1..n - 1 : (<<x>> \o r)[1 + i] = r[i]
    BY <1>7, <2>1, ConcatProperties
  <2>3. ASSUME NEW i \in 2..n PROVE (<<x>> \o r)[i] = b[i]
    <3>1. i - 1 \in 1..n - 1 /\ 1 + (i - 1) = i /\ (i - 1) + 1 = i
      BY <1>1
    <3>2. QED
      BY <1>7, <2>2, <3>1
  <2>4. Total(<<x>>) = x
    <3>1. <<x>> = Append(<<>>, x) /\ <<>> \in Seq(Int)
      OBVIOUS
    <3>2. Total(Append(<<>>, x)) = Total(<<>>) + x
      BY <3>1, TotalAppend
    <3>3. QED
      BY <3>1, <3>2, TotalEmpty
  <2>5. Total(<<x>> \o r) = Total(<<x>>) + Total(r) /\ Total(r) \in Int
    BY <1>7, <2>1, TotalConcat, TotalAppend
  <2>6. 1 + (n - 1) = n
    BY <1>1
  <2>7. QED
    BY <2>2, <2>3, <2>4, <2>5, <2>6
<1>9. b = <<0>> \o r
  <2> DEFINE d == <<0>> \o r
  <2>1. d \in Seq(Int) /\ Len(d) = n /\ d[1] = 0 /\ \A i \in 2..n : d[i] = b[i]
    BY <1>8
  <2> HIDE DEF d
  <2>2. \A i \in 1..n : b[i] = d[i]
    BY <1>1, <1>3, <2>1
  <2>3. b = d
    BY <1>3, <2>1, <2>2, SeqEqual
  <2>4. QED
    BY <2>3 DEF d
<1>10. c = a \o (<<gap>> \o r)
  <2> DEFINE d == <<gap>> \o r e == a \o d
  <2>1. d \in Seq(Int) /\ Len(d) = n /\ d[1] = gap /\ \A i \in 2..n : d[i] = b[i]
    BY <1>5, <1>8
  <2> HIDE DEF d
  <2>2. e \in Seq(Int) /\ Len(e) = m + n /\ (\A i \in 1..m : e[i] = a[i])
        /\ \A i \in 1..n : e[m + i] = d[i]
    <3>1. e \in Seq(Int) /\ Len(e) = Len(a) + Len(d)
          /\ (\A i \in 1..Len(a) : e[i] = a[i])
          /\ \A i \in 1..Len(d) : e[Len(a) + i] = d[i]
      <4>1. a \in Seq(Int) /\ d \in Seq(Int)
        BY <1>2, <2>1
      <4>2. QED
        BY <4>1, Joined DEF e
    <3>2. QED
      BY <1>2, <2>1, <3>1, Zenon
  <2> HIDE DEF e
  <2>3. ASSUME NEW i \in 1..m + n PROVE c[i] = e[i]
    <3>1. CASE i \in 1..m
      <4>1. i # 1 => i - 1 \in 1..m
        BY <1>1, <3>1
      <4>2. st[i] = s[i] /\ (i # 1 => st[i - 1] = s[i - 1])
        BY <1>1, <3>1, <4>1
      <4>3. c[i] = IF i = 1 THEN 0 ELSE Area(s[i - 1], s[i])
        BY <1>4, <4>2
      <4>4. QED
        BY <1>2, <2>2, <3>1, <4>3
    <3>2. CASE i = m + 1
      <4>1. 1 \in 1..n /\ m \in 1..m /\ i - 1 = m /\ i # 1
        BY <1>1, <3>2
      <4>2. st[i] = t[1] /\ st[i - 1] = s[m]
        BY <1>1, <3>2, <4>1
      <4>3. c[i] = gap
        BY <1>4, <4>1, <4>2 DEF gap
      <4>4. e[i] = d[1]
        BY <2>2, <3>2, <4>1
      <4>5. QED
        BY <2>1, <4>3, <4>4
    <3>3. CASE i \notin 1..m /\ i # m + 1
      <4> DEFINE j == i - m
      <4>1. j \in 2..n /\ j \in 1..n /\ j - 1 \in 1..n /\ j # 1 /\ i # 1
            /\ i = m + j /\ i - 1 = m + (j - 1)
        BY <1>1, <3>3
      <4> HIDE DEF j
      <4>2. st[i] = t[j] /\ st[i - 1] = t[j - 1]
        BY <1>1, <4>1
      <4>3. c[i] = Area(t[j - 1], t[j])
        BY <1>4, <4>1, <4>2
      <4>4. b[j] = Area(t[j - 1], t[j])
        BY <1>3, <4>1
      <4>5. e[i] = d[j] /\ d[j] = b[j]
        BY <2>1, <2>2, <4>1
      <4>6. QED
        BY <4>3, <4>4, <4>5
    <3>4. QED
      BY <3>1, <3>2, <3>3
  <2>4. c = e
    BY <1>4, <2>2, <2>3, SeqEqual
  <2>5. QED
    BY <2>4 DEF e, d
<1>11. Total(c) = Total(a) + Total(<<gap>> \o r)
  BY <1>2, <1>5, <1>8, <1>10, TotalConcat
<1>12. Total(<<gap>> \o r) = gap + Total(r) /\ Total(b) = 0 + Total(r)
       /\ Total(r) \in Int
  BY <1>5, <1>8, <1>9
<1>13. Total(a) \in Int
  BY <1>2, TotalAppend
<1>14. Total(c) = Total(a) + Total(b) + gap
  BY <1>5, <1>11, <1>12, <1>13
<1>15. QED
  BY <1>6, <1>14 DEF st, gap, m

-----------------------------------------------------------------------------
(* What the intermediate value of a bucket says of the values it has held. *)

Best(op, x, y) == IF op = "min" THEN x <= y ELSE y <= x
Extreme(w, v, s) ==
    \E i \in 1..Len(s) :
        /\ v = Value(w.ty, s[i].num)
        /\ \A j \in 1..Len(s) : Best(w.op, s[i].num, s[j].num)
Sum(w, s) == Value(w.ty, Total(NumsOf(s)))

Holds(w, iv, s) ==
    CASE w.op = "count" -> iv = Len(s)
      [] w.op = "sum" -> iv = Sum(w, s)
      [] w.op \in {"min", "max"} -> IF s = <<>> THEN iv = None ELSE Extreme(w, iv, s)
      [] w.op = "avg" ->
             iv = [sum |-> IF s = <<>> THEN None ELSE Sum(w, s), num |-> Len(s)]
      [] w.op = "conj" -> iv = (\A i \in 1..Len(s) : s[i].num = 1)
      [] w.op = "disj" -> iv = (\E i \in 1..Len(s) : s[i].num = 1)
      [] w.op = "integral" ->
             /\ iv.valid = (s # <<>>) /\ iv.volume = Volume(s)
             /\ s # <<>> => /\ iv.startValue = s[1].num /\ iv.startTime = s[1].at
                            /\ iv.endValue = s[Len(s)].num
                            /\ iv.endTime = s[Len(s)].at

Ops == {"count", "sum", "min", "max", "avg", "conj", "disj", "integral"}

LEMMA Windowed ==
    ASSUME NEW w \in Supported
    PROVE  /\ w.op \in Ops
           /\ w.op \notin {"count", "conj", "disj"} => w.ty \in Numeric
           /\ w.op \in {"conj", "disj"} => w.ty = "Bool"
  BY DEF Supported, Ops

LEMMA VolumeOfNone == Volume(<<>>) = 0
<1>1. Areas(<<>>) = <<>>
  BY DEF Areas
<1>2. QED
  BY <1>1, TotalEmpty DEF Volume

LEMMA NumsOfNone == NumsOf(<<>>) = <<>>
  BY DEF NumsOf

(* The neutral elements hold nothing.                                       *)
LEMMA DefaultHolds ==
    ASSUME NEW w \in Supported, NEW ts
    PROVE  Holds(w, Default(w, ts), <<>>)
<1>1. w.op \in Ops /\ Len(<<>>) = 0 /\ <<>> = <<>>
  BY Windowed
<1>2. CASE w.op = "count"
  BY <1>1, <1>2 DEF Holds, Default
<1>3. CASE w.op = "sum"
  <2>1. w.ty \in Numeric
    BY <1>3, Windowed
  <2>2. Default(w, ts) = Value(w.ty, 0)
    BY <1>3, <2>1 DEF Default, FromValue, Value, Numeric
  <2>3. Sum(w, <<>>) = Value(w.ty, 0)
    BY NumsOfNone, TotalEmpty DEF Sum
  <2>4. QED
    BY <1>3, <2>2, <2>3 DEF Holds
<1>4. CASE w.op \in {"min", "max"}
  BY <1>1, <1>4 DEF Holds, Default
<1>5. CASE w.op = "avg"
  BY <1>1, <1>5 DEF Holds, Default
<1>6. CASE w.op = "conj"
  <2>1. (\A i \in 1..Len(<<>>) : <<>>[i].num = 1) = TRUE
    BY <1>1
  <2>2. Default(w, ts) = TRUE
    BY <1>6 DEF Default
  <2>3. QED
    BY <1>6, <2>1, <2>2 DEF Holds
<1>7. CASE w.op = "disj"
  <2>1. (\E i \in 1..Len(<<>>) : <<>>[i].num = 1) = FALSE
    BY <1>1
  <2>2. Default(w, ts) = FALSE
    BY <1>7 DEF Default
  <2>3. QED
    BY <1>7, <2>1, <2>2 DEF Holds
<1>8. CASE w.op = "integral"
  <2>1. Default(w, ts).valid = FALSE /\ Default(w, ts).volume = 0
    BY <1>8 DEF Default
  <2>2. QED
    BY <1>1, <1>8, <2>1, VolumeOfNone DEF Holds
<1>9. QED
  BY <1>1, <1>2, <1>3, <1>4, <1>5, <1>6, <1>7, <1>8 DEF Ops

LEMMA OneOf ==
    ASSUME NEW e \in Held
    PROVE  /\ <<e>> \in Seq(Held) /\ Len(<<e>>) = 1 /\ <<e>>[1] = e /\ <<e>> # <<>>
           /\ Total(NumsOf(<<e>>)) = e.num
           /\ Volume(<<e>>) = 0
<1>1. <<e>> \in Seq(Held) /\ Len(<<e>>) = 1 /\ <<e>>[1] = e /\ <<e>> # <<>>
  OBVIOUS
<1>2. \A x \in Int : Total(<<x>>) = x
  <2> TAKE x \in Int
  <2>1. <<x>> = Append(<<>>, x) /\ <<>> \in Seq(Int)
    OBVIOUS
  <2>2. Total(Append(<<>>, x)) = Total(<<>>) + x
    BY <2>1, TotalAppend
  <2>3. QED
    BY <2>1, <2>2, TotalEmpty
<1>3. NumsOf(<<e>>) = <<e.num>> /\ e.num \in Int
  BY DEF NumsOf, Held
<1>4. Areas(<<e>>) = <<0>> /\ 0 \in Int
  BY DEF Areas
<1>5. QED
  BY <1>1, <1>2, <1>3, <1>4 DEF Volume

(* A single value is held by its intermediate value.                        *)
Accepted(w) == {e \in Held : w.ty = "Bool" => e.num \in {0, 1}}

LEMMA SingleHolds ==
    ASSUME NEW w \in Supported, NEW e \in Accepted(w)
    PROVE  Holds(w, Single(w, Value(w.ty, e.num), e.at), <<e>>)
<1> DEFINE s == <<e>> iv == Single(w, Value(w.ty, e.num), e.at)
<1> SUFFICES Holds(w, iv, s)
  OBVIOUS
<1>1. e \in Held /\ e.num \in Int
  BY DEF Accepted, Held
<1>2. /\ s \in Seq(Held) /\ Len(s) = 1 /\ s[1] = e /\ s # <<>>
      /\ Total(NumsOf(s)) = e.num /\ Volume(s) = 0
  BY <1>1, OneOf
<1>3. w.op \in Ops
  BY Windowed
<1>4. ASSUME w.op \in {"sum", "avg"}
      PROVE  FromValue(w.ty, Value(w.ty, e.num)) = Sum(w, s)
  <2>1. w.ty \in Numeric
    BY <1>4, Windowed
  <2>2. FromValue(w.ty, Value(w.ty, e.num)) = Value(w.ty, e.num)
    BY <2>1 DEF FromValue, Value, Numeric
  <2>3. QED
    BY <1>2, <2>2 DEF Sum
<1> HIDE DEF s, iv
<1>5. CASE w.op = "count"
  BY <1>2, <1>5 DEF Holds, Single, iv
<1>6. CASE w.op = "sum"
  <2>1. iv = Sum(w, s)
    BY <1>4, <1>6 DEF Single, iv
  <2>2. QED
    BY <1>6, <2>1 DEF Holds
<1>7. CASE w.op \in {"min", "max"}
  <2>1. iv = Value(w.ty, e.num)
    BY <1>7 DEF Single, iv
  <2>2. Best(w.op, e.num, e.num)
    BY <1>1 DEF Best
  <2>3. 1 \in 1..Len(s) /\ \A j \in 1..Len(s) : s[j] = e
    BY <1>2
  <2>4. Extreme(w, iv, s)
    BY <2>1, <2>2, <2>3 DEF Extreme
  <2>5. QED
    BY <1>2, <1>7, <2>4 DEF Holds
<1>8. CASE w.op = "avg"
  <2>1. iv = [sum |-> Sum(w, s), num |-> 1]
    BY <1>4, <1>8 DEF Single, iv
  <2>2. QED
    BY <1>2, <1>8, <2>1 DEF Holds
<1>9. CASE w.op \in {"conj", "disj"}
  <2>1. iv = (e.num = 1)
    BY <1>9 DEF Single, Value, iv
  <2>2. 1 \in 1..Len(s) /\ \A j \in 1..Len(s) : s[j] = e
    BY <1>2
  <2>3. (\A i \in 1..Len(s) : s[i].num = 1) = (e.num = 1)
        /\ (\E i \in 1..Len(s) : s[i].num = 1) = (e.num = 1)
    BY <2>2
  <2>4. iv = (\A i \in 1..Len(s) : s[i].num = 1)
        /\ iv = (\E i \in 1..Len(s) : s[i].num = 1)
    BY <2>1, <2>3
  <2>5. QED
    BY <1>9, <2>4 DEF Holds
<1>10. CASE w.op = "integral"
  <2>1. iv = [volume |-> 0, endValue |-> e.num, endTime |-> e.at,
              startValue |-> e.num, startTime |-> e.at, valid |-> TRUE]
    BY <1>10 DEF Single, Value, iv
  <2>2. QED
    BY <1>2, <1>10, <2>1 DEF Holds
<1>11. QED
  BY <1>3, <1>5, <1>6, <1>7, <1>8, <1>9, <1>10 DEF Ops

-----------------------------------------------------------------------------
(* Adding two intermediate values: what both hold, one behind the other.   *)

LEMMA SumJoined ==
    ASSUME NEW s \in Seq(Held), NEW t \in Seq(Held)
    PROVE  /\ Total(NumsOf(s \o t))
                  = Total(NumsOf(s)) + Total(NumsOf(t))
           /\ Total(NumsOf(s)) \in Int /\ Total(NumsOf(t)) \in Int
<1>1. NumsOf(s) \in Seq(Int) /\ NumsOf(t) \in Seq(Int)
  BY NumsOfType
<1>2. NumsOf(s \o t) = NumsOf(s) \o NumsOf(t)
  BY NumsOfConcat
<1> DEFINE x == NumsOf(s) y == NumsOf(t)
<1> HIDE DEF x, y
<1>3. Total(x \o y) = Total(x) + Total(y)
      /\ Total(x) \in Int /\ Total(y) \in Int
  BY <1>1, TotalConcat, TotalAppend DEF x, y
<1>4. QED
  BY <1>2, <1>3 DEF x, y

LEMMA SumOfSums ==
    ASSUME NEW w \in Supported, w.op \in {"sum", "avg"},
           NEW s \in Seq(Held), NEW t \in Seq(Held)
    PROVE  /\ Plus(Sum(w, s), Sum(w, t)) = Sum(w, s \o t)
           /\ FromValue(w.ty, Sum(w, s \o t)) = Sum(w, s \o t)
           /\ Sum(w, s) # None /\ Sum(w, t) # None
<1>1. w.ty \in {"Unsigned", "Signed", "Float"}
  BY Windowed DEF Numeric
<1> DEFINE x == Total(NumsOf(s)) y == Total(NumsOf(t))
           z == Total(NumsOf(s \o t))
<1>2. z = x + y
  BY SumJoined
<1>3. Sum(w, s) = Value(w.ty, x) /\ Sum(w, t) = Value(w.ty, y)
      /\ Sum(w, s \o t) = Value(w.ty, z)
  BY DEF Sum
<1> HIDE DEF x, y, z
<1>4. Plus(Value(w.ty, x), Value(w.ty, y)) = Value(w.ty, x + y)
  BY <1>1 DEF Plus, Value
<1>5. FromValue(w.ty, Value(w.ty, z)) = Value(w.ty, z)
  BY <1>1 DEF FromValue, Value
<1>6. \A n : Value(w.ty, n) # None
  BY <1>1 DEF Value, None
<1>7. QED
  BY <1>2, <1>3, <1>4, <1>5, <1>6

LEMMA NumOfMember ==
    ASSUME NEW s \in Seq(Held), NEW i \in 1..Len(s)
    PROVE  s[i] \in Held /\ s[i].num \in Int /\ s[i].at \in Nat
<1>1. s[i] \in Held
  OBVIOUS
<1>2. QED
  BY <1>1 DEF Held

LEMMA BetterOf ==
    ASSUME NEW op \in {"min", "max"}, NEW kind, kind # "None",
           NEW x \in Int, NEW y \in Int
    PROVE  \E z \in {x, y} :
               /\ AddExtreme(op, Value(kind, x), Value(kind, y))
                      = Value(kind, z)
               /\ Best(op, z, x) /\ Best(op, z, y)
<1>1. PICK low \in {x, y} : low <= x /\ low <= y
  OBVIOUS
<1>2. PICK high \in {x, y} : x <= high /\ y <= high
  OBVIOUS
<1>3. Min({x, y}) \in {x, y} /\ Min({x, y}) <= x /\ Min({x, y}) <= y
  BY <1>1 DEF Min
<1>4. Max({x, y}) \in {x, y} /\ Max({x, y}) >= x /\ Max({x, y}) >= y
  BY <1>2 DEF Max
<1>5. AddExtreme(op, Value(kind, x), Value(kind, y))
          = Value(kind, IF op = "min" THEN Min({x, y}) ELSE Max({x, y}))
  BY DEF AddExtreme, Value
<1>6. CASE op = "min"
  BY <1>3, <1>5, <1>6 DEF Best
<1>7. CASE op = "max"
  BY <1>4, <1>5, <1>7 DEF Best
<1>8. QED
  BY <1>6, <1>7

LEMMA BestJoins ==
    ASSUME NEW op \in {"min", "max"}, NEW x \in Int, NEW y \in Int, NEW z \in Int,
           Best(op, x, y), Best(op, y, z)
    PROVE  Best(op, x, z)
  BY DEF Best

LEMMA ExtremeJoined ==
    ASSUME NEW w \in Supported, w.op \in {"min", "max"},
           NEW s \in Seq(Held), NEW t \in Seq(Held), NEW a, NEW b,
           Extreme(w, a, s), Extreme(w, b, t)
    PROVE  Extreme(w, AddExtreme(w.op, a, b), s \o t)
<1> DEFINE st == s \o t m == Len(s) n == Len(t) c == AddExtreme(w.op, a, b)
<1>1. w.ty # "None"
  BY Windowed DEF Numeric
<1>2. PICK i \in 1..m : a = Value(w.ty, s[i].num)
                        /\ \A k \in 1..m : Best(w.op, s[i].num, s[k].num)
  BY DEF Extreme
<1>3. PICK j \in 1..n : b = Value(w.ty, t[j].num)
                        /\ \A k \in 1..n : Best(w.op, t[j].num, t[k].num)
  BY DEF Extreme
<1>4. s[i].num \in Int /\ t[j].num \in Int
  BY NumOfMember
<1>5. PICK z \in {s[i].num, t[j].num} :
          c = Value(w.ty, z) /\ Best(w.op, z, s[i].num) /\ Best(w.op, z, t[j].num)
  BY <1>1, <1>2, <1>3, <1>4, BetterOf
<1>6. /\ Len(st) = m + n /\ m \in Nat /\ n \in Nat
      /\ (\A k \in 1..m : st[k] = s[k]) /\ \A k \in 1..n : st[m + k] = t[k]
  BY Joined
<1> HIDE DEF st, m, n, c
<1>7. ASSUME NEW k \in 1..m + n PROVE Best(w.op, z, st[k].num)
  <2>1. CASE k \in 1..m
    <3>1. s[k].num \in Int /\ st[k] = s[k] /\ Best(w.op, s[i].num, s[k].num)
      BY <1>2, <1>6, <2>1, NumOfMember DEF m
    <3>2. QED
      BY <1>4, <1>5, <3>1, BestJoins
  <2>2. CASE k \notin 1..m
    <3>1. k - m \in 1..n /\ k = m + (k - m)
      BY <1>6, <2>2
    <3>2. /\ t[k - m].num \in Int /\ st[k] = t[k - m]
          /\ Best(w.op, t[j].num, t[k - m].num)
      BY <1>3, <1>6, <3>1, NumOfMember DEF n
    <3>3. QED
      BY <1>4, <1>5, <3>2, BestJoins
  <2>3. QED
    BY <2>1, <2>2
<1>8. \E l \in 1..m + n : st[l].num = z
  <2>1. CASE z = s[i].num
    <3>1. i \in 1..m + n /\ st[i] = s[i]
      BY <1>6
    <3>2. QED
      BY <2>1, <3>1
  <2>2. CASE z = t[j].num
    <3>1. m + j \in 1..m + n /\ st[m + j] = t[j]
      BY <1>6
    <3>2. QED
      BY <2>2, <3>1
  <2>3. QED
    BY <1>5, <2>1, <2>2
<1>9. Extreme(w, c, st)
  <2>1. PICK l \in 1..m + n : st[l].num = z
    BY <1>8
  <2>2. l \in 1..Len(st) /\ c = Value(w.ty, st[l].num)
    BY <1>5, <1>6, <2>1
  <2>3. \A k \in 1..Len(st) : Best(w.op, st[l].num, st[k].num)
    BY <1>6, <1>7, <2>1
  <2>4. QED
    BY <2>2, <2>3 DEF Extreme
<1>10. QED
  BY <1>9 DEF c, st

LEMMA NothingJoined ==
    ASSUME NEW s \in Seq(Held), NEW t \in Seq(Held)
    PROVE  /\ s = <<>> => s \o t = t
           /\ t = <<>> => s \o t = s
           /\ s # <<>> => s \o t # <<>> /\ Len(s) \in 1..Len(s) /\ 1 \in 1..Len(s)
           /\ t # <<>> => s \o t # <<>> /\ Len(t) \in 1..Len(t) /\ 1 \in 1..Len(t)
<1>1. /\ s = <<>> => s \o t = t
      /\ t = <<>> => s \o t = s
  BY ConcatEmptySeq
<1>2. /\ s # <<>> => Len(s) \in 1..Len(s) /\ 1 \in 1..Len(s)
      /\ t # <<>> => Len(t) \in 1..Len(t) /\ 1 \in 1..Len(t)
  BY EmptySeq, LenProperties
<1>3. Len(s \o t) = Len(s) + Len(t) /\ Len(s) \in Nat /\ Len(t) \in Nat
  BY Joined
<1>4. s \o t = <<>> => Len(s) = 0 /\ Len(t) = 0
  <2>1. Len(<<>>) = 0
    OBVIOUS
  <2>2. QED
    BY <1>3, <2>1
<1>5. QED
  BY <1>1, <1>2, <1>4

LEMMA IntegralJoined ==
    ASSUME NEW w, w.op = "integral",
           NEW s \in Seq(Held), NEW t \in Seq(Held), NEW a, NEW b,
           Holds(w, a, s), Holds(w, b, t)
    PROVE  Holds(w, AddIntegral(a, b), s \o t)
<1> DEFINE IsIntegral(iv, v) ==
              /\ iv.valid = (v # <<>>) /\ iv.volume = Volume(v)
              /\ v # <<>> => /\ iv.startValue = v[1].num /\ iv.startTime = v[1].at
                             /\ iv.endValue = v[Len(v)].num
                             /\ iv.endTime = v[Len(v)].at
           c == AddIntegral(a, b) st == s \o t
<1>1. \A iv, v : Holds(w, iv, v) = IsIntegral(iv, v)
  BY DEF Holds
<1>2. IsIntegral(a, s) /\ IsIntegral(b, t)
  BY <1>1
<1> SUFFICES IsIntegral(c, st)
  BY <1>1
<1>3. CASE t = <<>>
  <2>1. c = a
    BY <1>2, <1>3 DEF AddIntegral
  <2>2. st = s
    BY <1>3, NothingJoined
  <2>3. QED
    BY <1>2, <2>1, <2>2
<1>4. CASE t # <<>> /\ s = <<>>
  <2>1. c = b
    BY <1>2, <1>4 DEF AddIntegral
  <2>2. st = t
    BY <1>4, NothingJoined
  <2>3. QED
    BY <1>2, <2>1, <2>2
<1>5. CASE t # <<>> /\ s # <<>>
  <2>1. a.valid /\ b.valid
    BY <1>2, <1>5
  <2>2. c = [volume |-> a.volume + b.volume
                 + (b.startValue + a.endValue) * TimeDiff(a.endTime, b.startTime),
             endValue |-> b.endValue, endTime |-> b.endTime,
             startValue |-> a.startValue, startTime |-> a.startTime, valid |-> TRUE]
    BY <2>1 DEF AddIntegral
  <2>3. /\ st # <<>> /\ Len(s) \in 1..Len(s) /\ 1 \in 1..Len(s)
        /\ Len(t) \in 1..Len(t) /\ 1 \in 1..Len(t)
    BY <1>5, NothingJoined
  <2>4. Len(st) = Len(s) + Len(t) /\ st[1] = s[1] /\ st[Len(s) + Len(t)] = t[Len(t)]
    BY <2>3, Joined
  <2>5. Volume(st) = Volume(s) + Volume(t) + Area(s[Len(s)], t[1])
    BY <1>5, VolumeConcat
  <2>6. Area(s[Len(s)], t[1])
            = (b.startValue + a.endValue) * TimeDiff(a.endTime, b.startTime)
    <3>1. s[Len(s)].num \in Int /\ t[1].num \in Int
      BY <2>3, NumOfMember
    <3>2. s[Len(s)].num + t[1].num = t[1].num + s[Len(s)].num
      BY <3>1
    <3>3. QED
      BY <1>2, <1>5, <3>2 DEF Area
  <2>7. c.volume = Volume(st)
    BY <1>2, <2>2, <2>5, <2>6
  <2> HIDE DEF st, c
  <2>8. /\ c.valid = TRUE /\ c.startValue = a.startValue /\ c.startTime = a.startTime
        /\ c.endValue = b.endValue /\ c.endTime = b.endTime
    BY <2>2
  <2>9. QED
    BY <1>2, <1>5, <2>3, <2>4, <2>7, <2>8
<1>6. QED
  BY <1>3, <1>4, <1>5

LEMMA TruthJoined ==
    ASSUME NEW s \in Seq(Held), NEW t \in Seq(Held)
    PROVE  /\ (\A i \in 1..Len(s \o t) : (s \o t)[i].num = 1)
                  <=> /\ \A i \in 1..Len(s) : s[i].num = 1
                      /\ \A i \in 1..Len(t) : t[i].num = 1
           /\ (\E i \in 1..Len(s \o t) : (s \o t)[i].num = 1)
                  <=> \/ \E i \in 1..Len(s) : s[i].num = 1
                      \/ \E i \in 1..Len(t) : t[i].num = 1
<1> DEFINE st == s \o t m == Len(s) n == Len(t)
<1>1. /\ Len(st) = m + n /\ m \in Nat /\ n \in Nat
      /\ (\A k \in 1..m : st[k] = s[k]) /\ \A k \in 1..n : st[m + k] = t[k]
  BY Joined
<1> HIDE DEF st, m, n
<1>2. ASSUME NEW k \in 1..m + n
      PROVE  (k \in 1..m /\ st[k] = s[k]) \/ \E l \in 1..n : st[k] = t[l]
  <2>1. k \notin 1..m => k - m \in 1..n /\ m + (k - m) = k
    BY <1>1
  <2>2. QED
    BY <1>1, <2>1
<1>3. /\ \A k \in 1..m : k \in 1..m + n
      /\ \A k \in 1..n : m + k \in 1..m + n
  BY <1>1
<1>4. (\A i \in 1..m + n : st[i].num = 1)
          <=> (\A i \in 1..m : s[i].num = 1) /\ (\A i \in 1..n : t[i].num = 1)
  <2>1. ASSUME \A i \in 1..m + n : st[i].num = 1
        PROVE  (\A i \in 1..m : s[i].num = 1) /\ (\A i \in 1..n : t[i].num = 1)
    <3>1. ASSUME NEW i \in 1..m PROVE s[i].num = 1
      BY <1>1, <1>3, <2>1
    <3>2. ASSUME NEW i \in 1..n PROVE t[i].num = 1
      BY <1>1, <1>3, <2>1
    <3>3. QED
      BY <3>1, <3>2
  <2>2. ASSUME \A i \in 1..m : s[i].num = 1, \A i \in 1..n : t[i].num = 1,
               NEW i \in 1..m + n
        PROVE  st[i].num = 1
    BY <1>2, <2>2
  <2>3. QED
    BY <2>1, <2>2
<1>5. (\E i \in 1..m + n : st[i].num = 1)
          <=> (\E i \in 1..m : s[i].num = 1) \/ (\E i \in 1..n : t[i].num = 1)
  <2>1. ASSUME NEW i \in 1..m, s[i].num = 1 PROVE \E k \in 1..m + n : st[k].num = 1
    <3>1. i \in 1..m + n /\ st[i].num = 1
      BY <1>1, <1>3, <2>1
    <3>2. QED
      BY <3>1
  <2>2. ASSUME NEW i \in 1..n, t[i].num = 1 PROVE \E k \in 1..m + n : st[k].num = 1
    <3>1. m + i \in 1..m + n /\ st[m + i].num = 1
      BY <1>1, <1>3, <2>2
    <3>2. QED
      BY <3>1
  <2>3. ASSUME NEW k \in 1..m + n, st[k].num = 1
        PROVE  (\E i \in 1..m : s[i].num = 1) \/ (\E i \in 1..n : t[i].num = 1)
    BY <1>2, <2>3
  <2>4. QED
    BY <2>1, <2>2, <2>3
<1>6. QED
  BY <1>1, <1>4, <1>5 DEF st, m, n

(***************************************************************************)
(* The sum of two intermediate values holds the values of both, whatever   *)
(* the operation.                                                          *)
(***************************************************************************)
LEMMA AddHolds ==
    ASSUME NEW w \in Supported,
           NEW s \in Seq(Held), NEW t \in Seq(Held), NEW a, NEW b,
           Holds(w, a, s), Holds(w, b, t)
    PROVE  Holds(w, AddIV(w, a, b), s \o t)
<1> DEFINE c == AddIV(w, a, b) st == s \o t
<1> SUFFICES Holds(w, c, st)
  OBVIOUS
<1>1. Len(st) = Len(s) + Len(t) /\ Len(s) \in Nat /\ Len(t) \in Nat
  BY Joined
<1>2. w.op \in Ops
  BY Windowed
<1>3. CASE w.op = "count"
  <2>1. c = a + b /\ a = Len(s) /\ b = Len(t)
    BY <1>3 DEF Holds, AddIV
  <2>2. QED
    BY <1>1, <1>3, <2>1 DEF Holds
<1>4. CASE w.op = "sum"
  <2>1. c = FromValue(w.ty, Plus(a, b)) /\ a = Sum(w, s) /\ b = Sum(w, t)
    BY <1>4 DEF Holds, AddIV
  <2>2. c = Sum(w, st)
    BY <1>4, <2>1, SumOfSums
  <2> HIDE DEF c, st
  <2>3. QED
    BY <1>4, <2>2 DEF Holds
<1>5. CASE w.op \in {"min", "max"}
  <2> DEFINE Is(v, q) == IF q = <<>> THEN v = None ELSE Extreme(w, v, q)
  <2>1. \A v, q : Holds(w, v, q) = Is(v, q)
    BY <1>5 DEF Holds
  <2>2. Is(a, s) /\ Is(b, t)
    BY <2>1
  <2>3. c = AddExtreme(w.op, a, b)
    BY <1>5 DEF AddIV
  <2>4. w.ty # "None"
    BY <1>5, Windowed DEF Numeric
  <2>5. \A v, q : Extreme(w, v, q) => v.kind # "None"
    BY <2>4 DEF Extreme, Value
  <2>6. None.kind = "None"
    BY DEF None
  <2> HIDE DEF c
  <2>7. CASE s = <<>>
    <3>1. c = b
      BY <2>2, <2>3, <2>6, <2>7 DEF AddExtreme
    <3>2. st = t
      BY <2>7, NothingJoined
    <3>3. QED
      BY <3>1, <3>2
  <2>8. CASE s # <<>> /\ t = <<>>
    <3>1. c = a
      BY <2>2, <2>3, <2>5, <2>6, <2>8 DEF AddExtreme
    <3>2. st = s
      BY <2>8, NothingJoined
    <3>3. QED
      BY <3>1, <3>2
  <2>9. CASE s # <<>> /\ t # <<>>
    <3>1. Extreme(w, c, st)
      BY <1>5, <2>2, <2>3, <2>9, ExtremeJoined
    <3>2. st # <<>>
      BY <2>9, NothingJoined
    <3> HIDE DEF st
    <3>3. QED
      BY <2>1, <3>1, <3>2
  <2>10. QED
    BY <2>7, <2>8, <2>9
<1>6. CASE w.op = "avg"
  <2> DEFINE Is(v, q) ==
                v = [sum |-> IF q = <<>> THEN None ELSE Sum(w, q), num |-> Len(q)]
  <2>1. \A v, q : Holds(w, v, q) = Is(v, q)
    BY <1>6 DEF Holds
  <2>2. Is(a, s) /\ Is(b, t)
    BY <2>1
  <2>3. c = AddAverage(a, b)
    BY <1>6 DEF AddIV
  <2>4. Plus(Sum(w, s), Sum(w, t)) = Sum(w, st)
        /\ Sum(w, s) # None /\ Sum(w, t) # None
    BY <1>6, SumOfSums
  <2> HIDE DEF c
  <2>5. CASE t = <<>>
    <3>1. c = a
      BY <2>2, <2>3, <2>5 DEF AddAverage
    <3>2. st = s
      BY <2>5, NothingJoined
    <3>3. QED
      BY <3>1, <3>2
  <2>6. CASE t # <<>> /\ s = <<>>
    <3>1. c = b
      BY <2>2, <2>3, <2>4, <2>6 DEF AddAverage
    <3>2. st = t
      BY <2>6, NothingJoined
    <3>3. QED
      BY <3>1, <3>2
  <2>7. CASE t # <<>> /\ s # <<>>
    <3>1. a.sum = Sum(w, s) /\ b.sum = Sum(w, t) /\ a.num = Len(s) /\ b.num = Len(t)
      BY <2>2, <2>7
    <3>2. c = [sum |-> Plus(a.sum, b.sum), num |-> a.num + b.num]
      BY <2>3, <2>4, <3>1 DEF AddAverage
    <3>3. st # <<>>
      BY <2>7, NothingJoined
    <3>4. c = [sum |-> Sum(w, st), num |-> Len(st)]
      BY <1>1, <2>4, <3>1, <3>2
    <3> HIDE DEF st
    <3>5. QED
      BY <2>1, <3>3, <3>4
  <2>8. QED
    BY <2>5, <2>6, <2>7
<1>7. CASE w.op = "conj"
  <2> DEFINE All(q) == \A i \in 1..Len(q) : q[i].num = 1
  <2>1. \A v, q : Holds(w, v, q) = (v = All(q))
    BY <1>7 DEF Holds
  <2>2. c = (a /\ b)
    BY <1>7 DEF AddIV
  <2>3. All(st) <=> All(s) /\ All(t)
    BY TruthJoined
  <2>4. a = All(s) /\ b = All(t)
    BY <2>1
  <2>5. All(st) \in BOOLEAN /\ a \in BOOLEAN /\ b \in BOOLEAN
    BY <2>4
  <2> HIDE DEF All, c, st
  <2>6. c = All(st)
    BY <2>2, <2>3, <2>4, <2>5
  <2>7. QED
    BY <2>1, <2>6
<1>8. CASE w.op = "disj"
  <2> DEFINE Some(q) == \E i \in 1..Len(q) : q[i].num = 1
  <2>1. \A v, q : Holds(w, v, q) = (v = Some(q))
    BY <1>8 DEF Holds
  <2>2. c = (a \/ b)
    BY <1>8 DEF AddIV
  <2>3. Some(st) <=> Some(s) \/ Some(t)
    BY TruthJoined
  <2>4. a = Some(s) /\ b = Some(t)
    BY <2>1
  <2>5. Some(st) \in BOOLEAN /\ a \in BOOLEAN /\ b \in BOOLEAN
    BY <2>4
  <2> HIDE DEF Some, c, st
  <2>6. c = Some(st)
    BY <2>2, <2>3, <2>4, <2>5
  <2>7. QED
    BY <2>1, <2>6
<1>9. CASE w.op = "integral"
  <2>1. c = AddIntegral(a, b)
    BY <1>9 DEF AddIV
  <2>2. QED
    BY <1>9, <2>1, IntegralJoined
<1>10. QED
  BY <1>2, <1>3, <1>4, <1>5, <1>6, <1>7, <1>8, <1>9 DEF Ops

-----------------------------------------------------------------------------
(* The result of the values held is the one that is expected.              *)

LEMMA AcceptedAreHeld == ASSUME NEW w PROVE Seq(Accepted(w)) \subseteq Seq(Held)
<1>1. Accepted(w) \subseteq Held
  BY DEF Accepted
<1>2. QED
  BY <1>1, SeqMonotonic

LEMMA RangeOfNums ==
    ASSUME NEW s \in Seq(Held)
    PROVE  /\ Range(NumsOf(s)) \subseteq Int
           /\ \A n : n \in Range(NumsOf(s)) <=> \E i \in 1..Len(s) : n = s[i].num
<1>1. NumsOf(s) \in Seq(Int) /\ DOMAIN NumsOf(s) = 1..Len(s)
      /\ \A i \in 1..Len(s) : NumsOf(s)[i] = s[i].num
  <2>1. NumsOf(s) \in Seq(Int) /\ Len(NumsOf(s)) = Len(s)
        /\ \A i \in 1..Len(s) : NumsOf(s)[i] = s[i].num
    BY NumsOfType
  <2>2. QED
    BY <2>1, LenProperties
<1>2. \A i \in 1..Len(s) : s[i].num \in Int
  BY NumOfMember
<1>3. QED
  BY <1>1, <1>2 DEF Range

LEMMA ResultIs ==
    ASSUME window \in Supported, NEW iv, Retained \in Seq(Accepted(window)),
           Len(Retained) = Count, Holds(window, iv, Retained)
    PROVE  Result(window, iv) = Expected
<1> DEFINE s == Retained w == window n == Len(s) nums == NumsOf(s)
<1>1. s \in Seq(Held) /\ n \in Nat
  BY AcceptedAreHeld, LenProperties
<1>2. Nums = nums /\ Count = n
  BY DEF Nums
<1>3. w.op \in Ops
  BY Windowed
<1>4. /\ Range(nums) \subseteq Int
      /\ \A x : x \in Range(nums) <=> \E i \in 1..n : x = s[i].num
  BY <1>1, RangeOfNums
<1>5. s = <<>> <=> n = 0
  BY <1>1, EmptySeq
<1>6. Holds(w, iv, s)
  OBVIOUS
<1>7. \A i \in 1..n : s[i] \in Accepted(w)
  BY ElementOfSeq
<1>8. Sum(w, s) = Value(w.ty, Total(nums))
  BY DEF Sum
<1> HIDE DEF s, nums, n
<1>9. CASE w.op = "count"
  <2>1. iv = n
    BY <1>6, <1>9 DEF Holds, n
  <2>2. Result(w, iv) = Value("Unsigned", n)
    BY <1>9, <2>1 DEF Result
  <2>3. Expected = Value("Unsigned", n)
    BY <1>2, <1>9 DEF Expected
  <2>4. QED
    BY <2>2, <2>3
<1>10. CASE w.op = "sum"
  <2>1. iv = Sum(w, s)
    BY <1>6, <1>10 DEF Holds
  <2>2. Result(w, iv) = Sum(w, s)
    BY <1>10, <2>1 DEF Result
  <2>3. Expected = Value(w.ty, Total(nums))
    BY <1>2, <1>10 DEF Expected
  <2>4. QED
    BY <1>8, <2>2, <2>3
<1>11. CASE w.op \in {"min", "max"} /\ n = 0
  <2>1. iv = None
    BY <1>5, <1>6, <1>11 DEF Holds
  <2>2. Result(w, iv) = None
    BY <1>11, <2>1 DEF Result
  <2>3. Expected = None
    BY <1>2, <1>11 DEF Expected
  <2>4. QED
    BY <2>2, <2>3
<1>12. CASE w.op \in {"min", "max"} /\ n # 0
  <2>1. Extreme(w, iv, s)
    BY <1>5, <1>6, <1>12 DEF Holds
  <2>2. PICK i \in 1..n : iv = Value(w.ty, s[i].num)
                          /\ \A j \in 1..n : Best(w.op, s[i].num, s[j].num)
    BY <2>1 DEF Extreme, n
  <2> DEFINE R == Range(nums) x == s[i].num
  <2>3. x \in R /\ R \subseteq Int /\ \A y \in R : Best(w.op, x, y)
    BY <1>4, <2>2
  <2>4. Result(w, iv) = Value(w.ty, x)
    BY <1>12, <2>2 DEF Result
  <2> HIDE DEF R, x
  <2>5. n > 0
    BY <1>1, <1>12 DEF n
  <2>6. CASE w.op = "min"
    <3>1. \A y \in R : x <= y
      BY <2>3, <2>6 DEF Best
    <3>2. Min(R) \in R /\ Min(R) <= x
      BY <2>3, <3>1 DEF Min
    <3>3. Min(R) = x
      <4>1. Min(R) \in Int /\ x \in Int /\ x <= Min(R)
        BY <2>3, <3>1, <3>2
      <4>2. QED
        BY <3>2, <4>1
    <3>4. Expected = Value(w.ty, Min(R))
      BY <1>2, <2>5, <2>6 DEF Expected, R
    <3>5. QED
      BY <2>4, <3>3, <3>4
  <2>7. CASE w.op = "max"
    <3>1. \A y \in R : y <= x
      BY <2>3, <2>7 DEF Best
    <3>2. Max(R) \in R /\ Max(R) >= x
      BY <2>3, <3>1 DEF Max
    <3>3. Max(R) = x
      <4>1. Max(R) \in Int /\ x \in Int /\ Max(R) <= x
        BY <2>3, <3>1, <3>2
      <4>2. QED
        BY <3>2, <4>1
    <3>4. Expected = Value(w.ty, Max(R))
      BY <1>2, <2>5, <2>7 DEF Expected, R
    <3>5. QED
      BY <2>4, <3>3, <3>4
  <2>8. QED
    BY <1>12, <2>6, <2>7
<1>13. CASE w.op = "avg" /\ n = 0
  <2>1. iv = [sum |-> None, num |-> 0]
    BY <1>5, <1>6, <1>13 DEF Holds, n
  <2>2. Result(w, iv) = None
    BY <1>13, <2>1 DEF Result
  <2>3. Expected = None
    BY <1>2, <1>13 DEF Expected
  <2>4. QED
    BY <2>2, <2>3
<1>14. CASE w.op = "avg" /\ n # 0
  <2> DEFINE v == Value(w.ty, Total(nums))
  <2>1. iv = [sum |-> v, num |-> n]
    BY <1>5, <1>6, <1>8, <1>14 DEF Holds, n
  <2>2. v # None /\ v.kind = w.ty /\ v.num = Total(nums)
    BY <1>14, Windowed DEF Value, None, Numeric
  <2>3. n > 0
    BY <1>1, <1>14 DEF n
  <2> HIDE DEF v
  <2>4. Result(w, iv)
            = IF w.ty = "Float" THEN iv
              ELSE Value(w.ty, TowardsZero(Total(nums), n))
    BY <1>14, <2>1, <2>2 DEF Result
  <2>5. Expected
            = IF w.ty = "Float" THEN [sum |-> v, num |-> n]
              ELSE Value(w.ty, TowardsZero(Total(nums), n))
    BY <1>2, <1>14, <2>3 DEF Expected, v
  <2>6. QED
    BY <2>1, <2>4, <2>5
<1>15. CASE w.op \in {"conj", "disj"}
  <2>1. w.ty = "Bool"
    BY <1>15, Windowed
  <2>2. \A i \in 1..n : s[i].num \in {0, 1}
    BY <1>7, <2>1 DEF Accepted
  <2>3. (\A i \in 1..n : s[i].num = 1) <=> 0 \notin Range(nums)
    BY <1>4, <2>2
  <2>4. (\E i \in 1..n : s[i].num = 1) <=> 1 \in Range(nums)
    BY <1>4
  <2>5. Result(w, iv) = Value("Bool", IF iv THEN 1 ELSE 0)
    BY <1>15 DEF Result, Truth
  <2>6. CASE w.op = "conj"
    <3>1. iv <=> 0 \notin Range(nums)
      BY <1>6, <2>3, <2>6 DEF Holds, n
    <3>2. Expected = Value("Bool", IF 0 \notin Range(nums) THEN 1 ELSE 0)
      BY <1>2, <2>6 DEF Expected, Truth
    <3>3. QED
      BY <2>5, <3>1, <3>2
  <2>7. CASE w.op = "disj"
    <3>1. iv <=> 1 \in Range(nums)
      BY <1>6, <2>4, <2>7 DEF Holds, n
    <3>2. Expected = Value("Bool", IF 1 \in Range(nums) THEN 1 ELSE 0)
      BY <1>2, <2>7 DEF Expected, Truth
    <3>3. QED
      BY <2>5, <3>1, <3>2
  <2>8. QED
    BY <1>15, <2>6, <2>7
<1>16. CASE w.op = "integral"
  <2>1. iv.volume = Volume(s)
    BY <1>6, <1>16 DEF Holds
  <2>2. Result(w, iv) = Value("Float", Volume(s))
    BY <1>16, <2>1 DEF Result
  <2>3. Expected = Value("Float", Trapezoids(s, TimeDiff))
    BY <1>16 DEF Expected, s
  <2>4. QED
    BY <1>1, <2>2, <2>3, VolumeIs
<1>17. QED
  BY <1>3, <1>9, <1>10, <1>11, <1>12, <1>13, <1>14, <1>15, <1>16 DEF Ops

-----------------------------------------------------------------------------
(* The fold over the buckets, one at a time.                               *)

FoldsTo(F, m) ==
    F = [k \in 0..m |->
            IF k = 0 THEN Default(window, now)
            ELSE AddIV(window, F[k - 1], Oldest(k))]

LEMMA FoldSteps ==
    /\ Fold[0] = Default(window, now)
    /\ \A k \in 1..NumBuckets : Fold[k] = AddIV(window, Fold[k - 1], Oldest(k))
<1> DEFINE N == NumBuckets
           D == Default(window, now)
           V(x, k) == AddIV(window, x, Oldest(k))
           T == {m \in 0..N : \E F : FoldsTo(F, m)}
<1>1. N \in Nat
  BY NumBucketsAssumption
<1>2. 0 \in T
  <2>1. FoldsTo([k \in 0..0 |-> D], 0)
    BY DEF FoldsTo
  <2>2. QED
    BY <1>1, <2>1
<1>3. ASSUME NEW m \in 0..N, m # N, m \in T PROVE m + 1 \in T
  <2>1. PICK F : FoldsTo(F, m)
    BY <1>3
  <2> DEFINE n == m + 1
             H == [k \in 0..n |-> IF k = n THEN V(F[m], n) ELSE F[k]]
  <2>2. \A k \in 0..m : F[k] = IF k = 0 THEN D ELSE V(F[k - 1], k)
    BY <2>1 DEF FoldsTo
  <2>3. n \in 0..N /\ n - 1 = m /\ n # 0 /\ m \in 0..n /\ m # n
    BY <1>1, <1>3
  <2> HIDE DEF V, D
  <2>4. ASSUME NEW k \in 0..n PROVE H[k] = IF k = 0 THEN D ELSE V(H[k - 1], k)
    <3>1. CASE k = n
      <4>1. H[k - 1] = F[m] /\ H[k] = V(F[m], n)
        BY <2>3, <3>1
      <4>2. QED
        BY <2>3, <3>1, <4>1
    <3>2. CASE k # n
      <4>1. k \in 0..m /\ (k # 0 => k - 1 \in 0..n /\ k - 1 # n)
        BY <2>3, <3>2
      <4>2. H[k] = F[k] /\ (k # 0 => H[k - 1] = F[k - 1])
        BY <3>2, <4>1
      <4>3. QED
        BY <2>2, <4>1, <4>2
    <3>3. QED
      BY <3>1, <3>2
  <2>5. H = [k \in 0..n |-> H[k]]
    OBVIOUS
  <2> HIDE DEF H, n
  <2>6. H = [k \in 0..n |-> IF k = 0 THEN D ELSE V(H[k - 1], k)]
    BY <2>4, <2>5
  <2>7. FoldsTo(H, n)
    BY <2>6 DEF FoldsTo, V, D
  <2>8. QED
    BY <2>3, <2>7 DEF n
<1>4. N \in 0..N
  BY <1>1
<1>5. N \in T
  <2> HIDE DEF T
  <2>1. QED
    BY <1>1, <1>2, <1>3, <1>4, UpTo
<1>6. FoldsTo(CHOOSE F : FoldsTo(F, N), N)
  BY <1>5
<1>7. Fold = CHOOSE F : FoldsTo(F, N)
  BY DEF Fold, FoldsTo
<1>8. FoldsTo(Fold, N)
  BY <1>6, <1>7
<1> DEFINE G == Fold
<1>9. G = [k \in 0..N |-> IF k = 0 THEN D ELSE V(G[k - 1], k)]
  BY <1>8 DEF FoldsTo
<1> HIDE DEF G, D, V
<1>10. G[0] = D /\ \A k \in 1..N : G[k] = V(G[k - 1], k)
  <2>1. 0 \in 0..N /\ \A k \in 1..N : k \in 0..N /\ k # 0
    BY <1>1
  <2>2. QED
    BY <1>9, <2>1
<1>11. QED
  BY <1>10 DEF G, D, V

-----------------------------------------------------------------------------
(* The inductive invariant: what is accepted lies in the order of its      *)
(* times, and the intermediate value of each bucket is what the values of  *)
(* the bucket make it.                                                     *)

HeldBy(nums, times, positions) ==
    [i \in DOMAIN positions |->
        [num |-> nums[positions[i]], at |-> times[positions[i]]]]

Logged ==
    /\ window \in Windows /\ failed = FALSE
    /\ values \in Seq(Int) /\ Len(values) = Len(accepted)
    /\ window.ty = "Bool" => \A i \in 1..Len(values) : values[i] \in {0, 1}
    /\ \A i, j \in 1..Len(accepted) : i <= j => accepted[i] <= accepted[j]
EachHolds ==
    \A k \in Slots : Holds(window, ivs[k], HeldBy(values, accepted, buckets[k]))

Entries(from, to) == [j \in 1..to - from |-> Entry(from + j)]

LEMMA HeldByStretch ==
    ASSUME NEW from \in Nat, NEW to \in Nat, from <= to
    PROVE  HeldBy(values, accepted, Stretch(from, to)) = Entries(from, to)
<1>1. DOMAIN Stretch(from, to) = 1..to - from
      /\ \A j \in 1..to - from : Stretch(from, to)[j] = from + j
  BY DEF Stretch
<1>2. QED
  BY <1>1 DEF HeldBy, Entries, Entry

LEMMA EntriesType ==
    ASSUME TypeOK, Logged, NEW from \in Nat, NEW to \in Nat,
           from <= to, to <= Len(accepted)
    PROVE  /\ Entries(from, to) \in Seq(Accepted(window))
           /\ Entries(from, to) \in Seq(Held)
           /\ Len(Entries(from, to)) = to - from
           /\ \A j \in 1..to - from : Entries(from, to)[j] = Entry(from + j)
<1> DEFINE n == to - from
<1>1. n \in Nat /\ \A j \in 1..n : from + j \in 1..Len(accepted)
  BY DEF TypeOK
<1>2. \A i \in 1..Len(accepted) : Entry(i) \in Accepted(window)
  <2> TAKE i \in 1..Len(accepted)
  <2>1. accepted[i] \in Nat /\ values[i] \in Int
    <3>1. /\ accepted \in Seq(Times) /\ values \in Seq(Int)
          /\ Len(values) = Len(accepted)
      BY DEF TypeOK, Logged
    <3>2. accepted[i] \in Times /\ values[i] \in Int
      BY <3>1
    <3>3. QED
      BY <3>2, BoundsAssumption DEF Times
  <2>2. window.ty = "Bool" => values[i] \in {0, 1}
    BY DEF Logged
  <2>3. QED
    BY <2>1, <2>2 DEF Entry, Accepted, Held
<1>3. Entries(from, to) = [j \in 1..n |-> Entry(from + j)]
  BY DEF Entries
<1>4. \A j \in 1..n : Entry(from + j) \in Accepted(window)
  BY <1>1, <1>2
<1> HIDE DEF n
<1>5. Entries(from, to) \in Seq(Accepted(window)) /\ Len(Entries(from, to)) = n
      /\ \A j \in 1..n : Entries(from, to)[j] = Entry(from + j)
  BY <1>1, <1>3, <1>4
<1>6. Entries(from, to) \in Seq(Held)
  BY <1>5, AcceptedAreHeld
<1>7. QED
  BY <1>5, <1>6 DEF n

LEMMA EntriesJoin ==
    ASSUME NEW a \in Nat, NEW b \in Nat, NEW c \in Nat, a <= b, b <= c
    PROVE  Entries(a, b) \o Entries(b, c) = Entries(a, c)
  BY DEF Entries

LEMMA CutDescends ==
    ASSUME NEW cut, IsCut(cut)
    PROVE  \A k \in 0..NumBuckets : /\ cut[k] \in Nat /\ cut[k] <= Len(accepted)
                                    /\ cut[NumBuckets] <= cut[NumBuckets - k]
<1> DEFINE N == NumBuckets
           T == {k \in 0..N : cut[N] <= cut[N - k]}
<1>1. N \in Nat /\ \A k \in 0..N : cut[k] \in 0..Len(accepted)
  BY NumBucketsAssumption DEF IsCut
<1>2. \A k \in 0..N : cut[k] \in Nat /\ cut[k] <= Len(accepted)
  <2> TAKE k \in 0..N
  <2>1. cut[k] \in 0..Len(accepted)
    BY <1>1
  <2>2. QED
    BY <2>1
<1>3. 0 \in T
  BY <1>1, <1>2
<1>4. ASSUME NEW k \in 0..N, k # N, k \in T PROVE k + 1 \in T
  <2> DEFINE m == N - (k + 1)
  <2>1. m \in Slots /\ m \in 0..N /\ m + 1 \in 0..N /\ m + 1 = N - k /\ N \in 0..N
        /\ k + 1 \in 0..N
    BY <1>1, <1>4 DEF Slots
  <2>2. cut[m + 1] <= cut[m]
    BY <2>1 DEF IsCut
  <2>3. cut[N] <= cut[m + 1]
    BY <1>4, <2>1
  <2> HIDE DEF m
  <2>4. cut[N] <= cut[m]
    BY <1>2, <2>1, <2>2, <2>3
  <2>5. QED
    BY <2>1, <2>4 DEF m
<1>5. \A k \in 0..N : k \in T
  <2> HIDE DEF T
  <2>1. QED
    BY <1>1, <1>3, <1>4, UpTo
<1>6. QED
  BY <1>2, <1>5

(***************************************************************************)
(* The fold over the k oldest buckets is the intermediate value of all     *)
(* they hold.                                                              *)
(***************************************************************************)
LEMMA BucketHolds ==
    ASSUME EachHolds, NEW cut, IsCut(cut), NEW k \in Slots
    PROVE  Holds(window, ivs[k], Entries(cut[k + 1], cut[k]))
<1>1. k \in 0..NumBuckets /\ k + 1 \in 0..NumBuckets
  BY NumBucketsAssumption DEF Slots
<1>2. cut[k] \in Nat /\ cut[k + 1] \in Nat /\ cut[k + 1] <= cut[k]
      /\ buckets[k] = Stretch(cut[k + 1], cut[k])
  BY <1>1, CutDescends DEF IsCut
<1>3. HeldBy(values, accepted, buckets[k]) = Entries(cut[k + 1], cut[k])
  BY <1>2, HeldByStretch
<1>4. QED
  BY <1>3 DEF EachHolds

LEMMA FoldHolds ==
    ASSUME TypeOK, Logged, EachHolds, window \in Supported, NEW cut, IsCut(cut)
    PROVE  \A k \in 0..NumBuckets :
               Holds(window, Fold[k], Entries(cut[NumBuckets], cut[NumBuckets - k]))
<1> DEFINE N == NumBuckets F == Fold
           E(k) == Entries(cut[N], cut[N - k])
           T == {k \in 0..N : Holds(window, F[k], E(k))}
<1>1. N \in Nat /\ N \in 0..N
  BY NumBucketsAssumption
<1>2. /\ F[0] = Default(window, now)
      /\ \A k \in 1..N : F[k] = AddIV(window, F[k - 1], ivs[N - k])
  BY FoldSteps DEF Oldest
<1>3. \A k \in 0..N : /\ cut[k] \in Nat /\ cut[k] <= Len(accepted)
                      /\ cut[N] <= cut[N - k]
  BY CutDescends
<1> HIDE DEF F
<1>4. 0 \in T
  <2>1. cut[N] \in Nat /\ N - 0 = N
    BY <1>1, <1>3
  <2>2. E(0) = <<>>
    BY <2>1 DEF Entries
  <2> HIDE DEF E
  <2>3. QED
    BY <1>1, <1>2, <2>2, DefaultHolds
<1>5. ASSUME NEW k \in 0..N, k # N, k \in T PROVE k + 1 \in T
  <2> DEFINE n == k + 1 m == N - n
  <2>1. n \in 0..N /\ n \in 1..N /\ n - 1 = k /\ m \in Slots /\ m \in 0..N
        /\ m + 1 \in 0..N /\ m + 1 = N - k /\ N - k \in 0..N
    BY <1>1, <1>5 DEF Slots
  <2> DEFINE a == cut[N] b == cut[m + 1] c == cut[m]
  <2>2. /\ a \in Nat /\ b \in Nat /\ c \in Nat
        /\ a <= b /\ b <= c /\ b <= Len(accepted) /\ c <= Len(accepted)
    <3>1. b <= c
      BY <2>1 DEF IsCut
    <3>2. a <= b
      BY <1>3, <2>1
    <3>3. QED
      BY <1>1, <1>3, <2>1, <3>1, <3>2
  <2>3. Holds(window, ivs[m], Entries(b, c))
    BY <2>1, BucketHolds
  <2>4. Holds(window, F[k], Entries(a, b))
    BY <1>5, <2>1
  <2>5. F[n] = AddIV(window, F[k], ivs[m])
    BY <1>2, <2>1
  <2> HIDE DEF a, b, c, m, n
  <2>6. Entries(a, b) \in Seq(Held) /\ Entries(b, c) \in Seq(Held)
    BY <2>2, EntriesType
  <2>7. Holds(window, F[n], Entries(a, b) \o Entries(b, c))
    BY <2>3, <2>4, <2>5, <2>6, AddHolds
  <2>8. Entries(a, b) \o Entries(b, c) = Entries(a, c)
    BY <2>2, EntriesJoin
  <2>9. Holds(window, F[n], Entries(a, c))
    BY <2>7, <2>8
  <2>10. QED
    BY <2>1, <2>9 DEF a, c, m, n
<1>6. \A k \in 0..N : k \in T
  <2> HIDE DEF T
  <2>1. QED
    BY <1>1, <1>4, <1>5, UpTo
<1>7. QED
  BY <1>6 DEF F

LEMMA MonotoneIfOlder ==
    ASSUME NEW w, NEW s \in Seq(Held), NEW t \in Seq(Held), NEW a, NEW b,
           Holds(w, a, s), Holds(w, b, t),
           \A i \in 1..Len(s), j \in 1..Len(t) : s[i].at <= t[j].at
    PROVE  Monotone(w, a, b)
<1>1. SUFFICES ASSUME w.op = "integral", a.valid, b.valid
               PROVE  b.startTime >= a.endTime
  BY DEF Monotone
<1>2. s # <<>> /\ t # <<>>
  BY <1>1 DEF Holds
<1>3. a.endTime = s[Len(s)].at /\ b.startTime = t[1].at
  BY <1>1, <1>2 DEF Holds
<1>4. Len(s) \in 1..Len(s) /\ 1 \in 1..Len(t)
  BY <1>2, NothingJoined
<1>5. s[Len(s)].at <= t[1].at /\ s[Len(s)].at \in Nat /\ t[1].at \in Nat
  BY <1>4, NumOfMember
<1>6. QED
  BY <1>3, <1>5

(* The folds of get_value meet no assertion: older buckets have older times. *)
LEMMA FoldsAreMonotone ==
    ASSUME TypeOK, Logged, EachHolds, window \in Supported, NEW cut, IsCut(cut)
    PROVE  \A k \in 1..NumBuckets : Monotone(window, Fold[k - 1], Oldest(k))
<1> TAKE k \in 1..NumBuckets
<1> DEFINE N == NumBuckets l == k - 1 m == N - k
           a == cut[N] b == cut[m + 1] c == cut[m]
           s == Entries(a, b) t == Entries(b, c)
<1>1. /\ l \in 0..N /\ m \in Slots /\ m \in 0..N /\ m + 1 \in 0..N
      /\ m + 1 = N - l /\ N \in 0..N
  BY NumBucketsAssumption DEF Slots
<1>2. /\ a \in Nat /\ b \in Nat /\ c \in Nat
      /\ a <= b /\ b <= c /\ b <= Len(accepted) /\ c <= Len(accepted)
  <2>1. b <= c
    BY <1>1 DEF IsCut
  <2>2. a <= b
    BY <1>1, CutDescends
  <2>3. QED
    BY <1>1, CutDescends, <2>1, <2>2
<1>3. Holds(window, Fold[l], s)
  BY <1>1, FoldHolds
<1>4. Holds(window, ivs[m], t)
  BY <1>1, BucketHolds
<1> HIDE DEF a, b, c
<1>5. /\ s \in Seq(Held) /\ Len(s) = b - a /\ \A j \in 1..b - a : s[j] = Entry(a + j)
      /\ t \in Seq(Held) /\ Len(t) = c - b /\ \A j \in 1..c - b : t[j] = Entry(b + j)
  BY <1>2, EntriesType
<1>6. ASSUME NEW i \in 1..Len(s), NEW j \in 1..Len(t) PROVE s[i].at <= t[j].at
  <2>1. i \in 1..b - a /\ j \in 1..c - b
    BY <1>5
  <2>2. s[i].at = accepted[a + i] /\ t[j].at = accepted[b + j]
    BY <1>5, <2>1 DEF Entry
  <2>3. a + i \in 1..Len(accepted) /\ b + j \in 1..Len(accepted) /\ a + i <= b + j
    BY <1>2, <2>1 DEF TypeOK
  <2>4. QED
    BY <2>2, <2>3 DEF Logged
<1> HIDE DEF s, t, l, m
<1>7. Monotone(window, Fold[l], ivs[m])
  BY <1>3, <1>4, <1>5, <1>6, MonotoneIfOlder
<1>8. QED
  BY <1>7 DEF l, m, Oldest

(***************************************************************************)
(* The values that are to be retained are those after the oldest cut.      *)
(***************************************************************************)
LEMMA BetweenCuts ==
    ASSUME NEW cut, IsCut(cut), NEW i \in Nat, cut[NumBuckets] < i, i <= cut[0]
    PROVE  \E k \in Slots : cut[k + 1] < i /\ i <= cut[k]
<1> DEFINE Below == {k \in 0..NumBuckets : cut[k] < i}
<1>1. NumBuckets \in 0..NumBuckets /\ 0 \in 0..NumBuckets
  BY NumBucketsAssumption
<1>2. \A k \in 0..NumBuckets : cut[k] \in Nat
  BY CutDescends
<1>3. Below \in SUBSET Nat /\ Below # {}
  BY <1>1
<1>4. PICK m \in Below : \A k \in Below : m <= k
  <2> HIDE DEF Below
  <2>1. QED
    BY <1>3, LeastNumber
<1>5. m # 0
  BY <1>1, <1>2, <1>4
<1>6. m - 1 \in Slots /\ m - 1 \in 0..NumBuckets /\ (m - 1) + 1 = m /\ ~(m <= m - 1)
  BY <1>4, <1>5, NumBucketsAssumption DEF Slots
<1>7. ~(cut[m - 1] < i)
  BY <1>4, <1>6
<1>8. i <= cut[m - 1] /\ cut[m] < i
  BY <1>2, <1>4, <1>6, <1>7
<1>9. QED
  BY <1>6, <1>8

LEMMA RetainedAre ==
    ASSUME IInv, NEW cut, IsCut(cut)
    PROVE  /\ Retained = Entries(cut[NumBuckets], Len(accepted))
           /\ Count = Len(accepted) - cut[NumBuckets]
<1> DEFINE N == NumBuckets n == Len(accepted) m == cut[N]
           Stay == {i \in DOMAIN accepted :
                       OverallIx(now) - OverallIx(accepted[i]) < N}
<1>1. /\ N \in Nat \ {0} /\ N \in 0..N /\ 0 \in 0..N
      /\ n \in Nat /\ DOMAIN accepted = 1..n
      /\ now \in Nat
  BY NumBucketsAssumption, BoundsAssumption DEF IInv, TypeOK, Times
<1>2. m \in Nat /\ m <= n /\ cut[0] = n
  BY <1>1, CutDescends DEF IsCut
<1>3. \A k \in Slots : k \in 0..N /\ k + 1 \in 0..N /\ k \in Nat /\ k < N
  BY <1>1 DEF Slots
<1>4. \A k \in Slots : \A i \in 1..n :
          OverallIx(accepted[i]) = OverallIx(now) - k <=> cut[k + 1] < i /\ i <= cut[k]
  <2> TAKE k \in Slots
  <2> TAKE i \in 1..n
  <2> DEFINE a == cut[k + 1] b == cut[k]
  <2>1. a \in Nat /\ b \in Nat /\ a <= b /\ buckets[k] = Stretch(a, b)
    BY <1>3, CutDescends DEF IsCut
  <2> HIDE DEF a, b
  <2>2. i \in Range(Stretch(a, b)) <=> a < i /\ i <= b
    <3>1. \A j \in 1..b - a : Stretch(a, b)[j] = a + j
      BY <2>1 DEF Stretch
    <3>2. DOMAIN Stretch(a, b) = 1..b - a
      BY DEF Stretch
    <3>3. i \in Range(Stretch(a, b)) => a < i /\ i <= b
      BY <2>1, <3>1, <3>2 DEF Range
    <3>4. a < i /\ i <= b => i - a \in 1..b - a /\ a + (i - a) = i
      BY <2>1
    <3>5. a < i /\ i <= b => i \in Range(Stretch(a, b))
      BY <3>1, <3>2, <3>4 DEF Range
    <3>6. QED
      BY <3>3, <3>5
  <2>3. i \in Range(buckets[k]) <=> OverallIx(accepted[i]) = OverallIx(now) - k
    BY <1>1 DEF IInv, BucketContents
  <2>4. QED
    BY <2>1, <2>2, <2>3 DEF a, b
<1>5. \A i \in 1..n : /\ OverallIx(now) \in Nat /\ OverallIx(accepted[i]) \in Nat
                      /\ OverallIx(accepted[i]) <= OverallIx(now)
  <2> TAKE i \in 1..n
  <2>1. accepted[i] \in Nat /\ accepted[i] <= now
    <3>1. accepted \in Seq(Times)
      BY DEF IInv, TypeOK
    <3>2. accepted[i] \in Times
      BY <3>1
    <3>3. QED
      BY <1>1, <3>2, BoundsAssumption DEF IInv, Tracks, Times
  <2>2. QED
    BY <1>1, <2>1, OverallIxBounds, OverallIxMonotone
<1>6. ASSUME NEW i \in 1..n
      PROVE  OverallIx(now) - OverallIx(accepted[i]) < N <=> m < i
  <2>1. CASE OverallIx(now) - OverallIx(accepted[i]) < N
    <3> DEFINE k == OverallIx(now) - OverallIx(accepted[i])
    <3>1. k \in Slots /\ OverallIx(accepted[i]) = OverallIx(now) - k
      BY <1>1, <1>5, <2>1 DEF Slots
    <3>2. cut[k + 1] < i
      BY <1>4, <3>1
    <3>3. k + 1 \in 0..N /\ N - (k + 1) \in 0..N /\ N - (N - (k + 1)) = k + 1
      BY <1>1, <3>1 DEF Slots
    <3> HIDE DEF k
    <3>4. cut[N] <= cut[k + 1] /\ cut[k + 1] \in Nat
      <4> DEFINE l == N - (k + 1)
      <4>1. l \in 0..N /\ N - l = k + 1
        BY <3>3
      <4> HIDE DEF l
      <4>2. cut[N] <= cut[N - l]
        BY <4>1, CutDescends
      <4>3. QED
        BY <3>3, <4>1, <4>2, CutDescends
    <3>5. m < i
      BY <1>2, <3>2, <3>4
    <3>6. QED
      BY <2>1, <3>5
  <2>2. CASE m < i
    <3>1. i \in Nat /\ i <= cut[0]
      BY <1>1, <1>2
    <3>2. PICK k \in Slots : cut[k + 1] < i /\ i <= cut[k]
      BY <2>2, <3>1, BetweenCuts
    <3>3. OverallIx(accepted[i]) = OverallIx(now) - k
      BY <1>4, <3>2
    <3>4. OverallIx(now) - OverallIx(accepted[i]) < N
      BY <1>1, <1>3, <1>5, <3>3
    <3>5. QED
      BY <2>2, <3>4
  <2>3. QED
    BY <2>1, <2>2
<1>7. Stay = m + 1..n
  <2>1. Stay = {i \in 1..n : m < i}
    BY <1>1, <1>6
  <2> HIDE DEF m, n, Stay
  <2>2. {i \in 1..n : m < i} = m + 1..n
    BY <1>1, <1>2
  <2>3. QED
    BY <2>1, <2>2
<1>8. Cardinality(m + 1..n) = n - m
  <2> HIDE DEF m, n
  <2>1. m + 1 \in Int /\ n \in Int
    BY <1>1, <1>2
  <2>2. Cardinality(m + 1..n) = IF m + 1 > n THEN 0 ELSE n - (m + 1) + 1
    BY <2>1, FS_Interval
  <2>3. QED
    BY <1>1, <1>2, <2>2
<1>9. Count = n - m
  BY <1>7, <1>8 DEF Count
<1>10. Retained = Entries(m, n)
  <2> HIDE DEF m, n
  <2>1. \A i \in 1..n - m : n - (n - m) + i = m + i
    BY <1>1, <1>2
  <2>2. Retained = [i \in 1..n - m |-> Entry(n - (n - m) + i)]
    BY <1>9 DEF Retained, n
  <2>3. QED
    BY <2>1, <2>2 DEF Entries
<1>11. QED
  BY <1>9, <1>10

(***************************************************************************)
(* The invariant says what the property does.                              *)
(***************************************************************************)
LEMMA InvAggregates ==
    ASSUME IInv, Consecutive, Logged, EachHolds
    PROVE  AggregatesTheValues
<1>1. window \in Supported /\ TypeOK
  BY WindowsAssumption DEF Logged, IInv
<1>2. PICK cut : IsCut(cut)
  BY DEF Consecutive
<1>3. ~failed
  BY DEF Logged
<1>4. \A k \in 1..NumBuckets : Monotone(window, Fold[k - 1], Oldest(k))
  BY <1>1, <1>2, FoldsAreMonotone
<1>5. Holds(window, Folded, Retained)
  <2>1. NumBuckets \in 0..NumBuckets /\ NumBuckets - NumBuckets = 0
    BY NumBucketsAssumption
  <2>2. Holds(window, Fold[NumBuckets], Entries(cut[NumBuckets], cut[0]))
    BY <1>1, <1>2, <2>1, FoldHolds
  <2>3. Retained = Entries(cut[NumBuckets], cut[0])
    BY <1>2, RetainedAre DEF IsCut
  <2>4. QED
    BY <2>2, <2>3 DEF Folded
<1>6. Retained \in Seq(Accepted(window)) /\ Len(Retained) = Count
  <2> DEFINE a == cut[NumBuckets] n == Len(accepted)
  <2>1. a \in Nat /\ n \in Nat /\ a <= n
    BY <1>1, <1>2, CutDescends, NumBucketsAssumption DEF TypeOK
  <2>2. Retained = Entries(a, n) /\ Count = n - a
    BY <1>2, RetainedAre
  <2>3. TypeOK /\ n <= Len(accepted)
    BY <1>1, <2>1
  <2> HIDE DEF a, n
  <2>4. Entries(a, n) \in Seq(Accepted(window)) /\ Len(Entries(a, n)) = n - a
    BY <2>1, <2>3, EntriesType
  <2>5. QED
    BY <2>2, <2>4 DEF n
<1>7. Result(window, Folded) = Expected
  BY <1>1, <1>5, <1>6, ResultIs
<1>8. WindowValue = IF Wait /\ now < Duration THEN None ELSE Expected
  BY <1>7 DEF WindowValue, Waiting
<1>9. QED
  BY <1>3, <1>4, <1>8 DEF AggregatesTheValues

-----------------------------------------------------------------------------
(* The operations preserve the invariant.                                  *)

LEMMA InitHolds == NewWindow => Init /\ Logged /\ EachHolds
<1> SUFFICES ASSUME NewWindow PROVE Init /\ Logged /\ EachHolds
  OBVIOUS
<1>1. /\ Init /\ window \in Windows /\ window \in Supported
      /\ values = <<>> /\ accepted = <<>>
      /\ ivs = [k \in Slots |-> Default(window, 0)]
  BY WindowsAssumption DEF NewWindow, Init
<1>2. failed = FALSE
  <2>1. CASE window.op = "sum"
    <3>1. window.ty \in Numeric
      BY <1>1, <2>1, Windowed
    <3>2. Default(window, 0).kind = window.ty
      BY <2>1, <3>1 DEF Default, FromValue, Value, Numeric
    <3>3. Default(window, 0) # TypeError
      BY <3>1, <3>2 DEF Numeric, TypeError
    <3>4. QED
      BY <3>3 DEF NewWindow
  <2>2. CASE window.op # "sum"
    BY <2>2 DEF NewWindow
  <2>3. QED
    BY <2>1, <2>2
<1>3. Logged
  <2>1. <<>> \in Seq(Int) /\ Len(<<>>) = 0
    OBVIOUS
  <2>2. QED
    BY <1>1, <1>2, <2>1 DEF Logged
<1>4. EachHolds
  <2> SUFFICES ASSUME NEW k \in Slots
               PROVE  Holds(window, ivs[k], HeldBy(values, accepted, buckets[k]))
    BY DEF EachHolds
  <2>1. buckets[k] = <<>> /\ ivs[k] = Default(window, 0)
    BY <1>1 DEF Init
  <2>2. HeldBy(values, accepted, <<>>) = <<>>
    BY DEF HeldBy
  <2>3. QED
    BY <1>1, <2>1, <2>2, DefaultHolds
<1>5. QED
  BY <1>1, <1>3, <1>4

LEMMA RenewedHolds ==
    ASSUME IInv, EachHolds, window \in Supported,
           NEW ts \in now..MaxTime, NEW k \in Slots
    PROVE  Holds(window, Renewed(ts)[k], HeldBy(values, accepted, Shifted(ts)[k]))
<1> DEFINE n == BucketsSince(GetCurrentBucket(ts), lastBucketIx)
<1>1. n \in Nat
  BY MovesForward
<1>2. Shifted(ts)[k] = IF k < n THEN <<>> ELSE buckets[k - n]
  BY DEF Shifted, InvalidateN
<1>3. Renewed(ts)[k] = IF k < n THEN Default(window, ts) ELSE ivs[k - n]
  BY DEF Renewed
<1> HIDE DEF n
<1>4. CASE k < n
  <2>1. HeldBy(values, accepted, <<>>) = <<>>
    BY DEF HeldBy
  <2>2. QED
    BY <1>2, <1>3, <1>4, <2>1, DefaultHolds
<1>5. CASE ~(k < n)
  <2>1. k - n \in Slots
    BY <1>1, <1>5, NumBucketsAssumption DEF Slots
  <2>2. QED
    BY <1>2, <1>3, <1>5, <2>1 DEF EachHolds
<1>6. QED
  BY <1>4, <1>5

LEMMA UpdateHolds ==
    ASSUME IInv, Logged, EachHolds, NEW ts \in now..MaxTime, UpdateWindow(ts)
    PROVE  Logged' /\ EachHolds'
<1>1. UpdateBuckets(ts) /\ UNCHANGED <<window, values, failed>>
  BY DEF UpdateWindow
<1>2. buckets' = Shifted(ts) /\ accepted' = accepted /\ panicked' = FALSE
  BY <1>1, ShiftedContents DEF UpdateBuckets, IInv, NoPanic
<1>3. ivs' = Renewed(ts)
  BY <1>2 DEF UpdateWindow
<1>4. window \in Supported
  BY WindowsAssumption DEF Logged
<1>5. Logged'
  BY <1>1, <1>2 DEF Logged
<1>6. EachHolds'
  <2>1. ASSUME NEW k \in Slots
        PROVE  Holds(window, ivs'[k], HeldBy(values, accepted, buckets'[k]))
    BY <1>2, <1>3, <1>4, RenewedHolds
  <2>2. window' = window /\ values' = values
    BY <1>1
  <2>3. QED
    BY <1>2, <2>1, <2>2 DEF EachHolds
<1>7. QED
  BY <1>5, <1>6

(***************************************************************************)
(* A new value leaves what the positions before it stand for, and its own  *)
(* position stands for it.                                                 *)
(***************************************************************************)
LEMMA HeldWithOneMore ==
    ASSUME NEW nums \in Seq(Int), NEW times \in Seq(Nat), Len(nums) = Len(times),
           NEW x \in Int, NEW t \in Nat,
           NEW from \in Nat, NEW to \in Nat, from <= to, to <= Len(times)
    PROVE  /\ HeldBy(Append(nums, x), Append(times, t), Stretch(from, to))
                  = HeldBy(nums, times, Stretch(from, to))
           /\ to = Len(times) =>
                 HeldBy(Append(nums, x), Append(times, t), Stretch(from, to + 1))
                     = Append(HeldBy(nums, times, Stretch(from, to)),
                              [num |-> x, at |-> t])
<1> DEFINE n == Len(times) ns == Append(nums, x) ts == Append(times, t)
<1>1. /\ n \in Nat /\ ns[n + 1] = x /\ ts[n + 1] = t
      /\ \A i \in 1..n : ns[i] = nums[i] /\ ts[i] = times[i]
  BY AppendProperties
<1> HIDE DEF n, ns, ts
<1>2. \A m \in Nat : /\ DOMAIN Stretch(from, m) = 1..m - from
                     /\ \A j \in 1..m - from : Stretch(from, m)[j] = from + j
  BY DEF Stretch
<1> DEFINE H(m) == [j \in 1..m - from |->
                       [num |-> nums[from + j], at |-> times[from + j]]]
           G(m) == [j \in 1..m - from |->
                       [num |-> ns[from + j], at |-> ts[from + j]]]
<1>3. \A m \in Nat : /\ HeldBy(nums, times, Stretch(from, m)) = H(m)
                     /\ HeldBy(ns, ts, Stretch(from, m)) = G(m)
  BY <1>2 DEF HeldBy
<1>4. \A j \in 1..to - from : from + j \in 1..n
  BY <1>1 DEF n
<1>5. G(to) = H(to)
  BY <1>1, <1>4
<1>6. ASSUME to = n PROVE G(to + 1) = Append(H(to), [num |-> x, at |-> t])
  <2> DEFINE l == to - from e == [num |-> x, at |-> t]
  <2>1. l \in Nat /\ (to + 1) - from = l + 1 /\ from + (l + 1) = n + 1
    BY <1>6
  <2>2. \A j \in 1..l : from + j \in 1..n
    BY <1>4
  <2> HIDE DEF l
  <2>3. G(to + 1) = [j \in 1..l + 1 |-> [num |-> ns[from + j], at |-> ts[from + j]]]
    BY <2>1
  <2>4. H(to) = [j \in 1..l |-> [num |-> nums[from + j], at |-> times[from + j]]]
    BY DEF l
  <2> DEFINE h == [j \in 1..l |-> [num |-> nums[from + j], at |-> times[from + j]]]
             g == [j \in 1..l + 1 |-> [num |-> ns[from + j], at |-> ts[from + j]]]
  <2>5. g[l + 1] = e /\ \A j \in 1..l : g[j] = h[j]
    <3>1. ns[from + (l + 1)] = x /\ ts[from + (l + 1)] = t
      BY <1>1, <2>1
    <3>2. l + 1 \in 1..l + 1 /\ \A j \in 1..l : j \in 1..l + 1
      BY <2>1
    <3>3. g[l + 1] = [num |-> ns[from + (l + 1)], at |-> ts[from + (l + 1)]]
      BY <3>2
    <3>4. \A j \in 1..l : /\ ns[from + j] = nums[from + j]
                          /\ ts[from + j] = times[from + j]
      BY <1>1, <2>2
    <3>5. QED
      BY <3>1, <3>2, <3>3, <3>4
  <2>6. /\ Len(h) = l
        /\ Append(h, e) = [j \in 1..l + 1 |-> IF j = l + 1 THEN e ELSE h[j]]
    BY <2>1
  <2>7. \A j \in 1..l + 1 : j # l + 1 => j \in 1..l
    BY <2>1
  <2>8. g = [j \in 1..l + 1 |-> g[j]]
    OBVIOUS
  <2> HIDE DEF g, h, e
  <2>9. g = Append(h, e)
    BY <2>5, <2>6, <2>7, <2>8
  <2>10. QED
    BY <2>3, <2>4, <2>9 DEF g, h, e
<1>7. to \in Nat /\ to + 1 \in Nat
  OBVIOUS
<1> HIDE DEF G, H
<1>8. QED
  BY <1>3, <1>5, <1>6, <1>7 DEF n, ns, ts

LEMMA AcceptHolds ==
    ASSUME IInv, Consecutive, Logged, EachHolds, NEW ts \in now..MaxTime,
           NEW num \in NumbersOf(window.ty), AcceptNumber(ts, num)
    PROVE  Logged' /\ EachHolds'
<1> DEFINE L == Len(accepted) w == window e == [num |-> num, at |-> ts]
           iv == Single(w, Value(w.ty, num), ts)
           held(b) == HeldBy(values, accepted, b)
<1>1. AcceptValue(ts) /\ window' = window
  BY DEF AcceptNumber
<1>2. /\ panicked' = FALSE /\ accepted' = Append(accepted, ts)
      /\ buckets' = [Shifted(ts) EXCEPT ![0] = Append(@, L + 1)]
  BY <1>1, ShiftedContents DEF AcceptValue, IInv, NoPanic
<1>3. /\ ivs' = [Renewed(ts) EXCEPT ![0] = AddIV(w, @, iv)]
      /\ failed' = ~Monotone(w, Renewed(ts)[0], iv)
      /\ values' = Append(values, num)
  BY <1>2 DEF AcceptNumber
<1>4. w \in Supported /\ TypeOK
  BY WindowsAssumption DEF Logged, IInv
<1>5. num \in Int /\ (w.ty = "Bool" => num \in {0, 1})
  <2>1. CASE w.ty = "Bool"
    BY <2>1 DEF NumbersOf
  <2>2. CASE w.ty = "Unsigned"
    BY <2>2, NumbersAssumption DEF NumbersOf
  <2>3. CASE w.ty # "Bool" /\ w.ty # "Unsigned"
    BY <2>3, NumbersAssumption DEF NumbersOf
  <2>4. QED
    BY <2>1, <2>2, <2>3
<1>6. /\ now \in Nat /\ ts \in Nat /\ now <= ts
      /\ accepted \in Seq(Nat) /\ values \in Seq(Int) /\ Len(values) = Len(accepted)
      /\ L \in Nat
  <2>1. accepted \in Seq(Times) /\ Times \subseteq Nat /\ now \in Times
    BY BoundsAssumption DEF IInv, TypeOK, Times
  <2>2. accepted \in Seq(Nat)
    BY <2>1, SeqMonotonic
  <2>3. now \in Nat /\ ts \in Nat /\ now <= ts
    BY <2>1, BoundsAssumption
  <2>4. QED
    BY <2>2, <2>3 DEF Logged
<1>7. \A i \in 1..L : accepted[i] \in Nat /\ accepted[i] <= ts
  <2> TAKE i \in 1..L
  <2>1. i \in DOMAIN accepted /\ accepted[i] \in Nat
    BY <1>6
  <2>2. accepted[i] <= now
    BY <2>1 DEF IInv, Tracks
  <2>3. QED
    BY <1>6, <2>1, <2>2
<1>8. e \in Held /\ e \in Accepted(w) /\ e.num = num /\ e.at = ts
  BY <1>5, <1>6 DEF Held, Accepted
<1>9. Holds(w, iv, <<e>>)
  <2>1. Holds(w, Single(w, Value(w.ty, e.num), e.at), <<e>>)
    BY <1>4, <1>8, SingleHolds
  <2>2. QED
    BY <1>8, <2>1
<1>10. PICK cut :
         /\ cut \in [0..NumBuckets -> 0..L]
         /\ cut[0] = L
         /\ \A k \in Slots : /\ cut[k + 1] <= cut[k]
                             /\ Shifted(ts)[k] = Stretch(cut[k + 1], cut[k])
  BY ShiftIsCut
<1>11. /\ 0 \in Slots
       /\ \A k \in Slots : cut[k] \in Nat /\ cut[k + 1] \in Nat /\ cut[k] <= L
  <2>1. 0 \in Slots /\ \A k \in Slots : k \in 0..NumBuckets /\ k + 1 \in 0..NumBuckets
    BY NumBucketsAssumption DEF Slots
  <2>2. \A k \in 0..NumBuckets : cut[k] \in 0..L
    BY <1>10
  <2>3. \A k \in 0..NumBuckets : cut[k] \in Nat /\ cut[k] <= L
    BY <1>6, <2>2
  <2>4. QED
    BY <2>1, <2>3
<1>12. \A k \in Slots : Holds(w, Renewed(ts)[k], held(Shifted(ts)[k]))
  BY <1>4, RenewedHolds
<1>13. ASSUME NEW k \in Slots
       PROVE  /\ HeldBy(values', accepted', Shifted(ts)[k]) = held(Shifted(ts)[k])
              /\ k = 0 => HeldBy(values', accepted', Append(Shifted(ts)[k], L + 1))
                            = Append(held(Shifted(ts)[k]), e)
  <2> DEFINE a == cut[k + 1] b == cut[k]
  <2>1. a \in Nat /\ b \in Nat /\ a <= b /\ b <= L /\ Shifted(ts)[k] = Stretch(a, b)
        /\ (k = 0 => b = L)
    BY <1>10, <1>11
  <2> HIDE DEF a, b, e
  <2>2. /\ values \in Seq(Int) /\ accepted \in Seq(Nat) /\ Len(values) = Len(accepted)
        /\ num \in Int /\ ts \in Nat /\ b <= Len(accepted)
    BY <1>5, <1>6, <2>1
  <2>3. /\ HeldBy(Append(values, num), Append(accepted, ts), Stretch(a, b))
                = HeldBy(values, accepted, Stretch(a, b))
        /\ b = L =>
              HeldBy(Append(values, num), Append(accepted, ts), Stretch(a, b + 1))
                  = Append(HeldBy(values, accepted, Stretch(a, b)),
                           [num |-> num, at |-> ts])
    <3> HIDE DEF held
    <3>1. QED
      BY <2>2, <2>1, HeldWithOneMore
  <2>4. Append(Stretch(a, b), b + 1) = Stretch(a, b + 1)
    BY <2>1, StretchNext
  <2>5. QED
    BY <1>2, <1>3, <2>1, <2>3, <2>4 DEF e
<1>14. PICK a \in Nat : a <= L /\ Shifted(ts)[0] = Stretch(a, L)
  BY <1>10, <1>11
<1> DEFINE front == held(Shifted(ts)[0])
<1>15. front \in Seq(Held) /\ Len(front) = L - a
       /\ \A j \in 1..L - a : front[j].at \in Nat /\ front[j].at <= ts
  <2>1. front = Entries(a, L)
    BY <1>6, <1>14, HeldByStretch
  <2>2. L <= Len(accepted)
    BY <1>6
  <2> HIDE DEF L, front
  <2>3. /\ Entries(a, L) \in Seq(Held) /\ Len(Entries(a, L)) = L - a
        /\ \A j \in 1..L - a : Entries(a, L)[j] = Entry(a + j)
    BY <1>4, <1>6, <1>14, <2>2, EntriesType
  <2>4. \A j \in 1..L - a : a + j \in 1..L /\ Entry(a + j).at = accepted[a + j]
    BY <1>6, <1>14 DEF Entry
  <2>5. QED
    BY <1>7, <2>1, <2>3, <2>4
<1>16. <<e>> \in Seq(Held) /\ Len(<<e>>) = 1 /\ <<e>>[1] = e
  BY <1>8, OneOf
<1>17. Holds(w, Renewed(ts)[0], front)
  BY <1>11, <1>12
<1>18. Monotone(w, Renewed(ts)[0], iv)
  <2> HIDE DEF front, e, iv, w
  <2>1. \A i \in 1..Len(front), j \in 1..Len(<<e>>) : front[i].at <= <<e>>[j].at
    <3> TAKE i \in 1..Len(front), j \in 1..Len(<<e>>)
    <3>1. i \in 1..L - a /\ j = 1
      BY <1>15, <1>16
    <3>2. front[i].at <= ts /\ <<e>>[j].at = ts
      BY <1>8, <1>15, <1>16, <3>1
    <3>3. QED
      BY <3>2
  <2>2. QED
    BY <1>9, <1>15, <1>16, <1>17, <2>1, MonotoneIfOlder
<1>19. Holds(w, AddIV(w, Renewed(ts)[0], iv), front \o <<e>>)
  <2> HIDE DEF front, e, iv, w
  <2>1. QED
    BY <1>4, <1>9, <1>15, <1>16, <1>17, AddHolds
<1>20. front \o <<e>> = Append(front, e)
  <2> HIDE DEF front, e
  <2>1. QED
    BY <1>8, <1>15, AppendIsConcat
<1>21. Logged'
  <2>1. failed' = FALSE
    BY <1>3, <1>18
  <2>2. values' \in Seq(Int) /\ Len(values') = L + 1 /\ Len(accepted') = L + 1
        /\ values'[L + 1] = num /\ accepted'[L + 1] = ts
        /\ \A i \in 1..L : values'[i] = values[i] /\ accepted'[i] = accepted[i]
    <3>1. /\ Append(values, num) \in Seq(Int)
          /\ Len(Append(values, num)) = Len(values) + 1
          /\ Append(values, num)[Len(values) + 1] = num
          /\ \A i \in 1..Len(values) : Append(values, num)[i] = values[i]
      BY <1>5, <1>6, AppendProperties
    <3>2. /\ Len(Append(accepted, ts)) = L + 1 /\ Append(accepted, ts)[L + 1] = ts
          /\ \A i \in 1..L : Append(accepted, ts)[i] = accepted[i]
      BY <1>6, AppendProperties
    <3>3. Len(values) = L
      BY <1>6
    <3> HIDE DEF L
    <3>4. QED
      BY <1>2, <1>3, <3>1, <3>2, <3>3
  <2>3. \A i \in 1..L + 1 : i # L + 1 => i \in 1..L
    <3>1. L \in Nat
      BY <1>6
    <3> HIDE DEF L
    <3>2. QED
      BY <3>1
  <2>4. w.ty = "Bool" => \A i \in 1..L + 1 : values'[i] \in {0, 1}
    BY <1>5, <1>6, <2>2, <2>3 DEF Logged
  <2>5. ASSUME NEW i \in 1..L + 1, NEW j \in 1..L + 1, i <= j
        PROVE  accepted'[i] <= accepted'[j]
    <3>1. CASE j = L + 1
      <4>1. CASE i = L + 1
        BY <1>6, <2>2, <3>1, <4>1
      <4>2. CASE i # L + 1
        BY <1>7, <2>2, <2>3, <3>1, <4>2
      <4>3. QED
        BY <4>1, <4>2
    <3>2. CASE j # L + 1
      <4>1. i \in 1..L /\ j \in 1..L
        BY <1>6, <2>5, <3>2
      <4>2. QED
        BY <2>2, <2>5, <4>1 DEF Logged
    <3>3. QED
      BY <3>1, <3>2
  <2>6. window' \in Windows
    BY <1>1 DEF Logged
  <2> HIDE DEF L
  <2>7. QED
    BY <1>1, <2>1, <2>2, <2>4, <2>5, <2>6 DEF Logged
<1>22. ASSUME NEW k \in Slots
       PROVE  Holds(w, ivs'[k], HeldBy(values', accepted', buckets'[k]))
  <2>1. Renewed(ts) = [l \in Slots |-> Renewed(ts)[l]]
        /\ Shifted(ts) = [l \in Slots |-> Shifted(ts)[l]]
    BY DEF Renewed, Shifted, InvalidateN
  <2>2. CASE k = 0
    <3>1. ivs'[k] = AddIV(w, Renewed(ts)[0], iv)
      BY <1>3, <2>1, <2>2
    <3>2. buckets'[k] = Append(Shifted(ts)[0], L + 1)
      BY <1>2, <2>1, <2>2
    <3>3. HeldBy(values', accepted', buckets'[k]) = Append(front, e)
      BY <1>13, <2>2, <3>2
    <3>4. QED
      BY <1>19, <1>20, <3>1, <3>3
  <2>3. CASE k # 0
    <3>1. ivs'[k] = Renewed(ts)[k] /\ buckets'[k] = Shifted(ts)[k]
      BY <1>2, <1>3, <2>1, <2>3
    <3>2. QED
      BY <1>12, <1>13, <3>1
  <2>4. QED
    BY <2>2, <2>3
<1>23. EachHolds'
  BY <1>1, <1>22 DEF EachHolds
<1>24. QED
  BY <1>21, <1>23

(***************************************************************************)
(* Every step of the window with its aggregation is one of the window.     *)
(***************************************************************************)
LEMMA AggregatingIsSliding ==
    /\ NewWindow => Init
    /\ [WindowNext]_windowVars => [Next]_vars
<1>1. NewWindow => Init
  BY DEF NewWindow
<1>2. WindowNext => Next
  BY DEF WindowNext, Next, UpdateWindow, AcceptNumber
<1>3. UNCHANGED windowVars => UNCHANGED vars
  BY DEF windowVars
<1>4. QED
  BY <1>1, <1>2, <1>3

LEMMA StepHolds ==
    ASSUME IInv, Consecutive, Logged, EachHolds, [WindowNext]_windowVars
    PROVE  Logged' /\ EachHolds'
<1>1. CASE WindowNext
  <2>1. PICK ts \in now..MaxTime :
           UpdateWindow(ts) \/ \E num \in NumbersOf(window.ty) : AcceptNumber(ts, num)
    BY <1>1 DEF WindowNext
  <2>2. CASE UpdateWindow(ts)
    BY <2>2, UpdateHolds
  <2>3. CASE \E num \in NumbersOf(window.ty) : AcceptNumber(ts, num)
    BY <2>3, AcceptHolds
  <2>4. QED
    BY <2>1, <2>2, <2>3
<1>2. CASE UNCHANGED windowVars
  BY <1>2 DEF windowVars, vars, Logged, EachHolds
<1>3. QED
  BY <1>1, <1>2

(***************************************************************************)
(* get_value gives the aggregation of the values that were accepted in the *)
(* time of the buckets, however these fell into the buckets, and no IV     *)
(* meets an assertion (window.rs, window_aggregations.rs).                 *)
(***************************************************************************)
THEOREM AlwaysAggregates == WindowSpec => []AggregatesTheValues
<1>1. WindowSpec => Spec
  BY AggregatingIsSliding, PTL DEF WindowSpec, Spec
<1>2. WindowSpec => [](IInv /\ Consecutive)
  BY <1>1, AlwaysConsecutive, PTL
<1>3. NewWindow => Logged /\ EachHolds
  BY InitHolds
<1>4. IInv /\ Consecutive /\ Logged /\ EachHolds /\ [WindowNext]_windowVars
          => Logged' /\ EachHolds'
  BY StepHolds
<1>5. IInv /\ Consecutive /\ Logged /\ EachHolds => AggregatesTheValues
  BY InvAggregates
<1>6. QED
  BY <1>2, <1>3, <1>4, <1>5, PTL DEF WindowSpec
=============================================================================

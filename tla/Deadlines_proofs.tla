--------------------------- MODULE Deadlines_proofs ---------------------------
(***************************************************************************)
(* Lemmas about the cycle of deadlines: advancing by pauses, as the code   *)
(* does, visits exactly the deadlines the schedule means.                  *)
(***************************************************************************)
EXTENDS Deadlines, TLAPS

LEMMA Division ==
    ASSUME NEW x \in Nat, NEW d \in Nat \ {0}
    PROVE  /\ x \div d \in Nat
           /\ x % d \in 0..d - 1
           /\ x = d * (x \div d) + (x % d)
  OBVIOUS

LEMMA DivisionUnique ==
    ASSUME NEW d \in Nat \ {0}, NEW x \in Nat,
           NEW q \in Nat, NEW r \in 0..d - 1, x = d * q + r
    PROVE  x \div d = q /\ x % d = r
<1> DEFINE p == x \div d
           s == x % d
<1>1. p \in Nat /\ s \in 0..d - 1 /\ x = d * p + s
  BY Division
<1> HIDE DEF p, s
<1>2. d * p \in Int /\ d * q \in Int
  BY <1>1
<1>3. ~(p < q)
  <2>1. SUFFICES ASSUME p + 1 <= q PROVE FALSE
    BY <1>1
  <2>2. d * (p + 1) <= d * q /\ d * (p + 1) = d * p + d
    BY <1>1, <2>1
  <2>3. QED
    BY <1>1, <1>2, <2>2
<1>4. ~(q < p)
  <2>1. SUFFICES ASSUME q + 1 <= p PROVE FALSE
    BY <1>1
  <2>2. d * (q + 1) <= d * p /\ d * (q + 1) = d * q + d
    BY <1>1, <2>1
  <2>3. QED
    BY <1>1, <1>2, <2>2
<1>5. p = q
  BY <1>1, <1>3, <1>4
<1>6. QED
  BY <1>1, <1>2, <1>5 DEF p, s

(***************************************************************************)
(* The remainder runs through 0 .. d - 1 and wraps around.                 *)
(***************************************************************************)
LEMMA DivisionStep ==
    ASSUME NEW d \in Nat \ {0}, NEW x \in Nat
    PROVE  IF x % d = d - 1
           THEN (x + 1) \div d = (x \div d) + 1 /\ (x + 1) % d = 0
           ELSE (x + 1) \div d = x \div d /\ (x + 1) % d = (x % d) + 1
<1> DEFINE q == x \div d
           r == x % d
<1>1. q \in Nat /\ r \in 0..d - 1 /\ x = d * q + r
  BY Division
<1> HIDE DEF q, r
<1>2. CASE r = d - 1
  <2>1. d * (q + 1) = d * q + d
    BY <1>1
  <2>2. x + 1 = d * (q + 1) + 0 /\ 0 \in 0..d - 1 /\ q + 1 \in Nat
    BY <1>1, <1>2, <2>1
  <2>3. (x + 1) \div d = q + 1 /\ (x + 1) % d = 0
    BY <2>2, DivisionUnique
  <2>4. QED
    BY <1>2, <2>3 DEF q, r
<1>3. CASE r # d - 1
  <2>1. x + 1 = d * q + (r + 1) /\ r + 1 \in 0..d - 1
    BY <1>1, <1>3
  <2>2. (x + 1) \div d = q /\ (x + 1) % d = r + 1
    BY <1>1, <2>1, DivisionUnique
  <2>3. QED
    BY <1>3, <2>2 DEF q, r
<1>4. QED
  BY <1>2, <1>3

LEMMA DueTimesTypes ==
    ASSUME HasTimeDriven
    PROVE  /\ NumDeadlines \in Nat \ {0}
           /\ \A i \in 1..NumDeadlines : DueTimes[i] \in Nat
           /\ HyperPeriod \in Nat
           /\ \A i \in 1..NumDeadlines :
                 i # 1 => DueTimes[i - 1] <= DueTimes[i]
  BY DeadlinesAssumption DEF HasTimeDriven, NumDeadlines, HyperPeriod

LEMMA PausesNatural ==
    ASSUME HasTimeDriven, NEW i \in 1..NumDeadlines
    PROVE  Pause(i) \in Nat /\ NextInCycle(i) \in 1..NumDeadlines
<1>1. i # 1 => i - 1 \in 1..NumDeadlines
  BY DueTimesTypes
<1>2. QED
  BY <1>1, DueTimesTypes DEF Pause, NextInCycle

LEMMA DeadlineTypes ==
    ASSUME HasTimeDriven, NEW j \in Nat
    PROVE  PositionOf(j) \in 1..NumDeadlines /\ DeadlineTime(j) \in Nat
<1>1. NumDeadlines \in Nat \ {0} /\ HyperPeriod \in Nat
  BY DueTimesTypes
<1>2. CASE j = 0
  BY <1>1, <1>2 DEF PositionOf, DeadlineTime
<1>3. CASE j # 0
  <2> DEFINE q == (j - 1) \div NumDeadlines
             r == (j - 1) % NumDeadlines
  <2>0. j - 1 \in Nat
    BY <1>3
  <2>1. q \in Nat /\ r \in 0..NumDeadlines - 1
    BY <1>1, <2>0, Division
  <2>2. PositionOf(j) = r + 1 /\ r + 1 \in 1..NumDeadlines
    BY <1>1, <1>3, <2>1 DEF PositionOf
  <2>3. DeadlineTime(j) = q * HyperPeriod + DueTimes[r + 1]
    BY <1>3, <2>2 DEF DeadlineTime
  <2> HIDE DEF q, r
  <2>4. q * HyperPeriod \in Nat
    BY <1>1, <2>1
  <2>5. QED
    BY <2>2, <2>3, <2>4, DueTimesTypes
<1>4. QED
  BY <1>2, <1>3

(***************************************************************************)
(* Following the cycle of deadlines and adding up their pauses, starting   *)
(* with the last deadline's streams at time 0, meets the deadlines of the  *)
(* schedule one by one: schedule_timed and start_online compute them so.   *)
(***************************************************************************)
THEOREM CycleFollowsSchedule ==
    ASSUME HasTimeDriven, NEW j \in Nat
    PROVE  /\ PositionOf(j + 1) = NextInCycle(PositionOf(j))
           /\ DeadlineTime(j + 1) = DeadlineTime(j) + Pause(PositionOf(j + 1))
           /\ DeadlineTime(j) <= DeadlineTime(j + 1)
<1> DEFINE n == NumDeadlines
           H == HyperPeriod
<1>1. n \in Nat \ {0} /\ H \in Nat
  BY DueTimesTypes
<1>2. /\ PositionOf(j + 1) = NextInCycle(PositionOf(j))
      /\ DeadlineTime(j + 1) = DeadlineTime(j) + Pause(PositionOf(j + 1))
  <2>1. CASE j = 0
    <3>1. 0 = n * 0 + 0 /\ 0 \in 0..n - 1
      BY <1>1
    <3>2. 0 \div n = 0 /\ 0 % n = 0
      BY <1>1, <3>1, DivisionUnique
    <3>3. PositionOf(1) = 1 /\ PositionOf(0) = n
      BY <3>2 DEF PositionOf
    <3>4. DeadlineTime(1) = DueTimes[1] /\ DeadlineTime(0) = 0
      BY <1>1, <3>2, <3>3, DueTimesTypes DEF DeadlineTime
    <3>5. QED
      BY <1>1, <2>1, <3>3, <3>4, DueTimesTypes DEF NextInCycle, Pause
  <2>2. CASE j # 0
    <3> DEFINE q == (j - 1) \div n
               r == (j - 1) % n
    <3>0. j - 1 \in Nat
      BY <2>2
    <3>1. q \in Nat /\ r \in 0..n - 1
      BY <1>1, <3>0, Division
    <3>2. PositionOf(j) = r + 1 /\ DeadlineTime(j) = q * H + DueTimes[r + 1]
      BY <2>2 DEF PositionOf, DeadlineTime
    <3>3. (j - 1) + 1 = j /\ j - 1 \in Nat /\ (j + 1) - 1 = j
      BY <2>2
    <3>4. IF r = n - 1 THEN j \div n = q + 1 /\ j % n = 0
                       ELSE j \div n = q /\ j % n = r + 1
      BY <1>1, <3>3, DivisionStep
    <3>5. /\ PositionOf(j + 1) = (j % n) + 1
          /\ DeadlineTime(j + 1) = (j \div n) * H + DueTimes[(j % n) + 1]
      BY <3>3 DEF PositionOf, DeadlineTime
    <3> HIDE DEF q, r, n, H
    <3>6. CASE r = n - 1
      <4>1. PositionOf(j) = n /\ PositionOf(j + 1) = 1
        BY <1>1, <3>1, <3>2, <3>4, <3>5, <3>6
      <4>2. DeadlineTime(j) = q * H + H
        BY <1>1, <3>1, <3>2, <3>6 DEF n, H, HyperPeriod
      <4>3. DeadlineTime(j + 1) = (q + 1) * H + DueTimes[1]
        BY <3>4, <3>5, <3>6
      <4>4. (q + 1) * H = q * H + H /\ q * H \in Int
        BY <1>1, <3>1
      <4>5. Pause(1) = DueTimes[1] /\ NextInCycle(n) = 1
        BY <1>1, DueTimesTypes DEF Pause, NextInCycle, n
      <4>6. QED
        BY <1>1, <4>1, <4>2, <4>3, <4>4, <4>5, DueTimesTypes DEF n
    <3>7. CASE r # n - 1
      <4>1. PositionOf(j) = r + 1 /\ PositionOf(j + 1) = r + 2
        BY <1>1, <3>1, <3>2, <3>4, <3>5, <3>7
      <4>2. DeadlineTime(j + 1) = q * H + DueTimes[r + 2]
        BY <1>1, <3>1, <3>4, <3>5, <3>7
      <4>3. Pause(r + 2) = DueTimes[r + 2] - DueTimes[r + 1]
        BY <1>1, <3>1 DEF Pause
      <4>4. NextInCycle(r + 1) = r + 2
        BY <1>1, <3>1, <3>7 DEF NextInCycle, n
      <4>5. DueTimes[r + 1] \in Int /\ DueTimes[r + 2] \in Int
        BY <1>1, <3>1, <3>7, DueTimesTypes DEF n
      <4>6. q * H \in Int
        BY <1>1, <3>1
      <4>7. QED
        BY <3>2, <4>1, <4>2, <4>3, <4>4, <4>5, <4>6
    <3>8. QED
      BY <3>6, <3>7
  <2>3. QED
    BY <2>1, <2>2
<1>3. Pause(PositionOf(j + 1)) \in Nat
  BY DeadlineTypes, PausesNatural
<1>4. QED
  BY <1>2, <1>3, DeadlineTypes

(***************************************************************************)
(* The deadlines lie in time in the order of their numbers, also across    *)
(* hyper-periods; those with a pause of zero share their time.             *)
(***************************************************************************)
THEOREM DeadlinesOrdered ==
    ASSUME HasTimeDriven, NEW j \in Nat, NEW k \in Nat, j < k
    PROVE  DeadlineTime(j) <= DeadlineTime(k)
<1> DEFINE n == NumDeadlines
           H == HyperPeriod
           q == (k - 1) \div n
           r == (k - 1) % n
<1>1. n \in Nat \ {0} /\ H \in Nat /\ k - 1 \in Nat
  BY DueTimesTypes
<1>2. q \in Nat /\ r \in 0..n - 1 /\ k - 1 = n * q + r
  BY <1>1, Division
<1>3. DeadlineTime(k) = q * H + DueTimes[r + 1]
  BY <1>1 DEF DeadlineTime, PositionOf
<1>4. DueTimes[r + 1] \in Nat /\ q * H \in Nat
  BY <1>1, <1>2, DueTimesTypes
<1>5. CASE j = 0
  <2>1. DeadlineTime(0) = 0
    BY DEF DeadlineTime
  <2> HIDE DEF q, r, H
  <2>2. QED
    BY <1>3, <1>4, <1>5, <2>1
<1>6. CASE j # 0
  <2> DEFINE p == (j - 1) \div n
             o == (j - 1) % n
  <2>1. j - 1 \in Nat /\ j - 1 < k - 1
    BY <1>1, <1>6
  <2>2. p \in Nat /\ o \in 0..n - 1 /\ j - 1 = n * p + o
    BY <1>1, <2>1, Division
  <2>3. DeadlineTime(j) = p * H + DueTimes[o + 1]
    BY <1>6 DEF DeadlineTime, PositionOf
  <2>4. DueTimes[o + 1] \in Nat /\ p * H \in Nat
    BY <1>1, <2>2, DueTimesTypes
  <2> HIDE DEF q, r, p, o
  <2>5. /\ DueTimes[o + 1] <= H
        /\ o < r => DueTimes[o + 1] <= DueTimes[r + 1]
    <3>1. o + 1 \in 1..n /\ r + 1 \in 1..n /\ n \in 1..n
      BY <1>1, <1>2, <2>2
    <3>2. \A i, l \in 1..n : i < l => DueTimes[i] <= DueTimes[l]
      BY DeadlinesAssumption DEF NumDeadlines
    <3>3. \A i \in 1..n : i <= n /\ DueTimes[i] \in Nat
      BY <1>1, DueTimesTypes
    <3>4. DueTimes[o + 1] <= DueTimes[n]
      BY <3>1, <3>2, <3>3
    <3>5. o < r => o + 1 < r + 1
      BY <1>2, <2>2
    <3>6. QED
      BY <3>1, <3>2, <3>4, <3>5 DEF HyperPeriod
  <2> HIDE DEF n, H
  <2>6. CASE p = q
    <3>1. n * p = n * q /\ n * p \in Int
      BY <1>1, <2>2, <2>6
    <3>2. o < r
      BY <1>2, <2>1, <2>2, <3>1
    <3>3. p * H = q * H
      BY <2>6
    <3>4. QED
      BY <1>3, <1>4, <2>3, <2>4, <2>5, <3>2, <3>3
  <2>7. CASE p < q
    <3>1. p + 1 <= q
      BY <1>2, <2>2, <2>7
    <3>2. (p + 1) * H <= q * H /\ (p + 1) * H = p * H + H
      BY <1>1, <1>2, <2>2, <3>1
    <3>3. QED
      BY <1>1, <1>3, <1>4, <2>3, <2>4, <2>5, <3>2
  <2>8. CASE q < p
    <3>1. q + 1 <= p
      BY <1>2, <2>2, <2>8
    <3>2. n * (q + 1) <= n * p /\ n * (q + 1) = n * q + n /\ n * q \in Int /\ n * p \in Int
      BY <1>1, <1>2, <2>2, <3>1
    <3>3. QED
      BY <1>1, <1>2, <2>1, <2>2, <3>2
  <2>9. QED
    BY <1>2, <2>2, <2>6, <2>7, <2>8
<1>7. QED
  BY <1>5, <1>6
=============================================================================

---------------------------- MODULE SlidingWindow ----------------------------
(***************************************************************************)
(* One sliding window instance of the interpreter                          *)
(* (interpreter/src/storage/window.rs, WindowInstance).                    *)
(*                                                                         *)
(* A window of length Duration is cut into NumBuckets buckets, a deque     *)
(* whose front is the bucket of the current time.  Whenever time advances  *)
(* by n buckets, the n oldest are dropped and n neutral ones are pushed    *)
(* to the front.  Values are not kept: a bucket is the aggregate of the    *)
(* values it accepted.  Here a bucket is the sequence of the positions, in *)
(* the history of all accepted values, of what was added to it, in the     *)
(* order in which it was added: every aggregation of the code is a fold    *)
(* over such a sequence (module WindowAggregations).                       *)
(*                                                                         *)
(* Windows are created at time 0 (EvaluatorData::new), so the start time   *)
(* of the window is 0 here.                                                *)
(***************************************************************************)
EXTENDS Integers, Sequences, SequencesExt

CONSTANTS
    NumBuckets,   \* SIZE, 64 in the code
    Duration,     \* length of the window, in nanoseconds
    Wait,         \* the window has no value before a whole Duration passed
    NoValue,      \* Value::None
    Slips,        \* the bucket numbers the f64 quotient does not reach when
                  \* it should, each with the number of ticks between the
                  \* two: 0.3 / 0.1 is below 3, and comes to it a tick late
    Precision,    \* no slip is larger
    MaxTime,      \* bound: no call carries a later time
    MaxValues     \* bound: number of values accepted

(***************************************************************************)
(* A window shorter than NumBuckets nanoseconds would have empty buckets.  *)
(***************************************************************************)
ASSUME NumBucketsAssumption == NumBuckets \in Nat \ {0}
ASSUME DurationAssumption == Duration \in Nat /\ Duration >= NumBuckets
ASSUME WaitAssumption == Wait \in BOOLEAN
ASSUME BoundsAssumption == MaxTime \in Nat /\ MaxValues \in Nat

TimePerBucket == Duration \div NumBuckets

(***************************************************************************)
(* The time at which the f64 quotient of the time and TimePerBucket        *)
(* reaches k: the k-th multiple of TimePerBucket, or some ticks after or   *)
(* before it.                                                              *)
(***************************************************************************)
Reaches(k) == k * TimePerBucket + (IF k \in DOMAIN Slips THEN Slips[k] ELSE 0)

(***************************************************************************)
(* The floating point operations are monotone, exact at 0, and precise to  *)
(* a bucket: their error is below 2^-50 of the time, a nanosecond from the *)
(* second week on and a microsecond or two for absolute Unix times.        *)
(***************************************************************************)
ASSUME SlipsAssumption ==
    /\ Precision \in Nat /\ Precision <= TimePerBucket
    /\ Reaches(1) > 0
    /\ \A k \in DOMAIN Slips :
          /\ k \in Nat \ {0}
          /\ Slips[k] \in -Precision..Precision
          /\ Reaches(k - 1) <= Reaches(k) /\ Reaches(k) <= Reaches(k + 1)

VARIABLES
    buckets,      \* buckets[0] is the front of the deque
    lastBucketIx, \* the bucket index of the last update, a BIx
    now,          \* the time of the latest call
    accepted,     \* history: the times of all accepted values
    panicked      \* a call ended in one of the panics of the code

vars == <<buckets, lastBucketIx, now, accepted, panicked>>

Times == 0..MaxTime
Slots == 0..NumBuckets - 1
BIx == [period : Nat, ix : Slots]

-----------------------------------------------------------------------------
(* Which bucket a time belongs to.                                         *)

(***************************************************************************)
(* The floor of the f64 quotient: the last number it has reached.          *)
(***************************************************************************)
OverallIx(ts) ==
    LET exact == ts \div TimePerBucket
    IN  IF ts < Reaches(exact) THEN exact - 1
        ELSE IF ts >= Reaches(exact + 1) THEN exact + 1
        ELSE exact

SpareBucket(ts) == \* wrong variant: counts one bucket too many
    [period |-> OverallIx(ts) \div NumBuckets,
     ix     |-> OverallIx(ts) % (NumBuckets + 1)]
PeriodForgotten(ts) == \* wrong variant: an index without its period
    [period |-> 0, ix |-> OverallIx(ts) % NumBuckets]

GetCurrentBucket(ts) ==
    [period |-> OverallIx(ts) \div NumBuckets,
     ix     |-> OverallIx(ts) % NumBuckets]

MoreRecent(a, b) == \/ a.period > b.period
                    \/ a.period = b.period /\ a.ix > b.ix

WrapForgotten(self, other) == \* wrong variant: the period begun is whole
    LET periods == self.period - other.period
    IN  IF self.ix < other.ix
        THEN periods * NumBuckets + (NumBuckets - other.ix + self.ix)
        ELSE periods * NumBuckets + (self.ix - other.ix)

(***************************************************************************)
(* How many buckets lie between two indices; only meaningful when other is *)
(* not more recent, the code panics otherwise.                             *)
(***************************************************************************)
BucketsSince(self, other) ==
    LET periods == self.period - other.period
    IN  IF self.ix < other.ix
        THEN (periods - 1) * NumBuckets + (NumBuckets - other.ix + self.ix)
        ELSE periods * NumBuckets + (self.ix - other.ix)

-----------------------------------------------------------------------------
Init ==
    /\ buckets = [k \in Slots |-> <<>>]
    /\ lastBucketIx = [period |-> 0, ix |-> 0]
    /\ now = 0
    /\ accepted = <<>>
    /\ panicked = FALSE

(* Wrong variants: one bucket too few, and all buckets at once. *)
OneShort(bs, n) ==
    [k \in Slots |-> IF n = 0 THEN bs[k]
                     ELSE IF k < n - 1 THEN <<>> ELSE bs[k - (n - 1)]]
ClearAll(bs, n) == IF n = 0 THEN bs ELSE [k \in Slots |-> <<>>]

(***************************************************************************)
(* n times pop_back and push_front of the neutral element.                 *)
(***************************************************************************)
InvalidateN(bs, n) == [k \in Slots |-> IF k < n THEN <<>> ELSE bs[k - n]]

(***************************************************************************)
(* The buckets once the window has been moved to time ts.                  *)
(***************************************************************************)
Shifted(ts) ==
    InvalidateN(buckets, BucketsSince(GetCurrentBucket(ts), lastBucketIx))

UpdateBuckets(ts) ==
    /\ ~panicked
    /\ now' = ts
    /\ IF MoreRecent(lastBucketIx, GetCurrentBucket(ts))
       THEN /\ panicked' = TRUE
            /\ UNCHANGED <<buckets, lastBucketIx>>
       ELSE /\ buckets' = Shifted(ts)
            /\ lastBucketIx' = GetCurrentBucket(ts)
            /\ UNCHANGED panicked
    /\ UNCHANGED accepted

(***************************************************************************)
(* Updates the buckets and adds the value to the front one.                *)
(***************************************************************************)
AcceptValue(ts) ==
    /\ ~panicked
    /\ Len(accepted) < MaxValues
    /\ now' = ts
    /\ IF MoreRecent(lastBucketIx, GetCurrentBucket(ts))
       THEN /\ panicked' = TRUE
            /\ UNCHANGED <<buckets, lastBucketIx, accepted>>
       ELSE /\ accepted' = Append(accepted, ts)
            /\ buckets' = [Shifted(ts) EXCEPT ![0] =
                               Append(@, Len(accepted) + 1)]
            /\ lastBucketIx' = GetCurrentBucket(ts)
            /\ UNCHANGED panicked

(***************************************************************************)
(* The values get_value folds over, oldest bucket first.  It is called at  *)
(* the time of the last update (prepare_evaluation updates every window    *)
(* before the streams of a cycle are evaluated).                           *)
(***************************************************************************)
Waiting == Wait /\ now < Duration
GetValueForward == \* wrong variant: folds from the front
    IF Waiting THEN NoValue
    ELSE FlattenSeq([k \in 1..NumBuckets |-> buckets[k - 1]])
GetValue ==
    IF Waiting THEN NoValue
    ELSE FlattenSeq([k \in 1..NumBuckets |-> buckets[NumBuckets - k]])

(***************************************************************************)
(* The evaluator asserts that its cycles carry non-decreasing times.       *)
(***************************************************************************)
Next == \E ts \in now..MaxTime : UpdateBuckets(ts) \/ AcceptValue(ts)

Spec == Init /\ [][Next]_vars

-----------------------------------------------------------------------------
TypeOK ==
    /\ buckets \in [Slots -> Seq(1..MaxValues)]
    /\ lastBucketIx \in BIx
    /\ now \in Times
    /\ accepted \in Seq(Times)
    /\ Len(accepted) <= MaxValues
    /\ panicked \in BOOLEAN

(***************************************************************************)
(* Calls at non-decreasing times never reach "`other` bucket is more       *)
(* recent than `self`": the bucket index is monotone in time, also where   *)
(* the float division slips.                                               *)
(***************************************************************************)
NoPanic == ~panicked

(***************************************************************************)
(* The deque and the bucket indices agree: the k-th bucket from the front  *)
(* holds exactly the values accepted k bucket lengths ago.                 *)
(***************************************************************************)
BucketContents ==
    \A k \in Slots :
        Range(buckets[k]) = {i \in DOMAIN accepted :
                                OverallIx(accepted[i]) = OverallIx(now) - k}

(***************************************************************************)
(* The fold of get_value meets the values in the order they were accepted, *)
(* without gap or repetition: it folds over a suffix of the history.  The  *)
(* integral aggregation is only right because of it.  A window that waits  *)
(* has no value in its first Duration and, from then on, always one.       *)
(***************************************************************************)
FoldsASuffix ==
    LET n == Len(accepted)
    IN  IF Wait /\ now < Duration
        THEN GetValue = NoValue
        ELSE \E m \in 0..n : GetValue = [j \in 1..(n - m) |-> m + j]

(***************************************************************************)
(* No value older than the window's duration is ever counted, but for what *)
(* the quotient slips at both ends.                                        *)
(***************************************************************************)
NothingStale ==
    \A k \in Slots : \A i \in Range(buckets[k]) :
        now - accepted[i] < Duration + 2 * Precision

(***************************************************************************)
(* Every value accepted within the last NumBuckets - 1 bucket lengths is   *)
(* counted, but for what the quotient slips: the window is never short by  *)
(* more than one bucket.                                                   *)
(***************************************************************************)
NothingRecentLost ==
    \A i \in DOMAIN accepted :
        now - accepted[i] + 2 * Precision <= (NumBuckets - 1) * TimePerBucket
            => \E k \in Slots : i \in Range(buckets[k])

(***************************************************************************)
(* What makes the above inductive: the remembered bucket index is that of  *)
(* the latest call, and no value was accepted in the future.               *)
(***************************************************************************)
Tracks ==
    /\ lastBucketIx = GetCurrentBucket(now)
    /\ \A i \in DOMAIN accepted : accepted[i] <= now

IInv == TypeOK /\ NoPanic /\ Tracks /\ BucketContents
=============================================================================

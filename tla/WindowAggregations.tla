-------------------------- MODULE WindowAggregations --------------------------
(***************************************************************************)
(* The aggregations of sliding windows                                     *)
(* (interpreter/src/storage/window_aggregations.rs and the SlidingWindow   *)
(* enum of window.rs).                                                     *)
(*                                                                         *)
(* A bucket holds an intermediate value (IV).  Values are turned into IVs  *)
(* and added to the front bucket; neutral ones are pushed to the front as  *)
(* time passes; the result folds over the buckets, oldest first.           *)
(*                                                                         *)
(* SlidingWindow says when the buckets move and which values each has;     *)
(* here each bucket has its IV too, and its buckets are history.  A value  *)
(* is a record of its kind (the variant of Value) and its number.          *)
(***************************************************************************)
EXTENDS SlidingWindow, FiniteSets, FiniteSetsExt

CONSTANTS
    Windows,   \* the windows: records of an operation and a value type
    Numbers,   \* the numbers that occur, of Floats and Signed
    Second,    \* clock ticks of a second
    Horizon,   \* bounds for the windows that look at their values: no later
    MaxNumbers \* time, and no more values; MaxTime and MaxValues bound those
               \* that count

(***************************************************************************)
(* The windows that reach SlidingWindow::new.  It has a case for the       *)
(* integral and the sum of Bool too; the inference of types lets neither   *)
(* pass.                                                                   *)
(***************************************************************************)
Numeric == {"Unsigned", "Signed", "Float"}
Supported ==
    [op : {"min", "max", "sum", "avg", "integral"}, ty : Numeric]
        \cup [op : {"count"}, ty : Numeric \cup {"Bool"}]
        \cup [op : {"conj", "disj"}, ty : {"Bool"}]

ASSUME WindowsAssumption == Windows \subseteq Supported
ASSUME NumbersAssumption == Numbers \subseteq Int
ASSUME SecondAssumption == Second \in Nat \ {0}

VARIABLES
    window, \* the operation and the type of the aggregated stream
    ivs,    \* the IVs of the buckets
    values, \* history: the numbers of all accepted values
    failed  \* unreachable!, or a failed assertion of an addition

windowVars == <<vars, window, ivs, values, failed>>

None == [kind |-> "None", num |-> 0]
Value(kind, num) == [kind |-> kind, num |-> num]
TypeError == [kind |-> "unreachable", num |-> 0] \* unreachable!("Type error.")

Truth(b) == IF b THEN 1 ELSE 0
NumbersOf(ty) == CASE ty = "Bool" -> {0, 1}
                   [] ty = "Unsigned" -> Numbers \cap Nat
                   [] OTHER -> Numbers

-----------------------------------------------------------------------------
(* WindowGeneric::from_value of the type the window was created for.       *)
FromValue(ty, v) ==
    CASE ty = "Signed" /\ v.kind \in {"Signed", "Unsigned"} ->
             Value("Signed", v.num)
      [] ty = "Unsigned" /\ v.kind = "Unsigned" -> v
      [] ty = "Float" /\ v.kind \in {"Signed", "Unsigned", "Float"} ->
             Value("Float", v.num)
      [] ty = "Bool" /\ v.kind = "Bool" -> Value("Unsigned", v.num)
      [] OTHER -> TypeError

(* Addition of two Values. *)
Plus(a, b) == IF a.kind = b.kind /\ a.kind \in {"Signed", "Unsigned", "Float"}
              THEN Value(a.kind, a.num + b.num) ELSE TypeError

(***************************************************************************)
(* The time between two values of an integral, in ticks.  The code divides *)
(* the nanoseconds beyond the whole seconds by 100_000_000, so they count  *)
(* tenfold.                                                                *)
(***************************************************************************)
TimeDiff(start, end) ==
    ((end - start) \div Second) * Second + 10 * ((end - start) % Second)

-----------------------------------------------------------------------------
(* WindowIV::default, the neutral element.                                 *)
Default(w, ts) ==
    CASE w.op = "count" -> 0
      [] w.op = "sum" -> FromValue(w.ty, Value("Unsigned", 0))
      [] w.op \in {"min", "max"} -> None
      [] w.op = "avg" -> [sum |-> None, num |-> 0]
      [] w.op = "conj" -> TRUE
      [] w.op = "disj" -> FALSE
      [] w.op = "integral" ->
             [volume |-> 0, endValue |-> 0, endTime |-> ts,
              startValue |-> 0, startTime |-> ts, valid |-> FALSE]

(* From<(Value, Time)>: the IV of one value. *)
Single(w, v, ts) ==
    CASE w.op = "count" -> 1
      [] w.op = "sum" -> FromValue(w.ty, v)
      [] w.op \in {"min", "max"} -> v
      [] w.op = "avg" -> [sum |-> FromValue(w.ty, v), num |-> 1]
      [] w.op \in {"conj", "disj"} -> v.num = 1
      [] w.op = "integral" ->
             [volume |-> 0, endValue |-> v.num, endTime |-> ts,
              startValue |-> v.num, startTime |-> ts, valid |-> TRUE]

AddExtreme(op, a, b) ==
    IF a.kind = "None" THEN b
    ELSE IF b.kind = "None" THEN a
    ELSE Value(a.kind, IF op = "min" THEN Min({a.num, b.num})
                                     ELSE Max({a.num, b.num}))

AddAverage(a, b) ==
    IF b.sum = None THEN a
    ELSE IF a.sum = None THEN b
    ELSE [sum |-> Plus(a.sum, b.sum), num |-> a.num + b.num]

(***************************************************************************)
(* Volumes are counted in halves of a value times a tick.                  *)
(***************************************************************************)
AddIntegral(a, b) ==
    IF ~b.valid THEN a
    ELSE IF ~a.valid THEN b
    ELSE [volume |-> a.volume + b.volume
                        + (b.startValue + a.endValue)
                              * TimeDiff(a.endTime, b.startTime),
          endValue |-> b.endValue, endTime |-> b.endTime,
          startValue |-> a.startValue, startTime |-> a.startTime,
          valid |-> TRUE]

(* Its assertion: "Time does not behave monotonically!" *)
Monotone(w, a, b) ==
    w.op = "integral" /\ a.valid /\ b.valid => b.startTime >= a.endTime

(***************************************************************************)
(* Add.  The sum goes through from_value once more.                        *)
(***************************************************************************)
AddIV(w, a, b) ==
    CASE w.op = "count" -> a + b
      [] w.op = "sum" -> FromValue(w.ty, Plus(a, b))
      [] w.op \in {"min", "max"} -> AddExtreme(w.op, a, b)
      [] w.op = "avg" -> AddAverage(a, b)
      [] w.op = "conj" -> a /\ b
      [] w.op = "disj" -> a \/ b
      [] w.op = "integral" -> AddIntegral(a, b)

(***************************************************************************)
(* Into<Value>: integer division, towards zero, of integer averages; a     *)
(* Float average stays the pair of its sum and its number.                 *)
(***************************************************************************)
TowardsZero(a, n) == IF a >= 0 THEN a \div n ELSE -((-a) \div n)
Result(w, iv) ==
    CASE w.op = "count" -> Value("Unsigned", iv)
      [] w.op \in {"sum", "min", "max"} -> iv
      [] w.op = "avg" ->
             IF iv.sum = None THEN None
             ELSE IF iv.sum.kind = "Float" THEN iv
             ELSE Value(iv.sum.kind, TowardsZero(iv.sum.num, iv.num))
      [] w.op \in {"conj", "disj"} -> Value("Bool", Truth(iv))
      [] w.op = "integral" -> Value("Float", iv.volume)

(***************************************************************************)
(* The fold over the k oldest buckets, starting from a neutral element.    *)
(***************************************************************************)
Oldest(k) == ivs[NumBuckets - k]
Fold[k \in 0..NumBuckets] ==
    IF k = 0 THEN Default(window, now) ELSE AddIV(window, Fold[k - 1], Oldest(k))

FoldedForward == \* wrong variant: the newest bucket first
    LET fold[k \in 0..NumBuckets] ==
            IF k = 0 THEN Default(window, now)
            ELSE AddIV(window, fold[k - 1], ivs[k - 1])
    IN  fold[NumBuckets]
Folded == Fold[NumBuckets]
WindowValue == IF Waiting THEN None ELSE Result(window, Folded)

-----------------------------------------------------------------------------
(***************************************************************************)
(* WindowInstance::new: a sum fails at once where its neutral element does *)
(* not convert.                                                            *)
(***************************************************************************)
NewWindow ==
    /\ Init
    /\ window \in Windows
    /\ ivs = [k \in Slots |-> Default(window, 0)]
    /\ values = <<>>
    /\ failed = (window.op = "sum" /\ Default(window, 0) = TypeError)

(***************************************************************************)
(* invalidate_n: the IVs move with the buckets.                            *)
(***************************************************************************)
Renewed(ts) ==
    LET n == BucketsSince(GetCurrentBucket(ts), lastBucketIx)
    IN  [k \in Slots |-> IF k < n THEN Default(window, ts) ELSE ivs[k - n]]

UpdateWindow(ts) ==
    /\ ~failed
    /\ UpdateBuckets(ts)
    /\ ivs' = IF panicked' THEN ivs ELSE Renewed(ts)
    /\ UNCHANGED <<window, values, failed>>

AcceptNumber(ts, num) ==
    /\ ~failed
    /\ AcceptValue(ts)
    /\ LET iv == Single(window, Value(window.ty, num), ts)
       IN  IF panicked' THEN UNCHANGED <<ivs, values, failed>>
           ELSE /\ ivs' = [Renewed(ts) EXCEPT ![0] = AddIV(window, @, iv)]
                /\ failed' = ~Monotone(window, Renewed(ts)[0], iv)
                /\ values' = Append(values, num)
    /\ UNCHANGED window

(***************************************************************************)
(* The evaluator asserts that its cycles carry non-decreasing times.       *)
(***************************************************************************)
Counts == window.op = "count"
WindowNext ==
    \E ts \in now..MaxTime :
        /\ Counts \/ ts <= Horizon
        /\ \/ UpdateWindow(ts)
           \/ /\ Counts \/ Len(values) < MaxNumbers
              /\ \E num \in NumbersOf(window.ty) : AcceptNumber(ts, num)

WindowSpec == NewWindow /\ [][WindowNext]_windowVars

-----------------------------------------------------------------------------
(* What the aggregations mean, of the values retained, oldest first: those *)
(* that were accepted in the time of the last NumBuckets buckets.          *)

Total(nums) ==
    LET sum[i \in 0..Len(nums)] == IF i = 0 THEN 0 ELSE sum[i - 1] + nums[i]
    IN  sum[Len(nums)]

Entry(i) == [num |-> values[i], at |-> accepted[i]]
Count ==
    Cardinality({i \in DOMAIN accepted :
                    OverallIx(now) - OverallIx(accepted[i]) < NumBuckets})
Retained == [i \in 1..Count |-> Entry(Len(accepted) - Count + i)]
NumsOf(entries) == [i \in DOMAIN entries |-> entries[i].num]
Nums == NumsOf(Retained)

(* The area below the lines that connect the values. *)
Trapezoids(entries, time(_, _)) ==
    Total([i \in DOMAIN entries |->
        IF i = 1 THEN 0
        ELSE (entries[i - 1].num + entries[i].num)
                 * time(entries[i - 1].at, entries[i].at)])

Expected ==
    LET op == window.op
        kind == window.ty
    IN  CASE op = "count" -> Value("Unsigned", Count)
          [] op = "sum" -> Value(kind, Total(Nums))
          [] op = "conj" -> Value("Bool", Truth(0 \notin Range(Nums)))
          [] op = "disj" -> Value("Bool", Truth(1 \in Range(Nums)))
          [] op = "integral" -> Value("Float", Trapezoids(Retained, TimeDiff))
          [] op \in {"min", "max", "avg"} /\ Count = 0 -> None
          [] op = "min" /\ Count > 0 -> Value(kind, Min(Range(Nums)))
          [] op = "max" /\ Count > 0 -> Value(kind, Max(Range(Nums)))
          [] op = "avg" /\ Count > 0 ->
                 IF kind = "Float"
                 THEN [sum |-> Value(kind, Total(Nums)), num |-> Count]
                 ELSE Value(kind, TowardsZero(Total(Nums), Count))

(***************************************************************************)
(* A window that does not wait has as its value the aggregation of all     *)
(* values accepted in the time of its buckets: it does not matter which    *)
(* values share a bucket, nor how many buckets are empty, nor at which     *)
(* time a neutral one was made.  And no value and no fold meets an         *)
(* assertion, such as that of the integral that times do not decrease.     *)
(***************************************************************************)
AggregatesTheValues ==
    /\ ~failed
    /\ \A k \in 1..NumBuckets : Monotone(window, Fold[k - 1], Oldest(k))
    /\ WindowValue = IF Wait /\ now < Duration THEN None ELSE Expected

(***************************************************************************)
(* What the test test_integral_window says of the value of an integral:    *)
(* "Value so far: (1+5) / 2 * 2 = 6" two seconds apart.                    *)
(***************************************************************************)
Elapsed(start, end) == end - start
IntegralIsArea ==
    window.op = "integral" /\ ~Waiting =>
        WindowValue = Value("Float", Trapezoids(Retained, Elapsed))
=============================================================================

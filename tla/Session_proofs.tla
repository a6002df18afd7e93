---------------------------- MODULE Session_proofs ----------------------------
(***************************************************************************)
(* Theorems about Session, for all inputs, files, command lines, numbers   *)
(* of decimals and clocks: which triggers are printed and with which       *)
(* times, that the final report is right and stays on the screen, and that *)
(* only bad input stops a run.                                             *)
(***************************************************************************)
EXTENDS Session, SequenceTheorems, WellFoundedInduction, TLAPS

-----------------------------------------------------------------------------
(* The inductive invariant: types.                                         *)

Row(r) == file.rows[r]
NumRows == Len(file.rows)

Kinds == {"Silent", "Progress", "WarningsOnly", "Triggers", "Outputs", "Debug"}
EndItem == [event |-> <<>>]
EventItems == [event : [DOMAIN Inputs -> Cells], time : Nat]
TriggerSteps == [do : {"trigger"}, trigger : DOMAIN Inputs, time : Nat]
StepSet ==
    [do : {"start", "count", "clear", "events", "triggers", "leave"}]
        \cup [do : {"message"}, kind : Kinds]
        \cup [do : {"evaluate"}, item : EventItems]
        \cup TriggerSteps
LineSet ==
    [k : {"message"}, kind : Kinds] \cup [k : {"events", "triggers"}, n : Nat]
        \cup [k : {"trigger"}, trigger : DOMAIN Inputs, time : Seq(Nat)]

TypeInv ==
    /\ file \in Files /\ line \in CommandLines
    /\ config # <<>> => config = Config(line) /\ ~Unreadable(line)
    /\ reader.rows \in Nat /\ reader.timer \in Seq(Nat)
    /\ reader = [columns |-> reader.columns, time |-> reader.time,
                 rows |-> reader.rows, timer |-> reader.timer]
    /\ edm \in {"setup", "reads", "ended", "panicked"}
    /\ slot \in Seq(Nat)
    /\ queue \in Seq(EventItems \cup {EndItem})
    /\ todo \in Seq(StepSet)
    /\ startTime \in Nat /\ lastTime \in Nat /\ clock \in Nat
    /\ counts \in [events : Nat, triggers : Nat]
    /\ screen \in Seq(LineSet)
    /\ lock \in {"free", "progress", "main"} /\ done \in BOOLEAN
    /\ progress \in {"off", "sleeps", "events", "triggers"}

(***************************************************************************)
(* Nothing happens before the arguments are read.                          *)
(***************************************************************************)
UnstartedInv ==
    config = <<>> =>
        /\ edm = "setup" /\ slot = <<>> /\ queue = <<>> /\ todo = <<>>
        /\ screen = <<>> /\ lock = "free" /\ ~done /\ progress = "off"
        /\ lastTime = 0 /\ counts = [events |-> 0, triggers |-> 0]
        /\ reader.rows = 0

-----------------------------------------------------------------------------
(* What the reader has read.                                               *)

Offline == config.mode = "Offline"

(***************************************************************************)
(* The columns are those of the header, and every row that was read could  *)
(* be.                                                                     *)
(***************************************************************************)
ReaderInv ==
    /\ edm = "setup" => reader.rows = 0 /\ queue = <<>>
    /\ edm # "setup" =>
           /\ reader.columns = ColumnOf(file.header)
           /\ reader.time = TimeColumn(file.header)
           /\ \A i \in DOMAIN Inputs : reader.columns[i] # 0
    /\ reader.rows <= NumRows
    /\ \A r \in 1..reader.rows : ~Unparsable(Row(r))
    /\ edm = "ended" => reader.rows = NumRows

(***************************************************************************)
(* The timer is at the row that was read last.                             *)
(***************************************************************************)
TimerInv ==
    edm # "setup" =>
        /\ config.timer = "Delayed" => reader.timer = <<reader.rows * config.delay[1]>>
        /\ config.timer = "FromFile" =>
               /\ reader.timer = IF reader.rows = 0 THEN <<>> ELSE <<MeantTime(1)>>
               /\ \A r \in 1..reader.rows : HasTime(r) /\ MeantTime(1) <= MeantTime(r)
        /\ Offline /\ reader.rows > 0 => TimeCells = {} \/ HasTime(1)

-----------------------------------------------------------------------------
(* What the main thread does.                                              *)

(***************************************************************************)
(* The last step tells what the main thread is busy with; a step is known  *)
(* by its place from the end.                                              *)
(***************************************************************************)
JobOf(steps) == IF steps = <<>> THEN "idle" ELSE steps[Len(steps)].do
Job == JobOf(todo)
Pending == todo[Len(todo)].item

Reports1 == Offline /\ Counts
EndStep(n) ==
    CASE n = 0 -> [do |-> "leave"]
      [] n = 1 -> IF Reports1 THEN [do |-> "triggers"] ELSE Note("Outputs")
      [] n = 2 -> IF Reports1 THEN [do |-> "events"] ELSE Note("Debug")
      [] n = 3 -> [do |-> "clear"]
      [] n = 4 -> Note("Outputs")
      [] n = 5 -> Note("Debug")

TodoInv ==
    LET len == Len(todo)
    IN  CASE Job = "start" -> len = 1 /\ Offline
          [] Job = "evaluate" ->
                 \A n \in 1..len - 1 :
                     todo[n] = IF n = len - 1 THEN [do |-> "count"] ELSE Note("Debug")
          [] Job = "leave" ->
                 /\ len <= IF Reports1 THEN 6 ELSE 3
                 /\ \A n \in 1..len : todo[n] = EndStep(len - n)
          [] OTHER -> \A n \in 1..len : todo[n] \in TriggerSteps \cup {Note("Debug")}

(***************************************************************************)
(* Offline the start time is on its way once a row was read, and nothing   *)
(* else is done before it was received.                                    *)
(***************************************************************************)
StartInv ==
    config # <<>> /\ Offline =>
        IF Job = "start"
        THEN slot = IF reader.rows = 0 THEN <<>> ELSE <<StartOf>>
        ELSE reader.rows > 0 /\ slot = <<>> /\ startTime = StartOf

(***************************************************************************)
(* The first h rows were received; those behind are in the queue, behind   *)
(* them the end, unless the reader panicked and took some with it.         *)
(***************************************************************************)
IsRow(item, r) ==
    /\ item \in EventItems
    /\ item.event = ReadEvent(Row(r))
    /\ ~ByTheClock => item.time = Since(r)

EndQueued == edm = "ended" /\ Job # "leave"
NumQueued == IF EndQueued THEN Len(queue) - 1 ELSE Len(queue)

QueueInv(h) ==
    /\ EndQueued => queue # <<>> /\ queue[Len(queue)] = EndItem
    /\ \A n \in 1..NumQueued : IsRow(queue[n], h + n)
    /\ h + NumQueued <= reader.rows
    /\ edm # "panicked" => h + NumQueued = reader.rows
    /\ Job = "leave" => edm = "ended" /\ queue = <<>>
    /\ Job = "evaluate" => h > 0 /\ IsRow(Pending, h)
    /\ Job = "start" => h = 0

-----------------------------------------------------------------------------
(* What is printed.                                                        *)

LineOf(step) == [k |-> "trigger", trigger |-> step.trigger, time |-> TimeInfo(step.time)]
PendingLines(steps) ==
    FlattenSeq([n \in DOMAIN steps |->
        IF steps[n].do = "trigger" THEN <<LineOf(steps[n])>> ELSE <<>>])

FiringUpTo(n) == FlattenSeq([r \in 1..n |-> FiringOf(r)])
Evaluated(h) == IF Job = "evaluate" THEN h - 1 ELSE h

Matches(lines, firings) ==
    /\ Len(lines) = Len(firings)
    /\ \A n \in 1..Len(lines) : Reports(lines[n], firings[n])

Shown == config.verbosity \in {"Triggers", "Outputs", "Debug"}
ReportInv(h) ==
    config # <<>> =>
        /\ Shown => /\ Matches(TriggerLines \o PendingLines(todo), FiringUpTo(Evaluated(h)))
                    /\ \A n \in 1..Len(screen) : screen[n].k \in {"message", "trigger"}
        /\ ~Shown => \A n \in 1..Len(screen) : screen[n].k # "trigger"

CountsInv(h) ==
    config # <<>> /\ Counts =>
        /\ counts.events = IF Job = "evaluate" /\ Len(todo) > 1 THEN h - 1 ELSE h
        /\ counts.triggers + Len(PendingLines(todo)) = Len(FiringUpTo(Evaluated(h)))

(***************************************************************************)
(* The two threads take turns at the two lines on the screen.              *)
(***************************************************************************)
FinalLines ==
    <<[k |-> "events", n |-> NumRows], [k |-> "triggers", n |-> Len(Firing)]>>
ScreenInv ==
    config # <<>> =>
        IF ~Counts THEN progress = "off" /\ lock = "free" /\ ~done
        ELSE IF done
        THEN /\ lock = "free" /\ progress \in {"sleeps", "off"}
             /\ Job = "leave" /\ Len(todo) = 1
             /\ screen = FinalLines
        ELSE CASE lock = "free" -> progress = "sleeps" /\ Len(screen) = 2
               [] lock = "progress" ->
                      \/ progress = "events" /\ screen = <<>>
                      \/ progress = "triggers" /\ Len(screen) = 1
               [] lock = "main" ->
                      /\ progress = "sleeps" /\ Offline /\ Job = "leave"
                      /\ \/ Len(todo) = 3 /\ screen = <<>>
                         \/ Len(todo) = 2 /\ screen = <<EventsLine>>
TurnInv ==
    config # <<>> /\ Counts /\ Offline /\ Job = "leave" =>
        /\ lock # "main" => Len(todo) \in {1, 4, 5, 6}
        /\ Len(todo) = 1 => done

-----------------------------------------------------------------------------
(* Times do not decrease, unless the file is at fault.                     *)

LatestTime ==
    CASE config.timer = "RealTime" -> clock
      [] config.timer = "Delayed" -> reader.rows * config.delay[1]
      [] config.timer = "FromFile" -> IF reader.rows = 0 THEN 0 ELSE Since(reader.rows)

InOrder(items, n, low, high) ==
    \A i \in 1..n :
        /\ low <= items[i].time /\ items[i].time <= high
        /\ \A j \in 1..i : items[j].time <= items[i].time
Newest == IF Job = "evaluate" THEN Pending.time ELSE lastTime
OrderInv ==
    edm # "setup" /\ Offline /\ ~AtFault =>
        /\ lastTime <= Newest /\ Newest <= LatestTime
        /\ InOrder(queue, NumQueued, Newest, LatestTime)
EarlyInv == edm = "setup" => lastTime = 0 /\ Job \in {"idle", "start"}

FaultInv == edm = "panicked" \/ outcome \in {"exit", "panic"} => AtFault
LeftInv == outcome = "done" => Job = "leave" /\ Len(todo) = 1

IInv ==
    /\ TypeInv /\ UnstartedInv /\ ReaderInv /\ TimerInv
    /\ TodoInv /\ StartInv
    /\ \E h \in 0..reader.rows : QueueInv(h) /\ ReportInv(h) /\ CountsInv(h)
    /\ ScreenInv /\ TurnInv
    /\ OrderInv /\ EarlyInv /\ FaultInv /\ LeftInv

-----------------------------------------------------------------------------
(* Induction and recursion up to a number, induction over sequences.       *)

(* A set of numbers that is not empty has a least one.                      *)
LEMMA LeastNumber ==
    ASSUME NEW S \in SUBSET Nat, S # {}
    PROVE  \E n \in S : \A m \in S : n <= m
<1> DEFINE R == {ss \in Nat \X Nat : ss[1] < ss[2]}
<1>1. OpToRel(<, Nat) = R
  BY Zenon DEF OpToRel
<1>2. IsWellFoundedOn(R, Nat)
  BY <1>1, NatLessThanWellFounded, Zenon
<1>3. PICK n \in S : \A m \in S : <<m, n>> \notin R
  BY <1>2, WFMin
<1>4. ASSUME NEW m \in S PROVE n <= m
  <2>1. n \in Nat /\ m \in Nat /\ ~(n > m)
    BY <1>3, <1>4
  <2>2. QED
    BY <2>1
<1>5. QED
  BY <1>4

(* A set of numbers with 0 and every successor has all numbers up to n.     *)
LEMMA UpTo ==
    ASSUME NEW n \in Nat, NEW T, 0 \in T,
           \A i \in 0..n : i # n /\ i \in T => i + 1 \in T
    PROVE  \A i \in 0..n : i \in T
<1> DEFINE Missing == {i \in 0..n : i \notin T}
<1>1. SUFFICES ASSUME Missing # {} PROVE FALSE
  OBVIOUS
<1>2. Missing \in SUBSET Nat
  OBVIOUS
<1>3. PICK i \in Missing : \A j \in Missing : i <= j
  <2> HIDE DEF Missing
  <2>1. QED
    BY <1>1, <1>2, LeastNumber
<1>4. i \in 0..n /\ i \notin T /\ i # 0
  BY <1>3
<1>5. i - 1 \in 0..n /\ i - 1 # n /\ ~(i <= i - 1) /\ (i - 1) + 1 = i
  BY <1>4
<1>6. i - 1 \in T
  BY <1>3, <1>5
<1>7. i \in T
  BY <1>5, <1>6
<1>8. QED
  BY <1>4, <1>7

(***************************************************************************)
(* A function whose value is computed from the one before exists.          *)
(***************************************************************************)
Iterates(F, n, V, a, G) ==
    /\ F \in [0..n -> V]
    /\ F[0] = a
    /\ \A i \in 0..n : i # 0 => F[i] = G[<<i, F[i - 1]>>]

LEMMA Recursion ==
    ASSUME NEW n \in Nat, NEW V, NEW a \in V, NEW G \in [(0..n) \X V -> V]
    PROVE  \E F : Iterates(F, n, V, a, G)
<1> DEFINE Solves(F, m) == Iterates(F, m, V, a, G)
           T == {m \in 0..n : \E F : Solves(F, m)}
<1> USE DEF Iterates
<1>1. 0 \in T
  <2>1. Solves([i \in 0..0 |-> a], 0)
    OBVIOUS
  <2> HIDE DEF Solves
  <2>2. QED
    BY <2>1
<1>2. ASSUME NEW k \in 0..n, k # n, k \in T PROVE k + 1 \in T
  <2>1. PICK F : Solves(F, k)
    BY <1>2
  <2> DEFINE m == k + 1
             H == [i \in 0..m |-> IF i = m THEN G[<<m, F[m - 1]>>] ELSE F[i]]
  <2>2. m \in 0..n /\ m - 1 = k /\ k \in 0..k /\ 0 \in 0..k /\ m # 0 /\ m \in 0..m
    BY <1>2
  <2>3. F[m - 1] \in V
    BY <2>1, <2>2
  <2> HIDE DEF m
  <2>4. G[<<m, F[m - 1]>>] \in V
    BY <2>2, <2>3
  <2>5. \A i \in 0..m : i # m => i \in 0..k
    BY <2>2 DEF m
  <2>6. H \in [0..m -> V]
    BY <2>1, <2>4, <2>5
  <2>7. /\ H[m] = G[<<m, F[m - 1]>>]
        /\ \A i \in 0..m : i # m => H[i] = F[i]
    BY <2>2
  <2> HIDE DEF H
  <2>8. H[0] = a
    <3>1. 0 \in 0..m /\ 0 # m
      BY <2>2 DEF m
    <3>2. QED
      BY <2>1, <2>7, <3>1
  <2>9. ASSUME NEW i \in 0..m, i # 0 PROVE H[i] = G[<<i, H[i - 1]>>]
    <3>1. i - 1 \in 0..m /\ i - 1 # m
      BY <2>2, <2>9 DEF m
    <3>2. H[i - 1] = F[i - 1]
      BY <2>7, <3>1
    <3>3. CASE i = m
      BY <2>7, <3>2, <3>3
    <3>4. CASE i # m
      <4>1. i \in 0..k /\ H[i] = F[i]
        BY <2>5, <2>7, <3>4
      <4>2. QED
        BY <2>1, <2>9, <3>2, <4>1
    <3>5. QED
      BY <3>3, <3>4
  <2>10. Solves(H, m)
    BY <2>6, <2>8, <2>9
  <2> HIDE DEF Solves
  <2>11. QED
    BY <2>2, <2>10 DEF m
<1>3. n \in 0..n
  OBVIOUS
<1>4. \A i \in 0..n : i \in T
  <2> HIDE DEF T
  <2>1. QED
    BY <1>1, <1>2, UpTo
<1>5. PICK F : Solves(F, n)
  BY <1>3, <1>4
<1> HIDE DEF Iterates
<1>6. QED
  BY <1>5

(* A set with the empty sequence and every extension has all sequences.     *)
LEMMA SeqInduction ==
    ASSUME NEW S, NEW T, <<>> \in T,
           \A s \in Seq(S), e \in S : s \in T => Append(s, e) \in T
    PROVE  \A s \in Seq(S) : s \in T
<1> TAKE s \in Seq(S)
<1> DEFINE U == {i \in 0..Len(s) : SubSeq(s, 1, i) \in T}
<1>1. 0 \in U
  <2>1. SubSeq(s, 1, 0) = <<>>
    BY SubSeqEmpty
  <2>2. 0 \in 0..Len(s)
    OBVIOUS
  <2>3. QED
    BY <2>1, <2>2
<1>2. ASSUME NEW i \in 0..Len(s), i # Len(s), i \in U PROVE i + 1 \in U
  <2>1. i + 1 \in 1..Len(s) /\ i + 1 \in 0..Len(s)
    BY <1>2
  <2>2. s[i + 1] \in S /\ SubSeq(s, 1, i) \in Seq(S)
    BY <2>1
  <2>3. SubSeq(s, 1, i + 1) = SubSeq(s, 1, i) \o <<s[i + 1]>>
    <3>1. 1 \in 1..Len(s) /\ (i + 1) \in 1..Len(s) /\ (i + 1) - 1 = i
      BY <2>1
    <3>2. QED
      BY <3>1, SubSeqRecursiveSecond
  <2>4. SubSeq(s, 1, i + 1) = Append(SubSeq(s, 1, i), s[i + 1])
    BY <2>2, <2>3, AppendIsConcat
  <2>5. QED
    BY <1>2, <2>1, <2>2, <2>4
<1>3. Len(s) \in 0..Len(s) /\ Len(s) \in Nat
  OBVIOUS
<1>4. \A i \in 0..Len(s) : i \in U
  <2> HIDE DEF U
  <2>1. QED
    BY <1>1, <1>2, <1>3, UpTo
<1>5. SubSeq(s, 1, Len(s)) \in T
  BY <1>3, <1>4
<1>6. QED
  BY <1>5, SubSeqFull

-----------------------------------------------------------------------------
(* Flattening.                                                             *)

(***************************************************************************)
(* The first n sequences of seqs, one behind the other.                    *)
(***************************************************************************)
FlatTo(seqs, n) == FlattenSeq([i \in 1..n |-> seqs[i]])

LEMMA FlatToZero == ASSUME NEW seqs PROVE FlatTo(seqs, 0) = <<>>
<1>1. [i \in 1..0 |-> seqs[i]] = <<>>
  OBVIOUS
<1>2. QED
  BY <1>1 DEF FlatTo, FlattenSeq

(***************************************************************************)
(* A function that solves the equation of FlattenSeq gives its result.     *)
(***************************************************************************)
Accumulates(F, seqs, n) ==
    /\ F[0] = <<>>
    /\ \A i \in 0..n : i # 0 => F[i] = F[i - 1] \o seqs[i]

LEMMA FlatToIs ==
    ASSUME NEW S, NEW n \in Nat, NEW seqs \in [1..n -> Seq(S)],
           NEW F, Accumulates(F, seqs, n)
    PROVE  FlatTo(seqs, n) = F[n]
<1> DEFINE V == [i \in 1..n |-> seqs[i]]
           Flattens(H) ==
               H = [i \in 1..n |-> IF i = 1 THEN V[i] ELSE H[i - 1] \o V[i]]
           C == CHOOSE H : Flattens(H)
           G == [i \in 1..n |-> F[i]]
           T == {i \in 0..n : i = 0 \/ C[i] = F[i]}
<1> USE DEF Accumulates
<1>0. CASE n = 0
  BY <1>0, FlatToZero
<1>1. ASSUME n # 0 PROVE F[1] = seqs[1]
  <2>1. 1 \in 0..n /\ 1 \in 1..n /\ 1 # 0
    BY <1>1
  <2>2. F[1] = F[1 - 1] \o seqs[1]
    BY <2>1, Zenon
  <2>3. seqs[1] \in Seq(S)
    BY <2>1
  <2>4. F[1 - 1] = <<>>
    OBVIOUS
  <2>5. QED
    BY <2>2, <2>3, <2>4, ConcatEmptySeq
<1>2. ASSUME n # 0 PROVE Flattens(G)
  <2>1. ASSUME NEW i \in 1..n
        PROVE  G[i] = IF i = 1 THEN V[i] ELSE G[i - 1] \o V[i]
    <3>1. CASE i = 1
      BY <1>1, <1>2, <3>1
    <3>2. CASE i # 1
      <4>1. i - 1 \in 1..n /\ i \in 0..n /\ i # 0
        BY <3>2
      <4>2. G[i - 1] = F[i - 1] /\ G[i] = F[i]
        BY <4>1
      <4>3. QED
        BY <3>2, <4>1, <4>2
    <3>3. QED
      BY <3>1, <3>2
  <2>2. QED
    BY <2>1
<1>3. ASSUME n # 0 PROVE Flattens(C)
  BY <1>2, <1>3
<1>4. ASSUME n # 0 PROVE FlatTo(seqs, n) = C[n]
  <2>1. Len(V) = n
    OBVIOUS
  <2>2. FlatTo(seqs, n) = FlattenSeq(V)
    BY DEF FlatTo
  <2>3. FlattenSeq(V) = C[n]
    BY <1>4, <2>1 DEF FlattenSeq
  <2>4. QED
    BY <2>2, <2>3
<1> HIDE DEF C
<1>5. 0 \in T
  OBVIOUS
<1>6. ASSUME n # 0, NEW i \in 0..n, i # n, i \in T PROVE i + 1 \in T
  <2>1. i + 1 \in 1..n /\ i + 1 \in 0..n /\ (i + 1) - 1 = i
    BY <1>6
  <2>2. C[i + 1] = IF i + 1 = 1 THEN V[i + 1] ELSE C[i] \o V[i + 1]
    BY <1>3, <1>6, <2>1
  <2>3. CASE i = 0
    BY <1>1, <1>6, <2>1, <2>2, <2>3
  <2>4. CASE i # 0
    <3>1. F[i + 1] = F[i] \o seqs[i + 1]
      <4>1. i + 1 # 0
        BY <2>1
      <4>2. F[i + 1] = F[(i + 1) - 1] \o seqs[i + 1]
        BY <2>1, <4>1, Zenon
      <4>3. QED
        BY <2>1, <4>2
    <3>2. C[i] = F[i] /\ i + 1 # 1
      BY <1>6, <2>4
    <3>3. C[i + 1] = F[i + 1]
      BY <2>1, <2>2, <3>1, <3>2
    <3>4. QED
      BY <2>1, <3>3
  <2>5. QED
    BY <2>3, <2>4
<1>7. ASSUME n # 0 PROVE n \in T
  <2>1. n \in 0..n
    OBVIOUS
  <2> HIDE DEF T
  <2>2. QED
    BY <1>5, <1>6, <1>7, <2>1, UpTo
<1>8. QED
  BY <1>0, <1>4, <1>7

FlattensBy(F, seqs, n, S) ==
    /\ F \in [0..n -> Seq(S)]
    /\ Accumulates(F, seqs, n)

(* The flattening is built up by one concatenation for each sequence.       *)
LEMMA FlattenSteps ==
    ASSUME NEW S, NEW n \in Nat, NEW seqs \in [1..n -> Seq(S)]
    PROVE  \E F : FlattensBy(F, seqs, n, S)
<1> DEFINE V == Seq(S)
           G == [p \in (0..n) \X V |-> IF p[1] = 0 THEN <<>> ELSE p[2] \o seqs[p[1]]]
<1>1. \A v \in V, w \in V : v \o w \in V
  OBVIOUS
<1>2. \A i \in 0..n : i # 0 => seqs[i] \in V
  OBVIOUS
<1>3. <<>> \in V
  OBVIOUS
<1> HIDE DEF V
<1>4. G \in [(0..n) \X V -> V]
  <2>1. \A p \in (0..n) \X V : p[2] \in V /\ p[1] \in 0..n
    OBVIOUS
  <2>2. \A p \in (0..n) \X V : p[1] # 0 => p[2] \o seqs[p[1]] \in V
    BY <1>1, <1>2, <2>1
  <2>3. QED
    BY <1>3, <2>2
<1>5. \A i \in 0..n : i # 0 => \A v \in V : G[<<i, v>>] = v \o seqs[i]
  OBVIOUS
<1> HIDE DEF G
<1>6. PICK F : Iterates(F, n, V, <<>>, G)
  BY <1>3, <1>4, Recursion
<1>7. /\ F \in [0..n -> V]
      /\ F[0] = <<>>
      /\ \A i \in 0..n : i # 0 => F[i] = G[<<i, F[i - 1]>>]
  BY <1>6 DEF Iterates
<1>8. ASSUME NEW i \in 0..n, i # 0 PROVE F[i] = F[i - 1] \o seqs[i]
  <2>1. i - 1 \in 0..n
    BY <1>8
  <2>2. F[i - 1] \in V
    BY <1>7, <2>1
  <2>3. QED
    BY <1>5, <1>7, <1>8, <2>2
<1>9. FlattensBy(F, seqs, n, S)
  BY <1>7, <1>8 DEF V, FlattensBy, Accumulates
<1>10. QED
  BY <1>9

LEMMA FlatToType ==
    ASSUME NEW S, NEW n \in Nat, NEW seqs \in [1..n -> Seq(S)]
    PROVE  FlatTo(seqs, n) \in Seq(S)
<1>1. PICK F : FlattensBy(F, seqs, n, S)
  BY FlattenSteps
<1>2. F[n] \in Seq(S)
  BY <1>1 DEF FlattensBy
<1>3. FlatTo(seqs, n) = F[n]
  BY <1>1, FlatToIs DEF FlattensBy
<1>4. QED
  BY <1>2, <1>3

LEMMA FlatToNext ==
    ASSUME NEW S, NEW m \in Nat, NEW seqs \in [1..m -> Seq(S)],
           NEW n \in 0..m, n # m
    PROVE  /\ FlatTo(seqs, n) \in Seq(S)
           /\ FlatTo(seqs, n + 1) \in Seq(S)
           /\ FlatTo(seqs, n + 1) = FlatTo(seqs, n) \o seqs[n + 1]
<1> DEFINE k == n + 1
           long == [i \in 1..k |-> seqs[i]]
           short == [i \in 1..n |-> seqs[i]]
<1>1. /\ k \in Nat /\ n \in Nat /\ k # 0 /\ k - 1 = n
      /\ \A i \in 1..k : i \in 1..m
      /\ \A i \in 1..n : i \in 1..k
  OBVIOUS
<1>2. long \in [1..k -> Seq(S)] /\ short \in [1..n -> Seq(S)]
  BY <1>1
<1>3. FlatTo(long, k) = FlatTo(seqs, k) /\ FlatTo(short, n) = FlatTo(seqs, n)
  <2>1. [i \in 1..k |-> long[i]] = [i \in 1..k |-> seqs[i]]
    OBVIOUS
  <2>2. [i \in 1..n |-> short[i]] = [i \in 1..n |-> seqs[i]]
    OBVIOUS
  <2> HIDE DEF long, short
  <2>3. QED
    BY <2>1, <2>2 DEF FlatTo
<1>4. long[k] = seqs[k] /\ \A i \in 1..n : long[i] = short[i]
  BY <1>1
<1> HIDE DEF k, long, short
<1>5. PICK F : FlattensBy(F, long, k, S)
  BY <1>1, <1>2, FlattenSteps
<1>6. FlatTo(long, k) = F[k]
  BY <1>1, <1>2, <1>5, FlatToIs DEF FlattensBy
<1>7. Accumulates(F, short, n)
  <2>1. F[0] = <<>>
    BY <1>5 DEF FlattensBy, Accumulates
  <2>2. ASSUME NEW i \in 0..n, i # 0 PROVE F[i] = F[i - 1] \o short[i]
    <3>1. i \in 0..k /\ i \in 1..n
      BY <1>1, <2>2
    <3>2. F[i] = F[i - 1] \o long[i]
      BY <1>5, <2>2, <3>1 DEF FlattensBy, Accumulates
    <3>3. QED
      BY <1>4, <3>1, <3>2
  <2>3. QED
    BY <2>1, <2>2 DEF Accumulates
<1>8. FlatTo(short, n) = F[n]
  BY <1>1, <1>2, <1>7, FlatToIs
<1>9. F[k] = F[n] \o long[k]
  <2>1. k \in 0..k
    BY <1>1
  <2>2. QED
    BY <1>1, <1>5, <2>1 DEF FlattensBy, Accumulates
<1>10. FlatTo(short, n) \in Seq(S) /\ FlatTo(long, k) \in Seq(S)
  BY <1>1, <1>2, FlatToType
<1>11. QED
  BY <1>3, <1>4, <1>6, <1>8, <1>9, <1>10 DEF k

LEMMA FlatToStep ==
    ASSUME NEW S, NEW m \in Nat, NEW seqs \in [1..m -> Seq(S)], NEW n \in 0..m, n # m
    PROVE  FlatTo(seqs, n + 1) = FlatTo(seqs, n) \o seqs[n + 1]
BY FlatToNext

(* All of them.                                                             *)
LEMMA FlatToAll ==
    ASSUME NEW S, NEW seqs \in Seq(Seq(S))
    PROVE  FlattenSeq(seqs) = FlatTo(seqs, Len(seqs))
<1>1. [i \in 1..Len(seqs) |-> seqs[i]] = seqs
  OBVIOUS
<1>2. QED
  BY <1>1 DEF FlatTo

-----------------------------------------------------------------------------
(* Sequences made of what each element gives.                              *)

(***************************************************************************)
(* What g makes of each element of s, one behind the other.                *)
(***************************************************************************)
Makes(g, X, S) == g \in [X -> Seq(S)]
Picks(g, s) == FlattenSeq([n \in DOMAIN s |-> g[s[n]]])

LEMMA PicksEmpty == ASSUME NEW g PROVE Picks(g, <<>>) = <<>>
<1>1. [n \in DOMAIN <<>> |-> g[<<>>[n]]] = <<>>
  OBVIOUS
<1>2. QED
  BY <1>1 DEF Picks, FlattenSeq

LEMMA PicksExtend ==
    ASSUME NEW X, NEW S, NEW g, Makes(g, X, S), NEW s \in Seq(X), NEW x \in X
    PROVE  /\ Picks(g, s) \in Seq(S) /\ Picks(g, Append(s, x)) \in Seq(S)
           /\ Picks(g, Append(s, x)) = Picks(g, s) \o g[x]
<1> DEFINE n == Len(s)
           m == n + 1
           seqs == [i \in 1..m |-> g[Append(s, x)[i]]]
<1>1. n \in Nat /\ m \in Nat /\ n \in 0..m /\ n # m /\ m = n + 1 /\ m \in 1..m
  OBVIOUS
<1>2. /\ Append(s, x) \in Seq(X) /\ Len(Append(s, x)) = m
      /\ Append(s, x)[m] = x /\ \A i \in 1..n : i \in 1..m /\ Append(s, x)[i] = s[i]
  OBVIOUS
<1>3. seqs \in [1..m -> Seq(S)]
  BY <1>2 DEF Makes
<1>4. /\ \A i \in 1..n : seqs[i] = g[s[i]]
      /\ seqs[m] = g[x]
  BY <1>1, <1>2
<1>5. Picks(g, Append(s, x)) = FlatTo(seqs, m)
  <2>1. DOMAIN Append(s, x) = 1..m
    BY <1>2
  <2>2. [i \in DOMAIN Append(s, x) |-> g[Append(s, x)[i]]] = [i \in 1..m |-> seqs[i]]
    BY <2>1
  <2> HIDE DEF seqs, m
  <2>3. QED
    BY <2>2 DEF Picks, FlatTo
<1>6. Picks(g, s) = FlatTo(seqs, n)
  <2>1. DOMAIN s = 1..n
    OBVIOUS
  <2> HIDE DEF seqs, n
  <2>2. [i \in DOMAIN s |-> g[s[i]]] = [i \in 1..n |-> seqs[i]]
    BY <1>4, <2>1
  <2>3. QED
    BY <2>2 DEF Picks, FlatTo
<1> HIDE DEF n, m, seqs
<1>7. /\ FlatTo(seqs, n) \in Seq(S) /\ FlatTo(seqs, n + 1) \in Seq(S)
      /\ FlatTo(seqs, n + 1) = FlatTo(seqs, n) \o seqs[n + 1]
  <2>1. m \in Nat /\ n \in 0..m /\ n # m
    BY <1>1
  <2>2. QED
    BY <1>3, <2>1, FlatToNext, Zenon
<1>8. QED
  BY <1>1, <1>4, <1>5, <1>6, <1>7

LEMMA PicksAppend ==
    ASSUME NEW X, NEW S, NEW g, Makes(g, X, S), NEW s \in Seq(X), NEW x \in X
    PROVE  Picks(g, Append(s, x)) = Picks(g, s) \o g[x]
BY PicksExtend

LEMMA PicksType ==
    ASSUME NEW X, NEW S, NEW g, Makes(g, X, S), NEW s \in Seq(X)
    PROVE  Picks(g, s) \in Seq(S)
<1>1. CASE s = <<>>
  <2>1. Picks(g, <<>>) = <<>>
    BY PicksEmpty
  <2>2. QED
    <3>1. <<>> \in Seq(S)
      OBVIOUS
    <3>2. QED
      BY <1>1, <2>1, <3>1, Zenon
<1>2. CASE s # <<>>
  <2>1. PICK t \in Seq(X), x \in X : s = Append(t, x)
    BY <1>2, SequenceEmptyOrAppend
  <2>2. Picks(g, Append(t, x)) \in Seq(S)
    BY PicksExtend
  <2>3. QED
    BY <2>1, <2>2
<1>3. QED
  BY <1>1, <1>2

LEMMA AppendConcat ==
    ASSUME NEW X, NEW s \in Seq(X), NEW t \in Seq(X), NEW x \in X
    PROVE  s \o Append(t, x) = Append(s \o t, x)
<1>1. <<x>> \in Seq(X) /\ s \o t \in Seq(X)
  OBVIOUS
<1>2. s \o Append(t, x) = s \o (t \o <<x>>)
  BY AppendIsConcat
<1>3. Append(s \o t, x) = (s \o t) \o <<x>>
  BY <1>1, AppendIsConcat
<1>4. QED
  BY <1>1, <1>2, <1>3, ConcatAssociative

LEMMA PicksConcat ==
    ASSUME NEW X, NEW S, NEW g, Makes(g, X, S), NEW s \in Seq(X), NEW t \in Seq(X)
    PROVE  Picks(g, s \o t) = Picks(g, s) \o Picks(g, t)
<1> DEFINE T == {u \in Seq(X) : Picks(g, s \o u) = Picks(g, s) \o Picks(g, u)}
<1>1. <<>> \in T
  <2>1. s \o <<>> = s /\ <<>> \in Seq(X)
    BY ConcatEmptySeq
  <2>2. Picks(g, s) \o <<>> = Picks(g, s)
    BY PicksType, ConcatEmptySeq
  <2>3. Picks(g, s \o <<>>) = Picks(g, s) \o Picks(g, <<>>)
    BY <2>1, <2>2, PicksEmpty
  <2>4. QED
    BY <2>1, <2>3
<1>2. ASSUME NEW u \in Seq(X), NEW x \in X, u \in T PROVE Append(u, x) \in T
  <2>1. s \o u \in Seq(X) /\ Append(u, x) \in Seq(X) /\ g[x] \in Seq(S)
    BY DEF Makes
  <2>2. s \o Append(u, x) = Append(s \o u, x)
    BY AppendConcat
  <2> HIDE DEF T
  <2>3. Picks(g, Append(s \o u, x)) = Picks(g, s \o u) \o g[x]
    <3>1. ASSUME NEW v \in Seq(X) PROVE Picks(g, Append(v, x)) = Picks(g, v) \o g[x]
      BY <3>1, PicksAppend
    <3>2. QED
      BY <2>1, <3>1, Zenon
  <2>4. Picks(g, Append(u, x)) = Picks(g, u) \o g[x]
    BY PicksAppend
  <2>5. Picks(g, s) \in Seq(S) /\ Picks(g, u) \in Seq(S)
    BY PicksType
  <2>6. (Picks(g, s) \o Picks(g, u)) \o g[x] = Picks(g, s) \o (Picks(g, u) \o g[x])
    <3> DEFINE a == Picks(g, s) b == Picks(g, u) c == g[x]
    <3>1. a \in Seq(S) /\ b \in Seq(S) /\ c \in Seq(S)
      BY <2>1, <2>5
    <3> HIDE DEF a, b, c
    <3>2. (a \o b) \o c = a \o (b \o c)
      BY <3>1, ConcatAssociative, SMTT(20)
    <3>3. QED
      BY <3>2, Zenon DEF a, b, c
  <2>7. Picks(g, s \o u) = Picks(g, s) \o Picks(g, u)
    BY <1>2, Zenon DEF T
  <2>8. Picks(g, s \o Append(u, x)) = Picks(g, s) \o Picks(g, Append(u, x))
    BY <2>2, <2>3, <2>4, <2>6, <2>7, Zenon
  <2>9. QED
    BY <2>1, <2>8, Zenon DEF T
<1>3. \A u \in Seq(X) : u \in T
  <2> HIDE DEF T
  <2>1. QED
    BY <1>1, <1>2, SeqInduction
<1>4. QED
  BY <1>3

LEMMA PicksOne ==
    ASSUME NEW X, NEW S, NEW g, Makes(g, X, S), NEW x \in X
    PROVE  Picks(g, <<x>>) = g[x]
<1>1. <<>> \in Seq(X) /\ Append(<<>>, x) = <<x>> /\ g[x] \in Seq(S)
  BY DEF Makes
<1>2. Picks(g, Append(<<>>, x)) = Picks(g, <<>>) \o g[x]
  <2>1. \A v \in Seq(X) : Picks(g, Append(v, x)) = Picks(g, v) \o g[x]
    BY PicksAppend
  <2>2. QED
    BY <1>1, <2>1, Zenon
<1>3. Picks(g, <<>>) = <<>>
  BY PicksEmpty
<1>4. <<>> \o g[x] = g[x]
  BY <1>1, ConcatEmptySeq
<1>5. QED
  BY <1>1, <1>2, <1>3, <1>4

LEMMA PicksTail ==
    ASSUME NEW X, NEW S, NEW g, Makes(g, X, S), NEW s \in Seq(X), s # <<>>
    PROVE  Picks(g, s) = g[Head(s)] \o Picks(g, Tail(s))
<1>1. Head(s) \in X /\ Tail(s) \in Seq(X)
  BY HeadTailProperties
<1>2. s = <<Head(s)>> \o Tail(s)
  <2>1. <<Head(s)>> \in Seq(X) /\ <<Head(s)>> \o Tail(s) \in Seq(X)
    BY <1>1
  <2>2. Len(<<Head(s)>> \o Tail(s)) = Len(s)
    BY <1>1, <2>1
  <2>3. ASSUME NEW i \in 1..Len(s) PROVE s[i] = (<<Head(s)>> \o Tail(s))[i]
    OBVIOUS
  <2>4. QED
    BY <2>1, <2>2, <2>3, SeqEqual
<1>3. <<Head(s)>> \in Seq(X)
  BY <1>1
<1>4. Picks(g, <<Head(s)>> \o Tail(s)) = Picks(g, <<Head(s)>>) \o Picks(g, Tail(s))
  <2>1. ASSUME NEW a \in Seq(X), NEW b \in Seq(X)
        PROVE  Picks(g, a \o b) = Picks(g, a) \o Picks(g, b)
    BY PicksConcat
  <2>2. QED
    BY <1>1, <1>3, <2>1, Zenon
<1>5. Picks(g, <<Head(s)>>) = g[Head(s)]
  BY <1>1, PicksOne
<1>6. QED
  BY <1>2, <1>4, <1>5

(* Nothing is picked from elements of which g makes nothing.                *)
LEMMA PicksNothing ==
    ASSUME NEW X, NEW S, NEW g, Makes(g, X, S), NEW s \in Seq(X),
           \A n \in 1..Len(s) : g[s[n]] = <<>>
    PROVE  Picks(g, s) = <<>>
<1> DEFINE Y == {x \in X : g[x] = <<>>}
           T == {u \in Seq(Y) : Picks(g, u) = <<>>}
<1>1. <<>> \in T
  BY PicksEmpty
<1>2. ASSUME NEW u \in Seq(Y), NEW x \in Y, u \in T PROVE Append(u, x) \in T
  <2>1. u \in Seq(X) /\ x \in X /\ g[x] = <<>> /\ Append(u, x) \in Seq(Y)
    BY SeqMonotonic
  <2>2. Picks(g, Append(u, x)) = Picks(g, u) \o g[x]
    <3>1. ASSUME NEW v \in Seq(X), NEW y \in X
          PROVE  Picks(g, Append(v, y)) = Picks(g, v) \o g[y]
      BY PicksAppend
    <3>2. QED
      BY <2>1, <3>1, Zenon
  <2>3. Picks(g, u) = <<>>
    BY <1>2
  <2>4. QED
    BY <2>1, <2>2, <2>3
<1>3. s \in Seq(Y)
  <2>1. \A n \in 1..Len(s) : s[n] \in Y
    OBVIOUS
  <2> HIDE DEF Y
  <2>2. QED
    BY <2>1
<1>4. \A u \in Seq(Y) : u \in T
  <2> HIDE DEF T, Y
  <2>1. QED
    BY <1>1, <1>2, SeqInduction
<1>5. QED
  BY <1>3, <1>4

-----------------------------------------------------------------------------
(* The columns of the header.                                              *)

(***************************************************************************)
(* Position: the first place that has one of the names, 0 if none has.     *)
(***************************************************************************)
FirstOf(p, header, names) ==
    /\ p \in 0..Len(header)
    /\ p = 0 => \A c \in 1..Len(header) : header[c] \notin names
    /\ p # 0 => /\ header[p] \in names
                /\ \A d \in 1..p - 1 : header[d] \notin names

(* Position finds the first column that has one of the names.              *)
LEMMA PositionIsFirst ==
    ASSUME NEW header \in Seq(STRING), NEW names
    PROVE  FirstOf(Position(header, names), header, names)
<1> DEFINE I == {i \in 1..Len(header) : header[i] \in names}
           p == Position(header, names)
<1>1. p = IF I # {} THEN Min(I) ELSE 0
  BY DEF Position, SelectInSeq
<1>2. CASE I = {}
  BY <1>1, <1>2 DEF FirstOf
<1>3. CASE I # {}
  <2>1. PICK n \in I : \A m \in I : n <= m
    <3>1. I \in SUBSET Nat
      OBVIOUS
    <3> HIDE DEF I
    <3>2. QED
      BY <1>3, <3>1, LeastNumber
  <2>2. Min(I) \in I /\ \A m \in I : Min(I) <= m
    <3> HIDE DEF I
    <3>1. QED
      BY <2>1 DEF Min
  <2>3. p \in I /\ \A m \in I : p <= m
    BY <1>1, <1>3, <2>2
  <2>4. p \in 1..Len(header) /\ header[p] \in names
    BY <2>3
  <2>5. \A d \in 1..p - 1 : header[d] \notin names
    <3>1. ASSUME NEW d \in 1..p - 1, header[d] \in names PROVE FALSE
      <4>1. d \in 1..Len(header) /\ ~(p <= d)
        BY <2>4
      <4>2. d \in I
        BY <3>1, <4>1
      <4>3. QED
        BY <2>3, <4>1, <4>2
    <3>2. QED
      BY <3>1
  <2>6. QED
    BY <2>4, <2>5 DEF FirstOf
<1>4. QED
  BY <1>2, <1>3

(* The columns of a name are none, or the one Position finds.              *)
LEMMA ColumnsAre ==
    ASSUME NEW names, file.header \in Seq(STRING)
    PROVE  Columns(names) = IF Position(file.header, names) = 0 THEN {}
                            ELSE {Position(file.header, names)}
<1> DEFINE h == file.header
           p == Position(h, names)
<1>1. FirstOf(p, h, names)
  BY PositionIsFirst
<1>2. Columns(names) = {c \in 1..Len(h) :
        h[c] \in names /\ \A d \in 1..c - 1 : h[d] \notin names}
  BY DEF Columns
<1> HIDE DEF p, h
<1>3. CASE p = 0
  BY <1>1, <1>2, <1>3 DEF FirstOf, p, h
<1>4. CASE p # 0
  <2>1. p \in 1..Len(h) /\ h[p] \in names /\ \A d \in 1..p - 1 : h[d] \notin names
    BY <1>1, <1>4 DEF FirstOf
  <2>2. p \in Columns(names)
    BY <1>2, <2>1
  <2>3. ASSUME NEW c \in Columns(names) PROVE c = p
    <3>1. c \in 1..Len(h) /\ h[c] \in names /\ \A d \in 1..c - 1 : h[d] \notin names
      BY <1>2
    <3>2. ~(c \in 1..p - 1) /\ ~(p \in 1..c - 1)
      BY <2>1, <3>1
    <3>3. QED
      BY <2>1, <3>1, <3>2
  <2>4. Columns(names) = {p}
    BY <2>2, <2>3
  <2>5. QED
    BY <1>4, <2>4 DEF p, h
<1>5. QED
  BY <1>3, <1>4

-----------------------------------------------------------------------------
(* Times.                                                                  *)

(* The powers of ten, by their equations.                                  *)
LEMMA TensStep ==
    /\ Tens[0] = 1
    /\ \A i \in 0..Digits : Tens[i] \in Nat
    /\ \A i \in 0..Digits : i # 0 => Tens[i] = 10 * Tens[i - 1]
<1> DEFINE Solves(F) == F = [i \in 0..Digits |-> IF i = 0 THEN 1 ELSE 10 * F[i - 1]]
           C == CHOOSE F : Solves(F)
           G == [p \in (0..Digits) \X Nat |-> 10 * p[2]]
<1>1. Digits \in Nat /\ G \in [(0..Digits) \X Nat -> Nat]
  BY DigitsAssumption
<1>2. \E F : Iterates(F, Digits, Nat, 1, G)
  <2> HIDE DEF G
  <2>1. QED
    BY <1>1, Recursion
<1>3. PICK F : Iterates(F, Digits, Nat, 1, G)
  BY <1>2
<1>4. Solves(F)
  <2>1. F \in [0..Digits -> Nat] /\ F[0] = 1
    BY <1>3 DEF Iterates
  <2>2. ASSUME NEW i \in 0..Digits, i # 0 PROVE F[i] = 10 * F[i - 1]
    <3>1. i - 1 \in 0..Digits
      BY <1>1, <2>2
    <3>2. F[i - 1] \in Nat
      BY <2>1, <3>1
    <3>3. F[i] = G[<<i, F[i - 1]>>]
      BY <1>3, <2>2 DEF Iterates
    <3>4. QED
      BY <3>2, <3>3
  <2>3. QED
    BY <2>1, <2>2
<1>5. Solves(C)
  <2> HIDE DEF Solves
  <2>1. QED
    BY <1>4
<1>6. Tens = C
  BY DEF Tens
<1> HIDE DEF C
<1>7. /\ C[0] = 1
      /\ \A i \in 0..Digits : i # 0 => C[i] = 10 * C[i - 1]
  BY <1>1, <1>5
<1> DEFINE T == {i \in 0..Digits : C[i] \in Nat}
<1>8. 0 \in T
  BY <1>1, <1>7
<1>9. ASSUME NEW i \in 0..Digits, i # Digits, i \in T PROVE i + 1 \in T
  <2>1. i + 1 \in 0..Digits /\ i + 1 # 0 /\ (i + 1) - 1 = i
    BY <1>1, <1>9
  <2>2. C[i + 1] = 10 * C[(i + 1) - 1]
    BY <1>7, <2>1, Zenon
  <2>3. QED
    BY <1>9, <2>1, <2>2
<1>10. \A i \in 0..Digits : i \in T
  <2> HIDE DEF T
  <2>1. QED
    BY <1>1, <1>8, <1>9, UpTo
<1>11. QED
  BY <1>6, <1>7, <1>10

(***************************************************************************)
(* What the code reads, digit by digit, and what the decimals mean.        *)
(***************************************************************************)
LEMMA NanosAreShare ==
    ASSUME NEW fraction \in Seq(0..9)
    PROVE  Nanos(fraction) \in Nat /\ Nanos(fraction) = Share(fraction)
<1> DEFINE D(i) == Decimal(fraction, i)
           Reads1(F) == F = [i \in 0..Digits |-> IF i = 0 THEN 0 ELSE F[i - 1] * 10 + D(i)]
           Adds(F) == F = [i \in 0..Digits |->
                             IF i = 0 THEN 0 ELSE F[i - 1] + D(i) * Tens[Digits - i]]
           H == CHOOSE F : Reads1(F)
           A == CHOOSE F : Adds(F)
<1>0. Digits \in Nat /\ \A i \in 0..Digits : i # 0 => D(i) \in Nat
  BY DigitsAssumption DEF Decimal
<1>1. Nanos(fraction) = H[Digits] /\ Share(fraction) = A[Digits]
  BY DEF Nanos, Share
<1> HIDE DEF D
<1> DEFINE g == [p \in (0..Digits) \X Nat |-> IF p[1] = 0 THEN 0 ELSE p[2] * 10 + D(p[1])]
           k == [p \in (0..Digits) \X Nat |->
                    IF p[1] = 0 THEN 0 ELSE p[2] + D(p[1]) * Tens[Digits - p[1]]]
<1>2. g \in [(0..Digits) \X Nat -> Nat]
  BY <1>0
<1>3. \A i \in 0..Digits : i # 0 => D(i) * Tens[Digits - i] \in Nat
  <2>1. ASSUME NEW i \in 0..Digits, i # 0 PROVE D(i) * Tens[Digits - i] \in Nat
    <3>1. Digits - i \in 0..Digits
      BY <1>0
    <3>2. Tens[Digits - i] \in Nat /\ D(i) \in Nat
      BY <1>0, <2>1, <3>1, TensStep
    <3>3. \A a \in Nat, b \in Nat : a * b \in Nat
      OBVIOUS
    <3>4. QED
      BY <3>2, <3>3, Zenon
  <2>2. QED
    BY <2>1
<1>4. k \in [(0..Digits) \X Nat -> Nat]
  <2>1. \A p \in (0..Digits) \X Nat : p[1] # 0 => D(p[1]) * Tens[Digits - p[1]] \in Nat
    BY <1>3
  <2>2. \A p \in (0..Digits) \X Nat : p[2] \in Nat
    OBVIOUS
  <2>3. QED
    BY <2>1, <2>2
<1>5. /\ H \in [0..Digits -> Nat] /\ H[0] = 0
      /\ \A i \in 0..Digits : i # 0 => H[i] = H[i - 1] * 10 + D(i)
  <2>1. PICK F : Iterates(F, Digits, Nat, 0, g)
    <3> HIDE DEF g
    <3>1. 0 \in Nat
      OBVIOUS
    <3>2. QED
      BY <1>0, <1>2, <3>1, Recursion
  <2>2. F \in [0..Digits -> Nat] /\ F[0] = 0
    BY <2>1 DEF Iterates
  <2>3. ASSUME NEW i \in 0..Digits, i # 0 PROVE F[i] = F[i - 1] * 10 + D(i)
    <3>1. i - 1 \in 0..Digits
      BY <1>0, <2>3
    <3>2. F[i - 1] \in Nat
      BY <2>2, <3>1
    <3>3. F[i] = g[<<i, F[i - 1]>>]
      BY <2>1, <2>3 DEF Iterates
    <3>4. QED
      BY <2>3, <3>2, <3>3
  <2>4. Reads1(F)
    BY <2>2, <2>3
  <2>5. Reads1(H)
    <3> HIDE DEF Reads1
    <3>1. QED
      BY <2>4
  <2> HIDE DEF H
  <2>6. /\ H[0] = 0
        /\ \A i \in 0..Digits : i # 0 => H[i] = H[i - 1] * 10 + D(i)
        /\ H = [i \in 0..Digits |-> H[i]]
    <3>1. 0 \in 0..Digits
      BY <1>0
    <3>2. H[0] = 0
      BY <2>5, <3>1
    <3>3. ASSUME NEW i \in 0..Digits, i # 0 PROVE H[i] = H[i - 1] * 10 + D(i)
      BY <2>5, <3>3
    <3>4. H = [i \in 0..Digits |-> H[i]]
      BY <2>5
    <3>5. QED
      BY <3>2, <3>3, <3>4, Zenon
  <2> DEFINE T == {i \in 0..Digits : H[i] \in Nat}
  <2>7. 0 \in T
    BY <1>0, <2>6
  <2>8. ASSUME NEW i \in 0..Digits, i # Digits, i \in T PROVE i + 1 \in T
    <3>1. i + 1 \in 0..Digits /\ i + 1 # 0 /\ (i + 1) - 1 = i
      BY <1>0, <2>8
    <3>2. H[i + 1] = H[(i + 1) - 1] * 10 + D(i + 1)
      BY <2>6, <3>1, Zenon
    <3>3. D(i + 1) \in Nat
      BY <1>0, <3>1
    <3>4. QED
      BY <2>8, <3>1, <3>2, <3>3
  <2>9. \A i \in 0..Digits : i \in T
    <3> HIDE DEF T
    <3>1. QED
      BY <1>0, <2>7, <2>8, UpTo
  <2>10. QED
    BY <2>6, <2>9
<1>6. /\ A[0] = 0
      /\ \A i \in 0..Digits : i # 0 => A[i] = A[i - 1] + D(i) * Tens[Digits - i]
  <2>1. PICK F : Iterates(F, Digits, Nat, 0, k)
    <3> HIDE DEF k
    <3>1. 0 \in Nat
      OBVIOUS
    <3>2. QED
      BY <1>0, <1>4, <3>1, Recursion
  <2>2. F \in [0..Digits -> Nat] /\ F[0] = 0
    BY <2>1 DEF Iterates
  <2>3. ASSUME NEW i \in 0..Digits, i # 0 PROVE F[i] = F[i - 1] + D(i) * Tens[Digits - i]
    <3>1. i - 1 \in 0..Digits
      BY <1>0, <2>3
    <3>2. F[i - 1] \in Nat
      BY <2>2, <3>1
    <3>3. F[i] = k[<<i, F[i - 1]>>]
      BY <2>1, <2>3 DEF Iterates
    <3>4. QED
      BY <2>3, <3>2, <3>3
  <2>4. Adds(F)
    BY <2>2, <2>3
  <2>5. Adds(A)
    <3> HIDE DEF Adds
    <3>1. QED
      BY <2>4
  <2> HIDE DEF A
  <2>6. QED
    BY <1>0, <2>5
<1> HIDE DEF H, A, g, k
<1> DEFINE U == {i \in 0..Digits : H[i] * Tens[Digits - i] = A[i]}
<1>7. 0 \in U
  <2>1. 0 \in 0..Digits /\ Digits - 0 \in 0..Digits
    BY <1>0
  <2>2. Tens[Digits - 0] \in Nat
    BY <2>1, TensStep
  <2>3. QED
    BY <1>5, <1>6, <2>1, <2>2
<1>8. ASSUME NEW i \in 0..Digits, i # Digits, i \in U PROVE i + 1 \in U
  <2>1. /\ i + 1 \in 0..Digits /\ i + 1 # 0 /\ (i + 1) - 1 = i
        /\ Digits - i \in 0..Digits /\ Digits - i # 0
        /\ Digits - (i + 1) \in 0..Digits /\ (Digits - i) - 1 = Digits - (i + 1)
    BY <1>0, <1>8
  <2>2. H[i + 1] = H[(i + 1) - 1] * 10 + D(i + 1)
    BY <1>5, <2>1, Zenon
  <2>3. A[i + 1] = A[(i + 1) - 1] + D(i + 1) * Tens[Digits - (i + 1)]
    BY <1>6, <2>1, Zenon
  <2>4. Tens[Digits - i] = 10 * Tens[(Digits - i) - 1]
    BY <2>1, TensStep, Zenon
  <2>5. H[i] \in Nat /\ D(i + 1) \in Nat /\ Tens[Digits - (i + 1)] \in Nat
    BY <1>0, <1>5, <2>1, TensStep
  <2>6. A[i] = H[i] * (10 * Tens[Digits - (i + 1)])
    BY <1>8, <2>1, <2>4
  <2>7. \A a \in Nat, b \in Nat, c \in Nat : (a * 10 + b) * c = a * (10 * c) + b * c
    OBVIOUS
  <2>8. (H[i] * 10 + D(i + 1)) * Tens[Digits - (i + 1)]
            = H[i] * (10 * Tens[Digits - (i + 1)]) + D(i + 1) * Tens[Digits - (i + 1)]
    BY <2>5, <2>7, Zenon
  <2>9. H[i + 1] * Tens[Digits - (i + 1)] = A[i + 1]
    <3>1. H[i + 1] = H[i] * 10 + D(i + 1)
      BY <2>1, <2>2, Zenon
    <3>2. A[i + 1] = A[i] + D(i + 1) * Tens[Digits - (i + 1)]
      BY <2>1, <2>3, Zenon
    <3>3. QED
      BY <2>6, <2>8, <3>1, <3>2, Zenon
  <2>10. QED
    BY <2>1, <2>9
<1>9. \A i \in 0..Digits : i \in U
  <2> HIDE DEF U
  <2>1. QED
    BY <1>0, <1>7, <1>8, UpTo
<1>10. Digits \in 0..Digits /\ Digits - Digits = 0
  BY <1>0
<1>11. H[Digits] * Tens[0] = A[Digits]
  BY <1>9, <1>10
<1>12. H[Digits] \in Nat
  BY <1>5, <1>10
<1>13. QED
  BY <1>1, <1>11, <1>12, TensStep

-----------------------------------------------------------------------------
(* Rows.                                                                   *)

(***************************************************************************)
(* The columns are mapped to those of the header.                          *)
(***************************************************************************)
Mapped ==
    /\ file \in Files /\ line \in CommandLines
    /\ config = Config(line) /\ ~Unreadable(line)
    /\ reader.columns = ColumnOf(file.header)
    /\ reader.time = TimeColumn(file.header)
    /\ \A i \in DOMAIN Inputs : reader.columns[i] # 0

(* What is read of a file has the types of its rows.                       *)
LEMMA FileTypes ==
    ASSUME file \in Files
    PROVE  /\ file.header \in Seq(STRING) /\ file.rows \in Seq(Seq(Cells))
           /\ NumRows \in Nat
           /\ \A r \in 1..NumRows : Row(r) \in Seq(Cells)
<1>1. file \in [header : Seq(STRING), rows : Seq(Seq(Cells))]
  BY FilesAssumption
<1>2. file.header \in Seq(STRING) /\ file.rows \in Seq(Seq(Cells))
  BY <1>1
<1>3. QED
  BY <1>2 DEF NumRows, Row

LEMMA MappedColumns ==
    ASSUME Mapped, NEW i \in DOMAIN Inputs
    PROVE  /\ reader.columns[i] \in 1..Len(file.header)
           /\ Columns({Inputs[i]}) = {reader.columns[i]}
<1>1. file.header \in Seq(STRING)
  BY FileTypes DEF Mapped
<1>2. reader.columns[i] = Position(file.header, {Inputs[i]}) /\ reader.columns[i] # 0
  BY DEF Mapped, ColumnOf
<1>3. FirstOf(Position(file.header, {Inputs[i]}), file.header, {Inputs[i]})
  BY <1>1, PositionIsFirst
<1>4. Columns({Inputs[i]}) = {Position(file.header, {Inputs[i]})}
  BY <1>1, <1>2, ColumnsAre
<1>5. Position(file.header, {Inputs[i]}) \in 0..Len(file.header)
  BY <1>3 DEF FirstOf
<1>6. Len(file.header) \in Nat
  BY <1>1
<1>7. Columns({Inputs[i]}) = {reader.columns[i]}
  BY <1>2, <1>4, Zenon
<1>8. reader.columns[i] \in 1..Len(file.header)
  <2>1. reader.columns[i] \in 0..Len(file.header)
    BY <1>2, <1>5, Zenon
  <2>2. QED
    BY <1>2, <1>6, <2>1
<1>9. QED
  BY <1>7, <1>8

(***************************************************************************)
(* The event of a row that can be parsed has the cells the file says.      *)
(***************************************************************************)
LEMMA RowRead ==
    ASSUME Mapped, NEW r \in 1..NumRows, ~Unparsable(Row(r)), NEW i \in DOMAIN Inputs
    PROVE  /\ ReadEvent(Row(r))[i] \in Cells
           /\ ReadEvent(Row(r))[i].k \in {"None", "Bool"}
           /\ CellsOf(r, i) = {ReadEvent(Row(r))[i]}
<1> DEFINE c == reader.columns[i]
<1>1. Row(r) \in Seq(Cells) /\ Len(Row(r)) = Len(file.header)
  BY FileTypes DEF Mapped, Unparsable
<1>2. c \in 1..Len(file.header) /\ Columns({Inputs[i]}) = {c}
  BY MappedColumns
<1>3. Row(r)[c] \in Cells /\ c \in DOMAIN Row(r)
  BY <1>1, <1>2
<1>4. Row(r)[c].k \in {"None", "Bool"}
  BY DEF Unparsable
<1>5. ReadEvent(Row(r))[i] = Row(r)[c]
  BY DEF ReadEvent
<1>6. CellsOf(r, i) = {Row(r)[d] : d \in {c} \cap DOMAIN Row(r)}
  BY <1>2 DEF CellsOf, Row
<1> HIDE DEF c
<1>7. {Row(r)[d] : d \in {c} \cap DOMAIN Row(r)} = {Row(r)[c]}
  BY <1>3
<1>8. QED
  BY <1>3, <1>4, <1>5, <1>6, <1>7

(* A row that can be parsed gives an event.                                *)
LEMMA EventRead ==
    ASSUME Mapped, NEW r \in 1..NumRows, ~Unparsable(Row(r))
    PROVE  ReadEvent(Row(r)) \in [DOMAIN Inputs -> Cells]
<1>1. \A i \in DOMAIN Inputs : ReadEvent(Row(r))[i] \in Cells
  BY RowRead
<1>2. QED
  BY <1>1 DEF ReadEvent

(* A row that cannot be parsed makes the file one at fault.                *)
LEMMA UnparsableIsAtFault ==
    ASSUME Mapped, NEW r \in 1..NumRows, Unparsable(Row(r))
    PROVE  AtFault
<1>1. file.rows \in Seq(Seq(Cells)) /\ Row(r) \in Seq(Cells) /\ r \in DOMAIN file.rows
  BY FileTypes DEF Mapped, NumRows
<1>2. CASE Len(Row(r)) # Len(file.header)
  BY <1>1, <1>2 DEF AtFault, Row
<1>3. CASE Len(Row(r)) = Len(file.header)
  <2>1. PICK i \in DOMAIN Inputs : Row(r)[reader.columns[i]].k \notin {"None", "Bool"}
    BY <1>3 DEF Unparsable
  <2> DEFINE c == reader.columns[i]
  <2>2. c \in 1..Len(file.header) /\ c \in Columns({Inputs[i]})
    BY MappedColumns
  <2>3. c \in DOMAIN Row(r)
    BY <1>1, <1>3, <2>2
  <2>4. Row(r)[c] \in CellsOf(r, i)
    BY <2>2, <2>3 DEF CellsOf, Row
  <2>5. QED
    BY <1>1, <2>1, <2>4 DEF AtFault
<1>4. QED
  BY <1>2, <1>3

(* So does an input without a column.                                      *)
LEMMA MissingColumnIsAtFault ==
    ASSUME file \in Files, NEW i \in DOMAIN Inputs, ColumnOf(file.header)[i] = 0
    PROVE  AtFault
<1>1. file.header \in Seq(STRING)
  BY FileTypes
<1>2. FirstOf(0, file.header, {Inputs[i]})
  BY <1>1, PositionIsFirst DEF ColumnOf
<1>3. \A c \in DOMAIN file.header : file.header[c] # Inputs[i]
  BY <1>1, <1>2 DEF FirstOf
<1>4. QED
  BY <1>3 DEF AtFault

-----------------------------------------------------------------------------
(* The time of a row.                                                      *)

(* What the arguments say, once they are readable.                         *)
LEMMA LineTypes ==
    ASSUME line \in CommandLines, ~Unreadable(line), config = Config(line)
    PROVE  /\ config.timer \in {"RealTime", "FromFile", "Delayed"}
           /\ config.timer = "Delayed" => config.delay[1] \in Nat
           /\ config.mode = IF line.online THEN "Online" ELSE "Offline"
           /\ config.time \in {"Hide", "Relative", "Absolute"}
           /\ config.verbosity \in Kinds
           /\ config.column # <<>> => config.column[1] \in Nat /\ config.column[1] # 0
           /\ config # <<>>
<1>1. /\ line.csvIn \in BOOLEAN /\ line.online \in BOOLEAN
      /\ line.column \in Seq(Nat \cup {Text}) /\ Len(line.column) <= 1
      /\ line.delay \in Seq(Nat \cup {Text}) /\ Len(line.delay) <= 1
      /\ line.verbosity \in DOMAIN VerbosityOf
      /\ line.time \in {"Hide", "Relative", "Absolute"}
  BY LinesAssumption
<1>2. /\ config.timer = (IF ~line.csvIn THEN "RealTime"
                         ELSE IF line.delay = <<>> THEN "FromFile" ELSE "Delayed")
      /\ config.delay = line.delay /\ config.column = line.column
      /\ config.verbosity = VerbosityOf[line.verbosity]
      /\ config.mode = (IF line.online THEN "Online" ELSE "Offline")
      /\ config.time = line.time
  BY DEF Config
<1>3. ASSUME NEW s \in Seq(Nat \cup {Text}), Len(s) <= 1, s # <<>>
      PROVE  s = <<s[1]>> /\ s[1] \in Nat \cup {Text}
  <2>1. Len(s) = 1 /\ s[1] \in Nat \cup {Text}
    <3>1. Len(s) \in Nat \ {0}
      BY <1>3, EmptySeq, Zenon
    <3>2. Len(s) = 1 /\ 1 \in 1..Len(s)
      <4>1. Len(s) <= 1
        BY <1>3, Zenon
      <4>2. QED
        BY <3>1, <4>1
    <3>3. s[1] \in Nat \cup {Text}
      BY <3>2, ElementOfSeq, Zenon
    <3>4. QED
      BY <3>2, <3>3
  <2>2. <<s[1]>> \in Seq(Nat \cup {Text}) /\ Len(<<s[1]>>) = Len(s)
    BY <2>1
  <2>3. ASSUME NEW n \in 1..Len(s) PROVE s[n] = <<s[1]>>[n]
    BY <2>1
  <2>4. s = <<s[1]>>
    BY <2>2, <2>3, SeqEqual
  <2>5. QED
    BY <2>1, <2>4
<1>4. line.delay # <<>> => line.delay[1] \in Nat
  <2>1. line.delay # <<Text>>
    BY DEF Unreadable
  <2>2. QED
    BY <1>1, <1>3, <2>1
<1>5. line.column # <<>> => line.column[1] \in Nat /\ line.column[1] # 0
  <2>1. line.column # <<Text>> /\ line.column # <<0>>
    BY DEF Unreadable
  <2>2. QED
    BY <1>1, <1>3, <2>1
<1>6. VerbosityOf[line.verbosity] \in Kinds
  BY <1>1 DEF VerbosityOf, Kinds
<1>7. config # <<>>
  BY DEF Config
<1>8. QED
  BY <1>1, <1>2, <1>4, <1>5, <1>6, <1>7

(* The column the reader takes the times from is the one that is meant.    *)
LEMMA TimeCellsAre ==
    ASSUME Mapped
    PROVE  TimeCells = IF reader.time = 0 THEN {} ELSE {reader.time}
<1>1. file.header \in Seq(STRING) /\ reader.time = TimeColumn(file.header)
  BY FileTypes DEF Mapped
<1>2. config.column # <<>> => config.column[1] # 0
  BY LineTypes DEF Mapped
<1>3. CASE config.timer # "RealTime" /\ config.column # <<>>
  BY <1>1, <1>2, <1>3 DEF TimeCells, TimeColumn
<1>4. CASE ~(config.timer # "RealTime" /\ config.column # <<>>)
  BY <1>1, <1>4, ColumnsAre DEF TimeCells, TimeColumn
<1>5. QED
  BY <1>3, <1>4

TimeRead(r) ==
    LET read == ReadTime(Row(r))
    IN  /\ read.k \in {"none", "time", "exit", "panic"}
        /\ read.k = "none" => TimeCells = {} /\ ~HasTime(r)
        /\ read.k = "time" => HasTime(r) /\ MeantTime(r) \in Nat /\ read.t = MeantTime(r)
        /\ read.k \in {"exit", "panic"} => ~HasTime(r) /\ TimeCells # {}

(* read_time gives the time that is meant, and fails only if there is none.*)
LEMMA ReadTimeIs ==
    ASSUME Mapped, NEW r \in 1..NumRows
    PROVE  TimeRead(r)
<1> DEFINE c == reader.time
           row == Row(r)
           cell == row[c]
<1>1. row \in Seq(Cells) /\ row = file.rows[r]
  BY FileTypes DEF Mapped, Row
<1>2. TimeCells = IF c = 0 THEN {} ELSE {c}
  BY TimeCellsAre
<1>3. CASE c = 0
  BY <1>2, <1>3 DEF TimeRead, ReadTime, NoTime, HasTime
<1>4. CASE c # 0
  <2>1. TimeCells = {c} /\ (CHOOSE x \in TimeCells : TRUE) = c
    BY <1>2, <1>4
  <2>2. HasTime(r) <=> c \in DOMAIN row /\ cell.k = "Time" /\ (~cell.point \/ ~cell.more)
    BY <1>1, <2>1 DEF HasTime
  <2>3. MeantTime(r) = IF ~cell.point THEN cell.whole
                       ELSE cell.whole * Second + Share(cell.fraction)
    BY <1>1, <2>1 DEF MeantTime
  <2>4. CASE c \notin DOMAIN row
    BY <1>4, <2>1, <2>2, <2>4 DEF TimeRead, ReadTime, NoTime
  <2>5. CASE c \in DOMAIN row /\ cell.k # "Time"
    BY <1>4, <2>1, <2>2, <2>5 DEF TimeRead, ReadTime, NoTime
  <2>6. CASE c \in DOMAIN row /\ cell.k = "Time"
    <3>1. cell \in Cells
      BY <1>1, <2>6
    <3>2. /\ cell.whole \in Nat /\ cell.point \in BOOLEAN /\ cell.more \in BOOLEAN
          /\ cell.fraction \in Seq(0..9)
      BY <2>6, <3>1 DEF Cells
    <3>3. Nanos(cell.fraction) = Share(cell.fraction) /\ Share(cell.fraction) \in Nat
      BY <3>2, NanosAreShare
    <3>4. Second \in Nat
      BY TensStep, DigitsAssumption DEF Second
    <3>5. cell.whole * Second \in Nat
      BY <3>2, <3>4
    <3> DEFINE w == cell.whole * Second
    <3>6. CASE ~cell.point
      BY <1>4, <2>1, <2>2, <2>3, <2>6, <3>2, <3>6 DEF TimeRead, ReadTime, NoTime
    <3>7. CASE cell.point /\ cell.more
      BY <1>4, <2>1, <2>2, <2>3, <2>6, <3>2, <3>7 DEF TimeRead, ReadTime, NoTime
    <3>8. CASE cell.point /\ ~cell.more
      <4>1. ReadTime(row) = [k |-> "time", t |-> w + Nanos(cell.fraction)]
        BY <1>4, <2>6, <3>2, <3>8 DEF ReadTime, NoTime
      <4>2. MeantTime(r) = w + Share(cell.fraction) /\ HasTime(r)
        BY <2>2, <2>3, <2>6, <3>8
      <4>3. MeantTime(r) \in Nat
        <5> HIDE DEF w
        <5>1. QED
          BY <3>3, <3>5, <4>2 DEF w
      <4>4. w + Nanos(cell.fraction) = MeantTime(r)
        BY <3>3, <4>2, Zenon
      <4>5. ReadTime(row).k = "time" /\ ReadTime(row).t = MeantTime(r)
        <5> HIDE DEF w
        <5>1. QED
          BY <4>1, <4>4
      <4>6. QED
        BY <4>2, <4>3, <4>5 DEF TimeRead
    <3>9. QED
      BY <3>2, <3>6, <3>7, <3>8
  <2>7. QED
    BY <2>4, <2>5, <2>6
<1>5. QED
  BY <1>3, <1>4

-----------------------------------------------------------------------------
(* The triggers the file asks for.                                         *)

FiringSet == [row : Nat, trigger : DOMAIN Inputs]
FiringAt(r) ==
    [i \in 1..Len(Inputs) |->
        IF \E cell \in CellsOf(r, i) : Fires(cell) THEN <<[row |-> r, trigger |-> i]>>
        ELSE <<>>]
FiringRows == [r \in 1..NumRows |-> FiringOf(r)]

LEMMA InputsDomain == Len(Inputs) \in Nat /\ DOMAIN Inputs = 1..Len(Inputs)
BY InputsAssumption

(* What a row asks for, as a sequence flattened up to the last input.      *)
LEMMA FiringOfIs ==
    ASSUME NEW r \in Nat
    PROVE  /\ FiringAt(r) \in [1..Len(Inputs) -> Seq(FiringSet)]
           /\ FiringOf(r) = FlatTo(FiringAt(r), Len(Inputs))
           /\ FiringOf(r) \in Seq(FiringSet)
<1>1. FiringAt(r) \in [1..Len(Inputs) -> Seq(FiringSet)]
  <2>1. ASSUME NEW i \in 1..Len(Inputs) PROVE FiringAt(r)[i] \in Seq(FiringSet)
    <3>1. [row |-> r, trigger |-> i] \in FiringSet
      BY InputsDomain, Zenon DEF FiringSet
    <3> DEFINE f == [row |-> r, trigger |-> i]
    <3>2. FiringAt(r)[i] \in {<<>>, <<f>>}
      BY DEF FiringAt
    <3> HIDE DEF f
    <3>3. <<f>> \in Seq(FiringSet) /\ <<>> \in Seq(FiringSet)
      BY <3>1 DEF f
    <3>4. QED
      BY <3>2, <3>3
  <2>2. FiringAt(r) = [i \in 1..Len(Inputs) |-> FiringAt(r)[i]]
    BY DEF FiringAt
  <2>3. QED
    BY <2>1, <2>2
<1>2. FiringOf(r) = FlatTo(FiringAt(r), Len(Inputs))
  <2>1. [i \in 1..Len(Inputs) |-> FiringAt(r)[i]] = FiringAt(r)
    BY DEF FiringAt
  <2>2. FiringOf(r) = FlattenSeq(FiringAt(r))
    BY InputsDomain, Zenon DEF FiringOf, FiringAt
  <2>3. QED
    BY <2>1, <2>2, Zenon DEF FlatTo
<1>3. FlatTo(FiringAt(r), Len(Inputs)) \in Seq(FiringSet)
  BY <1>1, InputsDomain, FlatToType
<1>4. QED
  BY <1>1, <1>2, <1>3

LEMMA FiringRowsType ==
    ASSUME NumRows \in Nat
    PROVE  FiringRows \in [1..NumRows -> Seq(FiringSet)]
<1>1. \A r \in 1..NumRows : FiringOf(r) \in Seq(FiringSet)
  BY FiringOfIs
<1>2. QED
  BY <1>1 DEF FiringRows

LEMMA FiringUpToIs ==
    ASSUME NumRows \in Nat, NEW n \in 0..NumRows
    PROVE  FiringUpTo(n) = FlatTo(FiringRows, n)
<1>1. \A r \in 1..n : r \in 1..NumRows
  OBVIOUS
<1>2. [r \in 1..n |-> FiringOf(r)] = [r \in 1..n |-> FiringRows[r]]
  BY <1>1 DEF FiringRows
<1>3. QED
  BY <1>2, Zenon DEF FiringUpTo, FlatTo

LEMMA FiringUpToType ==
    ASSUME NumRows \in Nat, NEW n \in 0..NumRows
    PROVE  FiringUpTo(n) \in Seq(FiringSet)
<1>1. [r \in 1..n |-> FiringRows[r]] \in [1..n -> Seq(FiringSet)]
  BY FiringRowsType
<1>2. n \in Nat
  OBVIOUS
<1> DEFINE s == [r \in 1..n |-> FiringRows[r]]
<1>3. FlatTo(s, n) \in Seq(FiringSet)
  <2> HIDE DEF s
  <2>1. QED
    BY <1>1, <1>2, FlatToType DEF s
<1>4. [r \in 1..n |-> s[r]] = [r \in 1..n |-> FiringRows[r]]
  OBVIOUS
<1>5. FlatTo(s, n) = FlatTo(FiringRows, n)
  BY <1>4, Zenon DEF FlatTo
<1>6. QED
  BY <1>3, <1>5, FiringUpToIs

LEMMA FiringUpToZero == FiringUpTo(0) = <<>>
<1>1. [r \in 1..0 |-> FiringOf(r)] = <<>>
  OBVIOUS
<1>2. QED
  BY <1>1 DEF FiringUpTo, FlattenSeq

(* What one more row asks for is behind what the rows before it ask for.   *)
LEMMA FiringUpToNext ==
    ASSUME NumRows \in Nat, NEW n \in 0..NumRows, n # NumRows
    PROVE  FiringUpTo(n + 1) = FiringUpTo(n) \o FiringOf(n + 1)
<1>1. n + 1 \in 0..NumRows /\ n + 1 \in 1..NumRows
  OBVIOUS
<1>2. FlatTo(FiringRows, n + 1) = FlatTo(FiringRows, n) \o FiringRows[n + 1]
  <2>1. FiringRows \in [1..NumRows -> Seq(FiringSet)]
    BY FiringRowsType
  <2>2. QED
    BY <2>1, FlatToNext, Zenon
<1>3. FiringRows[n + 1] = FiringOf(n + 1)
  BY <1>1 DEF FiringRows
<1>4. FiringUpTo(n + 1) = FlatTo(FiringRows, n + 1)
  BY <1>1, FiringUpToIs
<1>5. FiringUpTo(n) = FlatTo(FiringRows, n)
  BY FiringUpToIs
<1>6. QED
  BY <1>2, <1>3, <1>4, <1>5, Zenon

LEMMA FiringIsAll ==
    ASSUME file \in Files
    PROVE  Firing = FiringUpTo(NumRows)
<1>1. DOMAIN file.rows = 1..NumRows
  BY FileTypes DEF NumRows
<1>2. QED
  BY <1>1, Zenon DEF Firing, FiringUpTo

(***************************************************************************)
(* What the first n rows ask for is where what all of them ask for starts. *)
(***************************************************************************)
Starts(s, t) ==
    /\ Len(s) <= Len(t)
    /\ \A n \in 1..Len(s) : s[n] = t[n]

LEMMA StartsConcat ==
    ASSUME NEW S, NEW s \in Seq(S), NEW t \in Seq(S), NEW u \in Seq(S), Starts(s, t)
    PROVE  Starts(s, t \o u)
<1>1. Len(t \o u) = Len(t) + Len(u) /\ \A n \in 1..Len(t) : (t \o u)[n] = t[n]
  BY ConcatProperties
<1>2. Len(s) \in Nat /\ Len(t) \in Nat /\ Len(u) \in Nat
  OBVIOUS
<1> DEFINE v == t \o u
<1> HIDE DEF v
<1>3. QED
  BY <1>1, <1>2 DEF Starts, v

(* What n rows ask for starts what all of them ask for.                    *)
LEMMA FiringPrefix ==
    ASSUME NumRows \in Nat, NEW n \in 0..NumRows
    PROVE  Starts(FiringUpTo(n), FiringUpTo(NumRows))
<1> DEFINE T == {m \in 0..NumRows : n <= m => Starts(FiringUpTo(n), FiringUpTo(m))}
<1>1. Starts(FiringUpTo(n), FiringUpTo(n))
  <2>1. FiringUpTo(n) \in Seq(FiringSet)
    BY FiringUpToType
  <2>2. QED
    BY <2>1 DEF Starts
<1>2. 0 \in T
  <2>1. n <= 0 => n = 0
    OBVIOUS
  <2>2. QED
    BY <1>1, <2>1
<1>3. ASSUME NEW m \in 0..NumRows, m # NumRows, m \in T PROVE m + 1 \in T
  <2>1. m + 1 \in 0..NumRows /\ m + 1 \in Nat
    BY <1>3
  <2>2. CASE n <= m
    <3>1. Starts(FiringUpTo(n), FiringUpTo(m))
      BY <1>3, <2>2
    <3>2. FiringUpTo(m + 1) = FiringUpTo(m) \o FiringOf(m + 1)
      BY <1>3, FiringUpToNext
    <3>3. /\ FiringUpTo(n) \in Seq(FiringSet) /\ FiringUpTo(m) \in Seq(FiringSet)
          /\ FiringOf(m + 1) \in Seq(FiringSet)
      BY <2>1, FiringUpToType, FiringOfIs
    <3>4. Starts(FiringUpTo(n), FiringUpTo(m) \o FiringOf(m + 1))
      BY <3>1, <3>3, StartsConcat
    <3>5. QED
      BY <2>1, <3>2, <3>4
  <2>3. CASE n = m + 1
    BY <1>1, <2>1, <2>3
  <2>4. CASE ~(n <= m + 1)
    BY <2>1, <2>4
  <2>5. QED
    BY <1>3, <2>2, <2>3, <2>4
<1>4. \A m \in 0..NumRows : m \in T
  <2> HIDE DEF T
  <2>1. QED
    BY <1>2, <1>3, UpTo
<1>5. NumRows \in 0..NumRows /\ n <= NumRows
  OBVIOUS
<1>6. QED
  BY <1>4, <1>5

-----------------------------------------------------------------------------
(* The lines the pending steps will print, and those that are triggers.    *)

LinesOf(step) == IF step.do = "trigger" THEN <<LineOf(step)>> ELSE <<>>
StepPick == [step \in StepSet |-> LinesOf(step)]
AllLines == {LineOf(step) : step \in StepSet}

TriggersOf(lines) ==
    FlattenSeq([n \in DOMAIN lines |->
        IF lines[n].k = "trigger" THEN <<lines[n]>> ELSE <<>>])
LinePick == [l \in LineSet |-> IF l.k = "trigger" THEN <<l>> ELSE <<>>]

(* The line a step will print; a line itself, if it is a trigger.          *)
LEMMA StepPickMakes == Makes(StepPick, StepSet, AllLines)
<1>1. ASSUME NEW step \in StepSet PROVE LinesOf(step) \in Seq(AllLines)
  <2>1. LineOf(step) \in AllLines
    BY DEF AllLines
  <2> DEFINE l == LineOf(step)
  <2> HIDE DEF l
  <2>2. <<l>> \in Seq(AllLines) /\ <<>> \in Seq(AllLines)
    BY <2>1 DEF l
  <2>3. LinesOf(step) \in {<<l>>, <<>>}
    BY DEF LinesOf, l
  <2>4. QED
    BY <2>2, <2>3
<1>2. QED
  BY <1>1 DEF Makes, StepPick

LEMMA LinePickMakes == Makes(LinePick, LineSet, LineSet)
<1>1. \A l \in LineSet : (IF l.k = "trigger" THEN <<l>> ELSE <<>>) \in Seq(LineSet)
  <2> HIDE DEF LineSet
  <2>1. QED
    OBVIOUS
<1>2. QED
  BY <1>1 DEF Makes, LinePick

LEMMA PendingIs ==
    ASSUME NEW s \in Seq(StepSet)
    PROVE  PendingLines(s) = Picks(StepPick, s)
<1>1. ASSUME NEW n \in DOMAIN s
      PROVE  (IF s[n].do = "trigger" THEN <<LineOf(s[n])>> ELSE <<>>) = StepPick[s[n]]
  <2>1. s[n] \in StepSet
    OBVIOUS
  <2>2. QED
    BY <2>1, Zenon DEF StepPick, LinesOf
<1>2. [n \in DOMAIN s |-> IF s[n].do = "trigger" THEN <<LineOf(s[n])>> ELSE <<>>]
        = [n \in DOMAIN s |-> StepPick[s[n]]]
  BY <1>1
<1>3. QED
  BY <1>2, Zenon DEF PendingLines, Picks

LEMMA TriggersIs ==
    ASSUME NEW s \in Seq(LineSet)
    PROVE  TriggersOf(s) = Picks(LinePick, s)
<1>1. ASSUME NEW n \in DOMAIN s
      PROVE  (IF s[n].k = "trigger" THEN <<s[n]>> ELSE <<>>) = LinePick[s[n]]
  <2>1. s[n] \in LineSet
    OBVIOUS
  <2>2. QED
    BY <2>1, Zenon DEF LinePick
<1>2. [n \in DOMAIN s |-> IF s[n].k = "trigger" THEN <<s[n]>> ELSE <<>>]
        = [n \in DOMAIN s |-> LinePick[s[n]]]
  BY <1>1
<1>3. QED
  BY <1>2, Zenon DEF TriggersOf, Picks

LEMMA PendingEmpty == PendingLines(<<>>) = <<>>
<1>1. <<>> \in Seq(StepSet)
  OBVIOUS
<1>2. QED
  BY <1>1, PendingIs, PicksEmpty, Zenon

LEMMA PendingType ==
    ASSUME NEW s \in Seq(StepSet)
    PROVE  PendingLines(s) \in Seq(AllLines)
<1>1. Picks(StepPick, s) \in Seq(AllLines)
  BY StepPickMakes, PicksType
<1>2. QED
  BY <1>1, PendingIs

LEMMA PendingTail ==
    ASSUME NEW s \in Seq(StepSet), s # <<>>
    PROVE  PendingLines(s) = LinesOf(Head(s)) \o PendingLines(Tail(s))
<1>1. Head(s) \in StepSet /\ Tail(s) \in Seq(StepSet)
  BY HeadTailProperties
<1>2. Picks(StepPick, s) = StepPick[Head(s)] \o Picks(StepPick, Tail(s))
  BY StepPickMakes, PicksTail, Zenon
<1>3. StepPick[Head(s)] = LinesOf(Head(s))
  BY <1>1, Zenon DEF StepPick
<1>4. PendingLines(s) = Picks(StepPick, s) /\ PendingLines(Tail(s)) = Picks(StepPick, Tail(s))
  BY <1>1, PendingIs, Zenon
<1>5. QED
  BY <1>2, <1>3, <1>4, Zenon

LEMMA PendingConcat ==
    ASSUME NEW s \in Seq(StepSet), NEW t \in Seq(StepSet)
    PROVE  PendingLines(s \o t) = PendingLines(s) \o PendingLines(t)
<1>1. s \o t \in Seq(StepSet)
  OBVIOUS
<1>2. Picks(StepPick, s \o t) = Picks(StepPick, s) \o Picks(StepPick, t)
  BY StepPickMakes, PicksConcat
<1>3. /\ PendingLines(s) = Picks(StepPick, s) /\ PendingLines(t) = Picks(StepPick, t)
      /\ PendingLines(s \o t) = Picks(StepPick, s \o t)
  BY <1>1, PendingIs, Zenon
<1>4. QED
  BY <1>2, <1>3, Zenon

LEMMA PendingNothing ==
    ASSUME NEW s \in Seq(StepSet), \A n \in 1..Len(s) : s[n].do # "trigger"
    PROVE  PendingLines(s) = <<>>
<1>1. ASSUME NEW n \in 1..Len(s) PROVE StepPick[s[n]] = <<>>
  <2>1. s[n] \in StepSet
    OBVIOUS
  <2>2. QED
    BY <2>1, Zenon DEF StepPick, LinesOf
<1>2. Picks(StepPick, s) = <<>>
  BY <1>1, StepPickMakes, PicksNothing
<1>3. QED
  BY <1>2, PendingIs

LEMMA PendingOne ==
    ASSUME NEW step \in StepSet
    PROVE  PendingLines(<<step>>) = LinesOf(step)
<1>1. <<step>> \in Seq(StepSet)
  OBVIOUS
<1>2. Picks(StepPick, <<step>>) = StepPick[step]
  BY StepPickMakes, PicksOne, Zenon
<1>3. QED
  BY <1>1, <1>2, PendingIs, Zenon DEF StepPick

LEMMA TriggersAppend ==
    ASSUME NEW s \in Seq(LineSet), NEW l \in LineSet
    PROVE  /\ TriggersOf(s) \in Seq(LineSet)
           /\ TriggersOf(Append(s, l)) =
                  TriggersOf(s) \o (IF l.k = "trigger" THEN <<l>> ELSE <<>>)
<1>1. Append(s, l) \in Seq(LineSet)
  OBVIOUS
<1>2. Picks(LinePick, Append(s, l)) = Picks(LinePick, s) \o LinePick[l]
  BY LinePickMakes, PicksAppend, Zenon
<1>3. Picks(LinePick, s) \in Seq(LineSet)
  BY LinePickMakes, PicksType
<1>4. /\ TriggersOf(s) = Picks(LinePick, s)
      /\ TriggersOf(Append(s, l)) = Picks(LinePick, Append(s, l))
  BY <1>1, TriggersIs, Zenon
<1>5. LinePick[l] = IF l.k = "trigger" THEN <<l>> ELSE <<>>
  BY Zenon DEF LinePick
<1>6. QED
  BY <1>2, <1>3, <1>4, <1>5, Zenon

LEMMA TriggersType ==
    ASSUME NEW s \in Seq(LineSet)
    PROVE  TriggersOf(s) \in Seq(LineSet)
<1>1. Picks(LinePick, s) \in Seq(LineSet)
  BY LinePickMakes, PicksType
<1>2. QED
  BY <1>1, TriggersIs

LEMMA TriggersNothing ==
    ASSUME NEW s \in Seq(LineSet), \A n \in 1..Len(s) : s[n].k # "trigger"
    PROVE  TriggersOf(s) = <<>>
<1>1. ASSUME NEW n \in 1..Len(s) PROVE LinePick[s[n]] = <<>>
  <2>1. s[n] \in LineSet
    OBVIOUS
  <2>2. QED
    BY <2>1, Zenon DEF LinePick
<1>2. Picks(LinePick, s) = <<>>
  BY <1>1, LinePickMakes, PicksNothing
<1>3. QED
  BY <1>2, TriggersIs

-----------------------------------------------------------------------------
(* An evaluation prints what the row asks for.                             *)

LEMMA MatchesConcat ==
    ASSUME NEW A, NEW B, NEW a \in Seq(A), NEW b \in Seq(B), NEW c \in Seq(A),
           NEW d \in Seq(B), Matches(a, b), Matches(c, d)
    PROVE  Matches(a \o c, b \o d)
<1>1. /\ Len(a) = Len(b) /\ \A n \in 1..Len(a) : Reports(a[n], b[n])
      /\ Len(c) = Len(d) /\ \A n \in 1..Len(c) : Reports(c[n], d[n])
  BY DEF Matches
<1>2. Len(a) \in Nat /\ Len(c) \in Nat
  OBVIOUS
<1>3. /\ Len(a \o c) = Len(a) + Len(c)
      /\ \A n \in 1..Len(a) : (a \o c)[n] = a[n]
      /\ \A n \in Len(a) + 1..Len(a) + Len(c) : (a \o c)[n] = c[n - Len(a)]
  BY ConcatProperties
<1>4. /\ Len(b \o d) = Len(b) + Len(d)
      /\ \A n \in 1..Len(b) : (b \o d)[n] = b[n]
      /\ \A n \in Len(b) + 1..Len(b) + Len(d) : (b \o d)[n] = d[n - Len(b)]
  BY ConcatProperties
<1> DEFINE ac == a \o c
           bd == b \o d
<1> HIDE DEF ac, bd
<1>5. ASSUME NEW n \in 1..Len(ac) PROVE Reports(ac[n], bd[n])
  <2>1. CASE n <= Len(a)
    <3>1. n \in 1..Len(a) /\ n \in 1..Len(b)
      BY <1>1, <1>2, <2>1
    <3>2. ac[n] = a[n] /\ bd[n] = b[n]
      BY <1>3, <1>4, <3>1 DEF ac, bd
    <3>3. QED
      BY <1>1, <3>1, <3>2
  <2>2. CASE ~(n <= Len(a))
    <3>1. /\ n \in Len(a) + 1..Len(a) + Len(c) /\ n \in Len(b) + 1..Len(b) + Len(d)
          /\ n - Len(a) \in 1..Len(c) /\ n - Len(b) = n - Len(a)
      BY <1>1, <1>2, <1>3, <2>2 DEF ac
    <3>2. ac[n] = c[n - Len(a)] /\ bd[n] = d[n - Len(a)]
      BY <1>3, <1>4, <3>1 DEF ac, bd
    <3>3. QED
      BY <1>1, <3>1, <3>2
  <2>3. QED
    BY <2>1, <2>2
<1>6. Len(ac) = Len(bd)
  BY <1>1, <1>3, <1>4 DEF ac, bd
<1>7. QED
  BY <1>5, <1>6 DEF Matches, ac, bd

LEMMA MatchesEmpty == Matches(<<>>, <<>>)
BY DEF Matches

WorkSteps == TriggerSteps \cup {Note("Debug")}

LEMMA WorkStepsAreSteps == WorkSteps \subseteq StepSet
<1>1. Note("Debug") \in StepSet
  BY DEF Note, StepSet, Kinds
<1>2. QED
  BY <1>1 DEF WorkSteps, StepSet

(* The steps of an evaluation print what the row asks for.                 *)
LEMMA EvaluationMatches ==
    ASSUME Mapped, NEW r \in 1..NumRows, ~Unparsable(Row(r)), NEW time \in Nat,
           ByTheClock \/ TimeInfo(time) = MeantInfo(r)
    PROVE  /\ EvaluationSteps(ReadEvent(Row(r)), time) \in Seq(WorkSteps)
           /\ Matches(PendingLines(EvaluationSteps(ReadEvent(Row(r)), time)), FiringOf(r))
<1> DEFINE event == ReadEvent(Row(r))
           N == Len(Inputs)
           note == Note("Debug")
           step(i) == [do |-> "trigger", trigger |-> i, time |-> time]
           accepted == [i \in 1..N |-> IF event[i].k = "None" THEN <<>> ELSE <<note>>]
           evaluated ==
               [i \in 1..N |-> IF event[i].k = "None" THEN <<>>
                               ELSE IF ~Fires(event[i]) THEN <<note>>
                               ELSE <<note, step(i)>>]
           Acc == FlatTo(accepted, N)
           Eval == FlatTo(evaluated, N)
<1>1. N \in Nat /\ DOMAIN Inputs = 1..N /\ N \in 0..N
  BY InputsDomain
<1>2. r \in Nat
  BY FileTypes DEF Mapped
<1>3. EvaluationSteps(event, time) = Acc \o Eval
  <2>1. EvaluationSteps(event, time) = FlattenSeq(accepted) \o FlattenSeq(evaluated)
    BY <1>1, Zenon DEF EvaluationSteps
  <2>2. [i \in 1..N |-> accepted[i]] = accepted /\ [i \in 1..N |-> evaluated[i]] = evaluated
    OBVIOUS
  <2> HIDE DEF accepted, evaluated
  <2>3. QED
    BY <2>1, <2>2, Zenon DEF FlatTo
<1>4. note \in WorkSteps /\ note.do = "message"
  BY DEF WorkSteps, Note
<1>5. ASSUME NEW i \in 1..N
      PROVE  /\ step(i) \in WorkSteps /\ step(i).do = "trigger"
             /\ LineOf(step(i)) = [k |-> "trigger", trigger |-> i, time |-> TimeInfo(time)]
  <2>1. step(i) \in TriggerSteps
    BY <1>1 DEF TriggerSteps
  <2>2. QED
    BY <2>1 DEF WorkSteps, LineOf
<1> HIDE DEF note, step
<1>6. accepted \in [1..N -> Seq({note})]
  <2>1. <<>> \in Seq({note}) /\ <<note>> \in Seq({note})
    OBVIOUS
  <2>2. \A i \in 1..N : accepted[i] \in Seq({note})
    BY <2>1, Zenon
  <2>3. accepted = [i \in 1..N |-> accepted[i]]
    OBVIOUS
  <2> HIDE DEF accepted
  <2>4. QED
    BY <2>2, <2>3, Zenon
<1>7. Acc \in Seq({note})
  <2> HIDE DEF accepted
  <2>1. QED
    BY <1>1, <1>6, FlatToType
<1>8. evaluated \in [1..N -> Seq(WorkSteps)]
  BY <1>4, <1>5
<1>9. Eval \in Seq(WorkSteps)
  <2> HIDE DEF evaluated
  <2>1. QED
    BY <1>1, <1>8, FlatToType
<1>10. Acc \in Seq(WorkSteps)
  BY <1>4, <1>7, SeqMonotonic
<1>11. \A s \in Seq(WorkSteps) : s \in Seq(StepSet)
  BY WorkStepsAreSteps, SeqMonotonic
<1>12. PendingLines(Acc) = <<>>
  <2>1. \A n \in 1..Len(Acc) : Acc[n] = note
    BY <1>7
  <2>2. \A n \in 1..Len(Acc) : Acc[n].do # "trigger"
    BY <1>4, <2>1
  <2>3. Acc \in Seq(StepSet)
    BY <1>10, <1>11
  <2> HIDE DEF Acc
  <2>4. QED
    BY <2>2, <2>3, PendingNothing
<1> DEFINE firings == FiringAt(r)
           T == {n \in 0..N : Matches(PendingLines(FlatTo(evaluated, n)), FlatTo(firings, n))}
<1>13. firings \in [1..N -> Seq(FiringSet)]
  BY <1>2, FiringOfIs
<1>14. ASSUME NEW i \in 1..N
       PROVE  /\ event[i].k \in {"None", "Bool"}
              /\ firings[i] = IF Fires(event[i]) THEN <<[row |-> r, trigger |-> i]>> ELSE <<>>
  <2>1. CellsOf(r, i) = {event[i]} /\ event[i].k \in {"None", "Bool"}
    BY <1>1, RowRead
  <2>2. (\E cell \in CellsOf(r, i) : Fires(cell)) <=> Fires(event[i])
    BY <2>1
  <2>3. QED
    BY <2>1, <2>2, Zenon DEF FiringAt
<1>15. ASSUME NEW i \in 1..N
       PROVE  /\ evaluated[i] \in Seq(StepSet) /\ firings[i] \in Seq(FiringSet)
              /\ Matches(PendingLines(evaluated[i]), firings[i])
  <2>1. evaluated[i] \in Seq(StepSet) /\ firings[i] \in Seq(FiringSet)
    BY <1>8, <1>11, <1>13
  <2>2. note \in StepSet /\ step(i) \in StepSet
    BY <1>4, <1>5, WorkStepsAreSteps
  <2>3. PendingLines(<<note>>) = <<>>
    <3>1. LinesOf(note) = <<>>
      BY <1>4 DEF LinesOf
    <3>2. QED
      BY <2>2, <3>1, PendingOne, Zenon
  <2>4. CASE event[i].k = "None"
    <3>1. evaluated[i] = <<>> /\ firings[i] = <<>>
      BY <1>14, <2>4 DEF Fires
    <3>2. QED
      BY <2>1, <3>1, PendingEmpty, MatchesEmpty, Zenon
  <2>5. CASE event[i].k # "None" /\ ~Fires(event[i])
    <3>1. evaluated[i] = <<note>> /\ firings[i] = <<>>
      BY <1>14, <2>5
    <3>2. QED
      BY <2>1, <2>3, <3>1, MatchesEmpty, Zenon
  <2>6. CASE Fires(event[i])
    <3> DEFINE firing == [row |-> r, trigger |-> i]
               l == LineOf(step(i))
    <3>1. event[i].k # "None"
      BY <2>6 DEF Fires
    <3>2. evaluated[i] = <<note, step(i)>> /\ firings[i] = <<firing>>
      BY <1>14, <2>6, <3>1
    <3>3. PendingLines(<<step(i)>>) = <<l>>
      <4>1. LinesOf(step(i)) = <<l>>
        BY <1>5 DEF LinesOf
      <4>2. QED
        BY <2>2, <4>1, PendingOne, Zenon
    <3>4. PendingLines(<<note>> \o <<step(i)>>) = PendingLines(<<note>>) \o PendingLines(<<step(i)>>)
      <4>1. <<note>> \in Seq(StepSet) /\ <<step(i)>> \in Seq(StepSet)
        BY <2>2
      <4>2. QED
        BY <4>1, PendingConcat, Zenon
    <3>5. <<note, step(i)>> = <<note>> \o <<step(i)>>
      OBVIOUS
    <3>6. <<>> \o <<l>> = <<l>>
      OBVIOUS
    <3>7. PendingLines(evaluated[i]) = <<l>>
      BY <2>3, <3>2, <3>3, <3>4, <3>5, <3>6, Zenon
    <3>8. Reports(l, firing)
      <4>1. l.trigger = i /\ l.time = TimeInfo(time)
        BY <1>5
      <4>2. firing.trigger = i /\ firing.row = r
        OBVIOUS
      <4> HIDE DEF l, firing
      <4>3. QED
        BY <4>1, <4>2, Zenon DEF Reports
    <3>9. Matches(<<l>>, <<firing>>)
      <4> HIDE DEF l, firing
      <4>1. Len(<<l>>) = 1 /\ Len(<<firing>>) = 1 /\ <<l>>[1] = l /\ <<firing>>[1] = firing
        OBVIOUS
      <4>2. QED
        BY <3>8, <4>1 DEF Matches
    <3>10. QED
      BY <2>1, <3>2, <3>7, <3>9, Zenon
  <2>7. QED
    BY <2>4, <2>5, <2>6
<1> HIDE DEF evaluated, firings, event
<1>16. 0 \in T
  <2>1. FlatTo(evaluated, 0) = <<>> /\ FlatTo(firings, 0) = <<>>
    BY FlatToZero
  <2>2. 0 \in 0..N
    BY <1>1
  <2>3. QED
    BY <2>1, <2>2, PendingEmpty, MatchesEmpty, Zenon
<1>17. ASSUME NEW n \in 0..N, n # N, n \in T PROVE n + 1 \in T
  <2> DEFINE i == n + 1
  <2>1. i \in 1..N /\ i \in 0..N
    <3>1. n # N
      BY <1>17, Zenon
    <3>2. N \in Nat
      BY <1>1, Zenon
    <3>3. QED
      BY <3>1, <3>2
  <2>2. /\ FlatTo(evaluated, n) \in Seq(WorkSteps)
        /\ FlatTo(evaluated, i) = FlatTo(evaluated, n) \o evaluated[i]
    <3>1. n \in 0..N /\ n # N /\ N \in Nat
      BY <1>1, <1>17, Zenon
    <3>2. evaluated \in [1..N -> Seq(WorkSteps)]
      BY <1>8, Zenon
    <3>3. FlatTo(evaluated, n) \in Seq(WorkSteps)
      BY <3>1, <3>2, FlatToNext, Zenon
    <3>4. FlatTo(evaluated, n + 1) = FlatTo(evaluated, n) \o evaluated[n + 1]
      BY <3>1, <3>2, FlatToStep
    <3>5. QED
      BY <3>3, <3>4, Zenon DEF i
  <2>3. /\ FlatTo(firings, n) \in Seq(FiringSet)
        /\ FlatTo(firings, i) = FlatTo(firings, n) \o firings[i]
    <3>1. n \in 0..N /\ n # N /\ N \in Nat
      BY <1>1, <1>17, Zenon
    <3>2. firings \in [1..N -> Seq(FiringSet)]
      BY <1>13, Zenon
    <3>3. FlatTo(firings, n) \in Seq(FiringSet)
      BY <3>1, <3>2, FlatToNext, Zenon
    <3>4. FlatTo(firings, n + 1) = FlatTo(firings, n) \o firings[n + 1]
      BY <3>1, <3>2, FlatToStep
    <3>5. QED
      BY <3>3, <3>4, Zenon DEF i
  <2> HIDE DEF i
  <2>4. /\ FlatTo(evaluated, n) \in Seq(StepSet)
        /\ evaluated[i] \in Seq(StepSet) /\ firings[i] \in Seq(FiringSet)
        /\ Matches(PendingLines(evaluated[i]), firings[i])
    BY <1>11, <1>15, <2>1, <2>2
  <2> DEFINE a == PendingLines(FlatTo(evaluated, n))
             b == FlatTo(firings, n)
             c == PendingLines(evaluated[i])
             d == firings[i]
  <2>5. a \in Seq(AllLines) /\ c \in Seq(AllLines)
    BY <2>4, PendingType
  <2>6. Matches(a, b) /\ Matches(c, d) /\ b \in Seq(FiringSet) /\ d \in Seq(FiringSet)
    BY <1>17, <2>3, <2>4
  <2>7. PendingLines(FlatTo(evaluated, i)) = a \o c
    BY <2>2, <2>4, PendingConcat
  <2> HIDE DEF a, b, c, d
  <2>8. Matches(a \o c, b \o d)
    BY <2>5, <2>6, MatchesConcat, Zenon
  <2>9. Matches(PendingLines(FlatTo(evaluated, i)), FlatTo(firings, i))
    BY <2>3, <2>7, <2>8, Zenon DEF b, d
  <2>10. QED
    BY <2>1, <2>9, Zenon DEF i
<1>18. \A n \in 0..N : n \in T
  <2> HIDE DEF T
  <2>1. QED
    BY <1>1, <1>16, <1>17, UpTo
<1>19. Matches(PendingLines(Eval), FiringOf(r))
  <2>1. FiringOf(r) = FlatTo(firings, N)
    BY <1>2, FiringOfIs DEF firings
  <2>2. QED
    BY <1>1, <1>18, <2>1
<1>20. PendingLines(Acc \o Eval) = PendingLines(Eval)
  <2>1. Acc \in Seq(StepSet) /\ Eval \in Seq(StepSet)
    BY <1>9, <1>10, <1>11
  <2> HIDE DEF Acc, Eval
  <2>2. PendingLines(Acc \o Eval) = PendingLines(Acc) \o PendingLines(Eval)
    BY <2>1, PendingConcat
  <2>3. PendingLines(Eval) \in Seq(AllLines)
    BY <2>1, PendingType
  <2>4. <<>> \o PendingLines(Eval) = PendingLines(Eval)
    BY <2>3, ConcatEmptySeq
  <2>5. QED
    BY <1>12, <2>2, <2>4, Zenon
<1>21. Acc \o Eval \in Seq(WorkSteps)
  BY <1>9, <1>10
<1>22. QED
  BY <1>3, <1>19, <1>20, <1>21, Zenon DEF event

-----------------------------------------------------------------------------
(* What a step leaves as it is.                                            *)

(* The file and the arguments never change, the configuration once.        *)
LEMMA FileStays ==
    ASSUME [Next]_vars
    PROVE  file' = file /\ line' = line
BY DEF Next, vars, source, main, display, Ends, BadArguments, Configure, Setup,
       NoSuchColumn, ReadRow, ExitOnRow, PanicOnRow, EndOfFile, Receive, HungUp,
       ReceiveStart, NoStart, Prints, CountEvent, EvalEvent, NotMonotonic, Trigger,
       TerminateClears, TerminateEvents, TerminateTriggers, Leave, ProgressWakes,
       ProgressEvents, ProgressTriggers, Tick, Stopped

LEMMA ConfigStays ==
    ASSUME [Next]_vars
    PROVE  Configure \/ config' = config
BY DEF Next, vars, source, main, display, Ends, BadArguments, Setup,
       NoSuchColumn, ReadRow, ExitOnRow, PanicOnRow, EndOfFile, Receive, HungUp,
       ReceiveStart, NoStart, Prints, CountEvent, EvalEvent, NotMonotonic, Trigger,
       TerminateClears, TerminateEvents, TerminateTriggers, Leave, ProgressWakes,
       ProgressEvents, ProgressTriggers, Tick, Stopped

LEMMA FrozenFile ==
    ASSUME file' = file
    PROVE  /\ NumRows' = NumRows
           /\ \A r : Row(r)' = Row(r)
           /\ \A r : FiringOf(r)' = FiringOf(r)
           /\ \A n : FiringUpTo(n)' = FiringUpTo(n)
           /\ Firing' = Firing
<1>1. NumRows' = NumRows
  BY DEF NumRows
<1>2. \A r : Row(r)' = Row(r)
  BY DEF Row
<1>3. \A r, i : CellsOf(r, i)' = CellsOf(r, i)
  BY DEF CellsOf, Columns
<1>4. \A r : FiringOf(r)' = FiringOf(r)
  BY <1>3, Zenon DEF FiringOf
<1>5. \A n : FiringUpTo(n)' = FiringUpTo(n)
  BY <1>4, Zenon DEF FiringUpTo
<1>6. Firing' = Firing
  BY <1>4, Zenon DEF Firing
<1>7. QED
  BY <1>1, <1>2, <1>4, <1>5, <1>6

LEMMA FrozenTimes ==
    ASSUME file' = file, config' = config
    PROVE  /\ TimeCells' = TimeCells
           /\ \A r : HasTime(r)' <=> HasTime(r)
           /\ \A r : MeantTime(r)' = MeantTime(r)
           /\ StartOf' = StartOf
           /\ \A r : Since(r)' = Since(r)
           /\ \A r : MeantInfo(r)' = MeantInfo(r)
           /\ ByTheClock' <=> ByTheClock
           /\ \A l, f : Reports(l, f)' <=> Reports(l, f)
           /\ \A l, f : Matches(l, f)' <=> Matches(l, f)
<1>1. TimeCells' = TimeCells
  BY DEF TimeCells, Columns
<1>2. \A r : HasTime(r)' <=> HasTime(r)
  BY <1>1, Zenon DEF HasTime
<1>3. \A r : MeantTime(r)' = MeantTime(r)
  BY <1>1 DEF MeantTime
<1>4. StartOf' = StartOf
  BY <1>2, <1>3, Zenon DEF StartOf
<1>5. \A r : Since(r)' = Since(r)
  BY <1>3, <1>4, Zenon DEF Since
<1>6. \A r : MeantInfo(r)' = MeantInfo(r)
  BY <1>4, <1>5, Zenon DEF MeantInfo
<1>7. ByTheClock' <=> ByTheClock
  BY DEF ByTheClock
<1>8. \A l, f : Reports(l, f)' <=> Reports(l, f)
  BY <1>6, <1>7, Zenon DEF Reports
<1>9. \A l, f : Matches(l, f)' <=> Matches(l, f)
  BY <1>8, Zenon DEF Matches
<1>10. QED
  BY <1>1, <1>2, <1>3, <1>4, <1>5, <1>6, <1>7, <1>8, <1>9

LEMMA FrozenFault ==
    ASSUME file' = file, config' = config, line' = line
    PROVE  AtFault' <=> AtFault
<1>1. \A r, i : CellsOf(r, i)' = CellsOf(r, i)
  BY DEF CellsOf, Columns
<1>2. Decreasing' <=> Decreasing
  BY FrozenTimes, Zenon DEF Decreasing
<1>3. TimeCells' = TimeCells /\ \A r : HasTime(r)' <=> HasTime(r)
  BY FrozenTimes
<1>4. QED
  BY <1>1, <1>2, <1>3, Zenon DEF AtFault

LEMMA FrozenRows ==
    ASSUME file' = file, config' = config, reader.columns' = reader.columns
    PROVE  /\ \A row : Unparsable(row)' <=> Unparsable(row)
           /\ \A row : ReadEvent(row)' = ReadEvent(row)
           /\ \A item, r : IsRow(item, r)' <=> IsRow(item, r)
<1>1. \A row : Unparsable(row)' <=> Unparsable(row)
  BY Zenon DEF Unparsable
<1>2. \A row : ReadEvent(row)' = ReadEvent(row)
  BY Zenon DEF ReadEvent
<1>3. \A item, r : IsRow(item, r)' <=> IsRow(item, r)
  <2>1. /\ \A r : Since(r)' = Since(r)
        /\ ByTheClock' <=> ByTheClock
        /\ \A r : Row(r)' = Row(r)
    BY FrozenTimes, FrozenFile
  <2>2. QED
    BY <1>2, <2>1, Zenon DEF IsRow
<1>4. QED
  BY <1>1, <1>2, <1>3

-----------------------------------------------------------------------------
(* Reading one row.                                                        *)

(* After setup the reader knows its columns.                               *)
LEMMA MappedNow ==
    ASSUME TypeInv, UnstartedInv, ReaderInv, edm # "setup"
    PROVE  Mapped
BY DEF TypeInv, UnstartedInv, ReaderInv, Mapped

LEMMA HasTimeIsNat ==
    ASSUME Mapped, NEW r \in 1..NumRows, HasTime(r)
    PROVE  MeantTime(r) \in Nat
BY ReadTimeIs DEF TimeRead

TimeGot(r) ==
    LET got == GetTime(Row(r))
    IN  /\ got.k \in {"time", "exit", "panic"}
        /\ got.k = "time" =>
               /\ got.t \in Nat /\ got.timer \in Seq(Nat)
               /\ ByTheClock \/ got.t = Since(r)
               /\ config.timer = "RealTime" => got.t = clock
               /\ config.timer = "Delayed" =>
                      /\ got.t = r * config.delay[1]
                      /\ got.timer = <<r * config.delay[1]>>
               /\ config.timer = "FromFile" =>
                      /\ HasTime(1) /\ HasTime(r) /\ MeantTime(1) <= MeantTime(r)
                      /\ got.timer = <<MeantTime(1)>>
                      /\ got.t = Since(r)
        /\ got.k # "time" => AtFault

(* get_time gives the time of the row, or the file is at fault.            *)
LEMMA GetTimeIs ==
    ASSUME Mapped, TypeInv, TimerInv, edm = "reads", reader.rows \in 0..NumRows - 1
    PROVE  TimeGot(reader.rows + 1)
<1> DEFINE r == reader.rows + 1
           now == ReadTime(Row(r))
           delay == config.delay[1]
<1>1. /\ NumRows \in Nat /\ r \in 1..NumRows /\ reader.rows \in Nat
      /\ r = 1 => reader.rows = 0
      /\ r # 1 => reader.rows \in 1..NumRows /\ reader.rows # 0 /\ reader.rows = r - 1 /\ r > 1
      /\ 1 \in 1..NumRows
  BY FileTypes DEF Mapped
<1>2. /\ config.timer \in {"RealTime", "FromFile", "Delayed"}
      /\ config.timer = "Delayed" => delay \in Nat
  BY LineTypes DEF Mapped
<1>3. r \in DOMAIN file.rows
  BY <1>1, FileTypes DEF Mapped, NumRows
<1>4. clock \in Nat /\ reader.timer \in Seq(Nat)
  BY DEF TypeInv
<1> HIDE DEF r
<1>5. CASE config.timer = "RealTime"
  <2>1. GetTime(Row(r)) = Timed(clock, reader.timer)
    BY <1>5 DEF GetTime
  <2>2. ByTheClock
    BY <1>5 DEF ByTheClock
  <2>3. TimeGot(r)
    BY <1>4, <1>5, <2>1, <2>2 DEF TimeGot, Timed
  <2>4. QED
    BY <2>3 DEF r
<1>6. CASE config.timer = "Delayed"
  <2>1. reader.timer = <<reader.rows * delay>>
    BY <1>6 DEF TimerInv
  <2>2. reader.timer[1] + delay = r * delay
    <3>1. \A a \in Nat, d \in Nat : a * d + d = (a + 1) * d
      OBVIOUS
    <3>2. reader.rows * delay + delay = r * delay
      BY <1>1, <1>2, <1>6, <3>1 DEF r
    <3>3. reader.timer[1] = reader.rows * delay
      BY <2>1
    <3>4. QED
      BY <3>2, <3>3, Zenon
  <2>3. r * delay \in Nat
    BY <1>1, <1>2, <1>6
  <2> DEFINE t == r * delay
  <2>4. GetTime(Row(r)) = Timed(t, <<t>>)
    BY <1>6, <2>2 DEF GetTime
  <2>5. Since(r) = t
    BY <1>6 DEF Since
  <2> HIDE DEF t
  <2>6. TimeGot(r)
    <3>1. t \in Nat /\ <<t>> \in Seq(Nat) /\ t = r * config.delay[1]
      BY <2>3 DEF t
    <3>2. QED
      BY <1>6, <2>4, <2>5, <3>1 DEF TimeGot, Timed
  <2>7. QED
    BY <2>6 DEF r
<1>7. CASE config.timer = "FromFile"
  <2>1. TimeRead(r)
    BY <1>1, ReadTimeIs
  <2>2. ASSUME now.k # "time" PROVE TimeGot(r)
    <3>1. ~HasTime(r) /\ now.k \in {"none", "exit", "panic"}
      BY <2>1, <2>2 DEF TimeRead
    <3>2. AtFault
      BY <1>3, <1>7, <3>1, Zenon DEF AtFault
    <3>3. GetTime(Row(r)).k \in {"exit", "panic"}
      BY <1>7, <3>1 DEF GetTime
    <3>4. QED
      BY <3>2, <3>3 DEF TimeGot
  <2>3. ASSUME now.k = "time" PROVE TimeGot(r)
    <3>1. HasTime(r) /\ MeantTime(r) \in Nat /\ now.t = MeantTime(r)
      BY <2>1, <2>3 DEF TimeRead
    <3>2. CASE r = 1
      <4>1. reader.timer = <<>>
        BY <1>1, <1>7, <3>2 DEF TimerInv
      <4>2. GetTime(Row(r)) = Timed(0, <<MeantTime(1)>>)
        BY <1>7, <2>3, <3>1, <3>2, <4>1 DEF GetTime
      <4>3. Since(1) = 0
        <5>1. StartOf = MeantTime(1)
          BY <3>1, <3>2 DEF StartOf
        <5>2. Since(1) = MeantTime(1) - MeantTime(1)
          BY <1>7, <5>1 DEF Since
        <5>3. MeantTime(1) \in Nat
          BY <3>1, <3>2
        <5>4. QED
          BY <5>2, <5>3
      <4>4. MeantTime(1) \in Nat /\ <<MeantTime(1)>> \in Seq(Nat) /\ MeantTime(1) <= MeantTime(1)
        BY <3>1, <3>2
      <4>5. /\ GetTime(Row(r)) = Timed(Since(r), <<MeantTime(1)>>)
            /\ Since(r) = 0 /\ HasTime(1) /\ MeantTime(1) <= MeantTime(r)
        BY <3>1, <3>2, <4>2, <4>3, <4>4, Zenon
      <4>6. Since(r) \in Nat
        BY <4>5
      <4>7. QED
        BY <1>7, <3>1, <4>4, <4>5, <4>6 DEF TimeGot, Timed
    <3>3. CASE r # 1
      <4> DEFINE p == reader.rows
      <4>1. p \in 1..NumRows /\ p # 0 /\ p = r - 1 /\ r > 1 /\ 1 \in 1..p /\ p \in 1..p
        BY <1>1, <3>3
      <4>2. /\ reader.timer = <<MeantTime(1)>>
            /\ HasTime(1) /\ HasTime(p) /\ MeantTime(1) <= MeantTime(p)
        BY <1>7, <4>1 DEF TimerInv
      <4>3. MeantTime(1) \in Nat /\ MeantTime(p) \in Nat
        BY <1>1, <4>1, <4>2, HasTimeIsNat
      <4>4. StartOf = MeantTime(1)
        BY <4>2 DEF StartOf
      <4>5. Since(r) = MeantTime(r) - MeantTime(1)
        BY <1>7, <4>4 DEF Since
      <4>6. reader.timer # <<>> /\ reader.timer[1] = MeantTime(1)
        BY <4>2
      <4>7. CASE MeantTime(r) < MeantTime(1)
        <5>1. MeantTime(r) < MeantTime(p)
          BY <3>1, <4>2, <4>3, <4>7
        <5>2. MeantTime(r) < MeantTime(r - 1)
          BY <4>1, <5>1
        <5>3. Decreasing
          BY <1>3, <4>1, <5>2 DEF Decreasing
        <5>4. AtFault
          BY <1>7, <5>3, Zenon DEF AtFault
        <5>5. GetTime(Row(r)).k = "panic"
          BY <1>7, <2>3, <3>1, <4>6, <4>7 DEF GetTime
        <5>6. QED
          BY <5>4, <5>5 DEF TimeGot
      <4>8. CASE ~(MeantTime(r) < MeantTime(1))
        <5>1. MeantTime(1) <= MeantTime(r) /\ MeantTime(r) - MeantTime(1) \in Nat
          BY <3>1, <4>3, <4>8
        <5>2. GetTime(Row(r)) = Timed(Since(r), <<MeantTime(1)>>)
          BY <1>7, <2>3, <3>1, <4>2, <4>5, <4>6, <4>8 DEF GetTime
        <5>3. Since(r) \in Nat /\ <<MeantTime(1)>> \in Seq(Nat)
          BY <4>3, <4>5, <5>1
        <5>4. QED
          BY <1>7, <3>1, <4>2, <5>1, <5>2, <5>3 DEF TimeGot, Timed
      <4>9. QED
        BY <4>7, <4>8
    <3>4. QED
      BY <3>2, <3>3
  <2>4. QED
    BY <2>2, <2>3 DEF r
<1>8. QED
  BY <1>2, <1>5, <1>6, <1>7

(***************************************************************************)
(* Offline the start time that is sent ahead is that of the first row.     *)
(***************************************************************************)
LEMMA StartIs ==
    ASSUME Mapped, 1 \in 1..NumRows, ReadTime(Row(1)).k \in {"time", "none"}
    PROVE  /\ StartOf = IF ReadTime(Row(1)).k = "time" THEN ReadTime(Row(1)).t ELSE 0
           /\ StartOf \in Nat
           /\ TimeCells = {} \/ HasTime(1)
<1>1. TimeRead(1)
  BY ReadTimeIs
<1>2. CASE ReadTime(Row(1)).k = "time"
  BY <1>1, <1>2 DEF TimeRead, StartOf
<1>3. CASE ReadTime(Row(1)).k = "none"
  BY <1>1, <1>3 DEF TimeRead, StartOf
<1>4. QED
  BY <1>2, <1>3

(***************************************************************************)
(* A row that stops the reader is at fault.                                *)
(***************************************************************************)
LEMMA FailureIsAtFault ==
    ASSUME Mapped, TypeInv, TimerInv, Reads, NEW how \in {"exit", "panic"}, Failure(how)
    PROVE  AtFault
<1> DEFINE r == reader.rows + 1
<1>1. /\ reader.rows \in 0..NumRows - 1 /\ edm = "reads" /\ r \in 1..NumRows
      /\ NextRow = Row(r) /\ NumRows \in Nat
  <2>1. reader.rows \in Nat /\ edm = "reads" /\ reader.rows < NumRows
    BY Zenon DEF Reads, TypeInv, NumRows
  <2>2. NumRows \in Nat
    BY FileTypes DEF Mapped
  <2>3. NextRow = Row(r)
    BY Zenon DEF Row, NextRow
  <2>4. QED
    BY <2>1, <2>2, <2>3
<1>2. TimeGot(r)
  BY <1>1, GetTimeIs
<1>3. CASE Unparsable(Row(r))
  BY <1>1, <1>3, UnparsableIsAtFault
<1>4. CASE GetTime(Row(r)).k = how
  BY <1>2, <1>4 DEF TimeGot
<1>5. CASE First /\ ReadTime(Row(r)).k = how
  <2>1. TimeRead(r)
    BY <1>1, ReadTimeIs
  <2>2. r = 1 /\ config.mode = "Offline"
    BY <1>5 DEF First
  <2>3. TimeCells # {} /\ ~HasTime(1)
    BY <1>5, <2>1, <2>2 DEF TimeRead
  <2>4. ~line.online
    BY <2>2, LineTypes DEF Mapped
  <2>5. QED
    BY <2>3, <2>4, Zenon DEF AtFault
<1>6. QED
  BY <1>1, <1>3, <1>4, <1>5 DEF Failure

-----------------------------------------------------------------------------
(* Types.                                                                  *)

(* At the start.                                                           *)
LEMMA InitTypes ==
    ASSUME Init
    PROVE  TypeInv /\ UnstartedInv
<1>1. UnstartedInv
  BY DEF Init, UnstartedInv, NoTime
<1>2. /\ reader.rows \in Nat /\ reader.timer \in Seq(Nat)
      /\ reader = [columns |-> reader.columns, time |-> reader.time,
                   rows |-> reader.rows, timer |-> reader.timer]
  <2>1. reader = [columns |-> <<>>, time |-> 0, rows |-> 0, timer |-> <<>>]
    BY DEF Init, NoTime
  <2>2. /\ reader.columns = <<>> /\ reader.time = 0 /\ reader.rows = 0
        /\ reader.timer = <<>>
    BY <2>1
  <2>3. <<>> \in Seq(Nat) /\ 0 \in Nat
    OBVIOUS
  <2>4. QED
    BY <2>1, <2>2, <2>3, Zenon
<1>3. counts \in [events : Nat, triggers : Nat]
  BY DEF Init
<1>4. /\ slot \in Seq(Nat) /\ queue \in Seq(EventItems \cup {EndItem})
      /\ todo \in Seq(StepSet) /\ screen \in Seq(LineSet)
  <2>1. \A S : <<>> \in Seq(S)
    OBVIOUS
  <2>2. QED
    BY <2>1, Zenon DEF Init
<1>5. TypeInv
  BY <1>2, <1>3, <1>4, ClockAssumption DEF Init, TypeInv
<1>6. QED
  BY <1>1, <1>5

LEMMA StatisticsLines ==
    ASSUME TypeInv
    PROVE  EventsLine \in LineSet /\ TriggersLine \in LineSet
BY DEF TypeInv, EventsLine, TriggersLine, LineSet

LEMMA HeadIsAStep ==
    ASSUME TypeInv, todo # <<>>
    PROVE  Head(todo) \in StepSet /\ Tail(todo) \in Seq(StepSet)
<1>1. todo \in Seq(StepSet)
  BY DEF TypeInv
<1> HIDE DEF StepSet
<1>2. QED
  BY <1>1, HeadTailProperties

(***************************************************************************)
(* What a step says, by its kind.                                          *)
(***************************************************************************)
LEMMA StepKinds ==
    ASSUME NEW step \in StepSet
    PROVE  /\ step.do = "message" => step.kind \in Kinds
           /\ step.do = "evaluate" => step.item \in EventItems
           /\ step.do = "trigger" => step \in TriggerSteps
           /\ step.do \in {"start", "count", "clear", "events", "triggers", "leave",
                           "message", "evaluate", "trigger"}
BY DEF StepSet, TriggerSteps

LEMMA TimeInfoType ==
    ASSUME TypeInv, config # <<>>, NEW time \in Nat
    PROVE  TimeInfo(time) \in Seq(Nat)
<1>1. config.time \in {"Hide", "Relative", "Absolute"} /\ startTime \in Nat
  BY LineTypes DEF TypeInv
<1>2. startTime + time \in Nat
  BY <1>1
<1>3. <<startTime + time>> \in Seq(Nat) /\ <<time>> \in Seq(Nat) /\ <<>> \in Seq(Nat)
  BY <1>2
<1>4. QED
  BY <1>1, <1>3 DEF TimeInfo

LEMMA ScreenAppend ==
    ASSUME TypeInv, NEW l \in LineSet
    PROVE  Append(screen, l) \in Seq(LineSet)
<1>1. screen \in Seq(LineSet)
  BY DEF TypeInv
<1> HIDE DEF LineSet
<1>2. QED
  BY <1>1

LEMMA ClearedIs ==
    ASSUME TypeInv, Len(screen) = 2
    PROVE  Cleared(screen) = <<>>
<1>1. screen \in Seq(LineSet)
  BY DEF TypeInv
<1>2. Len(screen) - 2 = 0
  OBVIOUS
<1>3. Cleared(screen) = SubSeq(screen, 1, 0)
  BY <1>2, Zenon DEF Cleared
<1>4. QED
  BY <1>3, SubSeqEmpty

(***************************************************************************)
(* What the main thread does next, by what it is busy with.                *)
(***************************************************************************)
HeadFacts ==
    LET h == Head(todo)
        n == Len(todo)
    IN  /\ n \in Nat \ {0}
        /\ Job \in {"start", "evaluate", "leave", "message", "trigger"}
        /\ Job = "start" => n = 1 /\ h.do = "start" /\ Offline
        /\ Job = "evaluate" =>
               /\ n = 1 => h.do = "evaluate" /\ h.item = Pending
               /\ n = 2 => h = [do |-> "count"]
               /\ n # 1 /\ n # 2 => h = Note("Debug")
        /\ Job = "leave" => n \in 1..6 /\ (~Reports1 => n <= 3) /\ h = EndStep(n - 1)
        /\ Job \in {"message", "trigger"} => h \in WorkSteps

(* The first step, by what the main thread is busy with.                   *)
LEMMA HeadOf ==
    ASSUME TypeInv, TodoInv, todo # <<>>
    PROVE  HeadFacts
<1> DEFINE n == Len(todo)
           h == Head(todo)
<1>1. todo \in Seq(StepSet)
  BY DEF TypeInv
<1>2. n \in Nat \ {0}
  BY <1>1, EmptySeq
<1>3. 1 \in 1..n /\ n \in 1..n
  BY <1>2
<1>4. h = todo[1] /\ todo[n] \in StepSet /\ Job = todo[n].do
  <2>1. h = todo[1]
    BY <1>1
  <2>2. todo[n] \in StepSet
    BY <1>1, <1>3, ElementOfSeq
  <2>3. QED
    BY <2>1, <2>2 DEF Job, JobOf
<1>5. Job = "start" => n = 1 /\ Offline
  BY Zenon DEF TodoInv
<1>6. Job = "evaluate" =>
          \A k \in 1..n - 1 : todo[k] = IF k = n - 1 THEN [do |-> "count"] ELSE Note("Debug")
  BY DEF TodoInv
<1>7. Job = "leave" =>
          n <= (IF Reports1 THEN 6 ELSE 3) /\ \A k \in 1..n : todo[k] = EndStep(n - k)
  BY DEF TodoInv
<1>8. Job \notin {"start", "evaluate", "leave"} => \A k \in 1..n : todo[k] \in WorkSteps
  BY DEF TodoInv, WorkSteps
<1> HIDE DEF n, h
<1>9. CASE Job = "start"
  BY <1>2, <1>4, <1>5, <1>9 DEF HeadFacts, n, h
<1>10. CASE Job = "evaluate"
  <2>1. n = 1 => h.do = "evaluate" /\ h.item = Pending
    BY <1>4, <1>10 DEF Pending, n
  <2>2. n = 2 => h = [do |-> "count"]
    <3>1. n = 2 => 1 \in 1..n - 1 /\ 1 = n - 1
      BY <1>2
    <3>2. QED
      BY <1>4, <1>6, <1>10, <3>1
  <2>3. n # 1 /\ n # 2 => h = Note("Debug")
    <3>1. n # 1 /\ n # 2 => 1 \in 1..n - 1 /\ 1 # n - 1
      BY <1>2
    <3>2. QED
      BY <1>4, <1>6, <1>10, <3>1
  <2>4. QED
    BY <1>2, <1>10, <2>1, <2>2, <2>3 DEF HeadFacts, n, h
<1>11. CASE Job = "leave"
  <2>1. n \in 1..6 /\ (~Reports1 => n <= 3)
    BY <1>2, <1>7, <1>11
  <2>2. h = EndStep(n - 1)
    BY <1>3, <1>4, <1>7, <1>11
  <2>3. QED
    BY <1>2, <1>11, <2>1, <2>2 DEF HeadFacts, n, h
<1>12. CASE Job \notin {"start", "evaluate", "leave"}
  <2>1. h \in WorkSteps /\ todo[n] \in WorkSteps
    BY <1>3, <1>4, <1>8, <1>12
  <2>2. Job \in {"message", "trigger"}
    BY <1>4, <2>1 DEF WorkSteps, TriggerSteps, Note
  <2>3. QED
    BY <1>2, <2>1, <2>2 DEF HeadFacts, n, h
<1>13. QED
  BY <1>9, <1>10, <1>11, <1>12

(***************************************************************************)
(* And what the main thread is busy with, by what it does next.            *)
(***************************************************************************)
DoFacts ==
    LET do == Head(todo).do
        n == Len(todo)
    IN  /\ do = "start" => Job = "start" /\ n = 1
        /\ do = "count" => Job = "evaluate" /\ n = 2
        /\ do = "evaluate" => Job = "evaluate" /\ n = 1 /\ Head(todo).item = Pending
        /\ do = "trigger" => Job \in {"message", "trigger"} /\ Head(todo) \in TriggerSteps
        /\ do = "clear" => Job = "leave" /\ Reports1 /\ n = 4
        /\ do = "events" => Job = "leave" /\ Reports1 /\ n = 3
        /\ do = "triggers" => Job = "leave" /\ Reports1 /\ n = 2
        /\ do = "leave" => Job = "leave" /\ n = 1
        /\ do = "message" =>
               \/ Job = "evaluate" /\ n > 2
               \/ Job = "leave" /\ (IF Reports1 THEN n \in {5, 6} ELSE n \in {2, 3})
               \/ Job \in {"message", "trigger"}

(* What the main thread is busy with, by its first step.                   *)
LEMMA DoOf ==
    ASSUME TypeInv, TodoInv, todo # <<>>
    PROVE  DoFacts
<1> DEFINE n == Len(todo)
           h == Head(todo)
<1>1. /\ n \in Nat \ {0}
      /\ Job \in {"start", "evaluate", "leave", "message", "trigger"}
      /\ Job = "start" => n = 1 /\ h.do = "start" /\ Offline
      /\ Job = "evaluate" =>
               /\ n = 1 => h.do = "evaluate" /\ h.item = Pending
               /\ n = 2 => h = [do |-> "count"]
               /\ n # 1 /\ n # 2 => h = Note("Debug")
      /\ Job = "leave" => n \in 1..6 /\ (~Reports1 => n <= 3) /\ h = EndStep(n - 1)
      /\ Job \in {"message", "trigger"} => h \in WorkSteps
  BY HeadOf DEF HeadFacts
<1> HIDE DEF n, h
<1>2. CASE Job = "start"
  BY <1>1, <1>2 DEF DoFacts, n, h
<1>3. CASE Job = "evaluate"
  <2>1. \/ n = 1 /\ h.do = "evaluate" /\ h.item = Pending
        \/ n = 2 /\ h.do = "count"
        \/ n > 2 /\ h.do = "message"
    BY <1>1, <1>3 DEF Note
  <2>2. QED
    BY <1>1, <1>3, <2>1 DEF DoFacts, n, h
<1>4. CASE Job = "leave"
  <2>1. n \in {1, 2, 3, 4, 5, 6} /\ h = EndStep(n - 1) /\ (~Reports1 => n <= 3)
    BY <1>1, <1>4
  <2>2. CASE n = 1
    <3>1. h.do = "leave"
      BY <2>1, <2>2 DEF EndStep
    <3>2. QED
      BY <1>4, <2>2, <3>1 DEF DoFacts, n, h
  <2>3. CASE n = 2
    <3>1. h.do = IF Reports1 THEN "triggers" ELSE "message"
      BY <2>1, <2>3 DEF EndStep, Note
    <3>2. QED
      BY <1>4, <2>3, <3>1 DEF DoFacts, n, h
  <2>4. CASE n = 3
    <3>1. h.do = IF Reports1 THEN "events" ELSE "message"
      BY <2>1, <2>4 DEF EndStep, Note
    <3>2. QED
      BY <1>4, <2>4, <3>1 DEF DoFacts, n, h
  <2>5. CASE n = 4
    <3>1. h.do = "clear" /\ Reports1
      BY <2>1, <2>5 DEF EndStep
    <3>2. QED
      BY <1>4, <2>5, <3>1 DEF DoFacts, n, h
  <2>6. CASE n \in {5, 6}
    <3>1. h.do = "message" /\ Reports1
      BY <2>1, <2>6 DEF EndStep, Note
    <3>2. QED
      BY <1>4, <2>6, <3>1 DEF DoFacts, n, h
  <2>7. QED
    BY <2>1, <2>2, <2>3, <2>4, <2>5, <2>6
<1>5. CASE Job \in {"message", "trigger"}
  <2>1. h.do = "message" \/ (h.do = "trigger" /\ h \in TriggerSteps)
    BY <1>1, <1>5 DEF WorkSteps, TriggerSteps, Note
  <2>2. QED
    BY <1>1, <1>5, <2>1 DEF DoFacts, n, h
<1>6. QED
  BY <1>1, <1>2, <1>3, <1>4, <1>5

(***************************************************************************)
(* Whoever clears the lines has both of them.                              *)
(***************************************************************************)
LEMMA TwoLines ==
    ASSUME TypeInv, TodoInv, ScreenInv, config # <<>>,
           \/ lock = "free" /\ ~done /\ progress = "sleeps"
           \/ lock = "free" /\ Doing("clear")
    PROVE  /\ Len(screen) = 2 /\ Cleared(screen) = <<>> /\ progress = "sleeps" /\ ~done
           /\ Counts
<1>1. CASE lock = "free" /\ ~done /\ progress = "sleeps"
  BY <1>1, ClearedIs DEF ScreenInv
<1>2. CASE lock = "free" /\ Doing("clear")
  <2>1. Reports1 /\ Len(todo) = 4
    BY <1>2, DoOf DEF DoFacts, Doing
  <2>2. Counts /\ ~done
    <3>1. Len(todo) # 1
      BY <2>1
    <3>2. QED
      BY <2>1, <3>1, Zenon DEF Reports1, ScreenInv
  <2>3. QED
    BY <1>2, <2>2, ClearedIs DEF ScreenInv
<1>3. QED
  BY <1>1, <1>2

-----------------------------------------------------------------------------
(* What the steps of the main thread are.                                  *)

LEMMA EndStepsAreSteps == EndSteps \in Seq(StepSet)
<1>1. /\ Note("Debug") \in StepSet /\ Note("Outputs") \in StepSet
      /\ [do |-> "clear"] \in StepSet /\ [do |-> "events"] \in StepSet
      /\ [do |-> "triggers"] \in StepSet /\ [do |-> "leave"] \in StepSet
  BY DEF Note, StepSet, Kinds
<1> HIDE DEF StepSet
<1> DEFINE d == Note("Debug") o == Note("Outputs") c == [do |-> "clear"]
           e == [do |-> "events"] t == [do |-> "triggers"] l == [do |-> "leave"]
<1> HIDE DEF d, o, c, e, t, l
<1>2. /\ d \in StepSet /\ o \in StepSet /\ c \in StepSet /\ e \in StepSet
      /\ t \in StepSet /\ l \in StepSet
  BY <1>1 DEF d, o, c, e, t, l
<1>3. /\ <<d, o>> \in Seq(StepSet) /\ <<c, e, t>> \in Seq(StepSet) /\ <<>> \in Seq(StepSet)
      /\ <<l>> \in Seq(StepSet)
  BY <1>2
<1>4. (<<d, o>> \o <<c, e, t>>) \o <<l>> \in Seq(StepSet)
  BY <1>3, ConcatProperties
<1>5. (<<d, o>> \o <<>>) \o <<l>> \in Seq(StepSet)
  BY <1>3, ConcatProperties
<1>6. EndSteps = IF Offline /\ Counts THEN (<<d, o>> \o <<c, e, t>>) \o <<l>>
                 ELSE (<<d, o>> \o <<>>) \o <<l>>
  BY Zenon DEF EndSteps, Offline, d, o, c, e, t, l
<1>7. QED
  BY <1>4, <1>5, <1>6

LEMMA EventStepsAreSteps ==
    ASSUME NEW item \in EventItems
    PROVE  EventSteps(item) \in Seq(StepSet)
<1> DEFINE d == Note("Debug") c == [do |-> "count"] v == [do |-> "evaluate", item |-> item]
<1>1. d \in StepSet /\ c \in StepSet /\ v \in StepSet
  BY DEF Note, StepSet, Kinds
<1>2. EventSteps(item) = IF Offline THEN (<<d>> \o <<d>>) \o <<c, v>>
                         ELSE (<<d>> \o <<>>) \o <<c, v>>
  BY Zenon DEF EventSteps, Offline
<1> HIDE DEF d, c, v, StepSet
<1>3. <<d>> \in Seq(StepSet) /\ <<c, v>> \in Seq(StepSet) /\ <<>> \in Seq(StepSet)
  BY <1>1
<1>4. (<<d>> \o <<d>>) \o <<c, v>> \in Seq(StepSet)
  BY <1>3, ConcatProperties
<1>5. (<<d>> \o <<>>) \o <<c, v>> \in Seq(StepSet)
  BY <1>3, ConcatProperties
<1>6. QED
  BY <1>2, <1>4, <1>5

(***************************************************************************)
(* The row that is read, as an item of the queue.                          *)
(***************************************************************************)
LEMMA NextRowIs ==
    ASSUME Mapped, TypeInv, Reads
    PROVE  /\ reader.rows \in 0..NumRows - 1 /\ edm = "reads"
           /\ reader.rows + 1 \in 1..NumRows /\ NumRows \in Nat
           /\ NextRow = Row(reader.rows + 1)
<1>1. reader.rows \in Nat /\ edm = "reads" /\ reader.rows < NumRows
  BY Zenon DEF Reads, TypeInv, NumRows
<1>2. NumRows \in Nat
  BY FileTypes DEF Mapped
<1>3. NextRow = Row(reader.rows + 1)
  BY Zenon DEF Row, NextRow
<1>4. QED
  BY <1>1, <1>2, <1>3

(* What ReadRow puts into the queue is the next row with its time.         *)
LEMMA RowItemIs ==
    ASSUME Mapped, TypeInv, TimerInv, Reads, ~Unparsable(NextRow),
           GetTime(NextRow).k = "time"
    PROVE  /\ [event |-> ReadEvent(NextRow), time |-> GetTime(NextRow).t] \in EventItems
           /\ IsRow([event |-> ReadEvent(NextRow), time |-> GetTime(NextRow).t],
                    reader.rows + 1)
           /\ GetTime(NextRow).timer \in Seq(Nat)
<1> DEFINE r == reader.rows + 1
           got == GetTime(Row(r))
<1>1. reader.rows \in 0..NumRows - 1 /\ edm = "reads" /\ r \in 1..NumRows /\ NextRow = Row(r)
  BY NextRowIs
<1>2. TimeGot(r)
  BY <1>1, GetTimeIs
<1>3. /\ got.t \in Nat /\ got.timer \in Seq(Nat)
      /\ ByTheClock \/ got.t = Since(r)
  BY <1>1, <1>2 DEF TimeGot
<1>4. ReadEvent(Row(r)) \in [DOMAIN Inputs -> Cells]
  BY <1>1, EventRead
<1> HIDE DEF r, got
<1> DEFINE item == [event |-> ReadEvent(Row(r)), time |-> got.t]
<1>5. item \in EventItems /\ item.event = ReadEvent(Row(r)) /\ item.time = got.t
  BY <1>3, <1>4 DEF EventItems
<1>6. IsRow(item, r)
  BY <1>3, <1>5 DEF IsRow
<1>7. QED
  BY <1>1, <1>3, <1>5, <1>6, Zenon DEF r, got

LEMMA NoteKind ==
    ASSUME TypeInv, Doing("message")
    PROVE  Message(Head(todo).kind) \in LineSet
<1>1. Head(todo).kind \in Kinds
  BY HeadIsAStep, StepKinds DEF Doing
<1>2. QED
  BY <1>1 DEF Message, LineSet

TriggerLine ==
    [k |-> "trigger", trigger |-> Head(todo).trigger, time |-> TimeInfo(Head(todo).time)]

LEMMA TriggerLineIs ==
    ASSUME TypeInv, UnstartedInv, Doing("trigger")
    PROVE  TriggerLine \in LineSet /\ TriggerLine.k = "trigger" /\ TriggerLine = LineOf(Head(todo))
<1>1. Head(todo) \in TriggerSteps
  BY HeadIsAStep, StepKinds DEF Doing
<1>2. Head(todo).trigger \in DOMAIN Inputs /\ Head(todo).time \in Nat
  BY <1>1 DEF TriggerSteps
<1>3. config # <<>>
  BY DEF UnstartedInv, Doing
<1>4. TimeInfo(Head(todo).time) \in Seq(Nat)
  BY <1>2, <1>3, TimeInfoType
<1>5. TriggerLine \in LineSet
  BY <1>2, <1>4 DEF TriggerLine, LineSet
<1>6. QED
  BY <1>5 DEF TriggerLine, LineOf

(***************************************************************************)
(* The step of an evaluation: the h-th row is evaluated.                   *)
(***************************************************************************)
EvaluationOf(h) ==
    /\ h \in 1..reader.rows /\ h \in 1..NumRows
    /\ Job = "evaluate" /\ Len(todo) = 1
    /\ todo' \in Seq(WorkSteps) /\ todo' \in Seq(StepSet)
    /\ Matches(PendingLines(todo'), FiringOf(h))
    /\ Offline => lastTime <= Pending.time /\ lastTime' = Pending.time
    /\ ~Offline => lastTime' = lastTime
    /\ Pending \in EventItems

(* EvalEvent evaluates the row that is pending.                            *)
LEMMA EvaluationIs ==
    ASSUME TypeInv, UnstartedInv, ReaderInv, TodoInv, StartInv,
           NEW h \in 0..reader.rows, QueueInv(h), EvalEvent
    PROVE  EvaluationOf(h) /\ Mapped
<1> DEFINE item == Head(todo).item
           time == IF Offline THEN item.time ELSE clock
           steps == EvaluationSteps(item.event, time)
<1>1. Doing("evaluate") /\ todo # <<>> /\ Head(todo).do = "evaluate" /\ config # <<>>
  BY DEF EvalEvent, Doing, Running
<1>2. Job = "evaluate" /\ Len(todo) = 1 /\ item = Pending
  BY <1>1, DoOf DEF DoFacts
<1>3. item \in EventItems
  BY <1>1, HeadIsAStep, StepKinds
<1>4. h > 0 /\ IsRow(item, h)
  BY <1>2 DEF QueueInv
<1>5. h \in 1..reader.rows /\ edm # "setup" /\ reader.rows \in Nat
  BY <1>4 DEF TypeInv, ReaderInv
<1>6. Mapped
  BY <1>5, MappedNow
<1>7. h \in 1..NumRows /\ ~Unparsable(Row(h))
  <2>1. NumRows \in Nat /\ reader.rows <= NumRows
    BY <1>6, FileTypes DEF Mapped, ReaderInv
  <2>2. QED
    BY <1>5, <2>1 DEF ReaderInv
<1>8. item.event = ReadEvent(Row(h)) /\ (~ByTheClock => item.time = Since(h))
  BY <1>4 DEF IsRow
<1>9. time \in Nat
  BY <1>3 DEF EventItems, TypeInv
<1>10. ByTheClock \/ TimeInfo(time) = MeantInfo(h)
  <2>1. SUFFICES ASSUME ~ByTheClock PROVE TimeInfo(time) = MeantInfo(h)
    OBVIOUS
  <2>2. Offline
    BY <1>6, <2>1, LineTypes DEF Mapped, ByTheClock, Offline
  <2>3. time = Since(h)
    BY <1>8, <2>1, <2>2
  <2>4. startTime = StartOf
    BY <1>1, <1>2, <2>2 DEF StartInv
  <2>5. QED
    BY <2>3, <2>4, Zenon DEF TimeInfo, MeantInfo
<1>11. /\ EvaluationSteps(ReadEvent(Row(h)), time) \in Seq(WorkSteps)
       /\ Matches(PendingLines(EvaluationSteps(ReadEvent(Row(h)), time)), FiringOf(h))
  <2> HIDE DEF time
  <2>1. QED
    BY <1>6, <1>7, <1>9, <1>10, EvaluationMatches
<1>12. steps \in Seq(WorkSteps) /\ Matches(PendingLines(steps), FiringOf(h))
  BY <1>8, <1>11, Zenon
<1>13. todo' = steps
  <2>1. todo' = steps \o Tail(todo)
    BY Zenon DEF EvalEvent, Offline
  <2>2. Tail(todo) = <<>>
    <3>1. todo \in Seq(StepSet)
      BY DEF TypeInv
    <3>2. Len(Tail(todo)) = 0 /\ Tail(todo) \in Seq(StepSet)
      BY <1>1, <1>2, <3>1, HeadIsAStep
    <3>3. QED
      BY <3>2, EmptySeq
  <2> HIDE DEF steps
  <2>3. steps \o <<>> = steps
    BY <1>12, ConcatEmptySeq
  <2>4. QED
    BY <2>1, <2>2, <2>3, Zenon
<1>14. steps \in Seq(StepSet)
  <2> HIDE DEF steps
  <2>1. QED
    BY <1>12, WorkStepsAreSteps, SeqMonotonic
<1>15. /\ Offline => lastTime <= item.time /\ lastTime' = item.time
       /\ ~Offline => lastTime' = lastTime
  BY DEF EvalEvent, Offline
<1> HIDE DEF steps, item
<1>16. QED
  BY <1>2, <1>3, <1>5, <1>6, <1>7, <1>12, <1>13, <1>14, <1>15 DEF EvaluationOf

LEMMA CountsType ==
    ASSUME NEW c \in [events : Nat, triggers : Nat]
    PROVE  /\ [c EXCEPT !.events = @ + 1] \in [events : Nat, triggers : Nat]
           /\ [c EXCEPT !.triggers = @ + 1] \in [events : Nat, triggers : Nat]
OBVIOUS

(***************************************************************************)
(* Types are kept.                                                         *)
(***************************************************************************)
LEMMA TypeStep ==
    ASSUME TypeInv, UnstartedInv, ReaderInv, TimerInv, TodoInv, StartInv, ScreenInv,
           NEW h \in 0..reader.rows, QueueInv(h), [Next]_vars
    PROVE  TypeInv'
<1> USE DEF source, main, display
<1>1. CASE UNCHANGED vars
  BY <1>1 DEF TypeInv, vars
<1>2. CASE BadArguments
  BY <1>2 DEF TypeInv, BadArguments, Ends
<1>3. CASE NoSuchColumn
  BY <1>3 DEF TypeInv, NoSuchColumn, Ends
<1>4. CASE ExitOnRow
  BY <1>4 DEF TypeInv, ExitOnRow, Ends
<1>5. CASE HungUp
  BY <1>5 DEF TypeInv, HungUp, Ends
<1>6. CASE NoStart
  BY <1>6 DEF TypeInv, NoStart, Ends
<1>7. CASE NotMonotonic
  BY <1>7 DEF TypeInv, NotMonotonic, Ends
<1>8. CASE Leave
  BY <1>8 DEF TypeInv, Leave, Ends
<1>9. CASE Configure
  <2>1. EventsLine \in LineSet /\ TriggersLine \in LineSet
    BY StatisticsLines
  <2>2. [do |-> "start"] \in StepSet
    BY DEF StepSet
  <2>3. <<EventsLine, TriggersLine>> \in Seq(LineSet)
    BY <2>1
  <2>4. screen' \in Seq(LineSet)
    <3>1. screen' \in {screen, <<EventsLine, TriggersLine>>}
      BY <1>9, Zenon DEF Configure
    <3>2. screen \in Seq(LineSet)
      BY DEF TypeInv
    <3>3. QED
      BY <2>3, <3>1, <3>2
  <2>5. todo' \in Seq(StepSet)
    <3>1. <<[do |-> "start"]>> \in Seq(StepSet) /\ <<>> \in Seq(StepSet)
      BY <2>2
    <3>2. todo' \in {<<>>, <<[do |-> "start"]>>}
      BY <1>9 DEF Configure
    <3>3. QED
      BY <3>1, <3>2
  <2>6. config' = Config(line) /\ ~Unreadable(line) /\ progress' \in {progress, "sleeps"}
    BY <1>9 DEF Configure
  <2>7. ~Unreadable(line)' /\ Config(line)' = Config(line)
    BY <1>9, <2>6 DEF Configure, Unreadable, Config
  <2>8. QED
    BY <1>9, <2>4, <2>5, <2>6, <2>7 DEF TypeInv, Configure
<1>10. CASE Setup
  <2>1. reader'.rows = 0 /\ reader'.timer \in {<<>>, <<0>>}
    BY <1>10 DEF Setup
  <2>2. reader' = [columns |-> reader'.columns, time |-> reader'.time,
                   rows |-> reader'.rows, timer |-> reader'.timer]
    BY <1>10 DEF Setup
  <2>3. <<>> \in Seq(Nat) /\ <<0>> \in Seq(Nat)
    OBVIOUS
  <2>4. reader'.rows \in Nat /\ reader'.timer \in Seq(Nat)
    <3>1. 0 \in Nat
      OBVIOUS
    <3>2. QED
      BY <2>1, <2>3, <3>1, Zenon
  <2>5. QED
    BY <1>10, <2>2, <2>4 DEF TypeInv, Setup
<1>11. CASE ReadRow
  <2>1. Reads /\ ~Unparsable(NextRow) /\ GetTime(NextRow).k = "time"
    BY <1>11 DEF ReadRow
  <2>2. Mapped
    BY <2>1, MappedNow DEF Reads
  <2> DEFINE item == [event |-> ReadEvent(NextRow), time |-> GetTime(NextRow).t]
             got == GetTime(NextRow)
             start == ReadTime(NextRow)
  <2>3. item \in EventItems /\ got.timer \in Seq(Nat)
    BY <2>1, <2>2, RowItemIs
  <2>4. /\ queue' = Append(queue, item)
        /\ reader' = [reader EXCEPT !.rows = @ + 1, !.timer = got.timer]
        /\ slot' = IF ~First THEN slot ELSE <<IF start.k = "time" THEN start.t ELSE 0>>
    BY <1>11 DEF ReadRow
  <2> HIDE DEF item
  <2>5. queue' \in Seq(EventItems \cup {EndItem})
    BY <2>3, <2>4 DEF TypeInv
  <2>6. start.k = "time" => start.t \in Nat
    <3>1. TimeRead(reader.rows + 1) /\ NextRow = Row(reader.rows + 1)
      BY <2>1, <2>2, NextRowIs, ReadTimeIs
    <3>2. QED
      BY <3>1 DEF TimeRead
  <2> HIDE DEF got, start
  <2>7. slot' \in Seq(Nat)
    <3> DEFINE t == IF start.k = "time" THEN start.t ELSE 0
    <3>1. t \in Nat
      BY <2>6
    <3> HIDE DEF t
    <3>2. <<t>> \in Seq(Nat) /\ slot \in Seq(Nat)
      BY <3>1 DEF TypeInv
    <3>3. QED
      BY <2>4, <3>2 DEF t
  <2>8. /\ reader'.rows = reader.rows + 1 /\ reader'.timer = got.timer
        /\ reader' = [columns |-> reader'.columns, time |-> reader'.time,
                      rows |-> reader'.rows, timer |-> reader'.timer]
    BY <2>4 DEF TypeInv
  <2>9. reader'.rows \in Nat /\ reader'.timer \in Seq(Nat)
    BY <2>3, <2>8 DEF TypeInv
  <2>10. UNCHANGED <<file, line, config, edm, main, display, clock>>
    BY <1>11 DEF ReadRow
  <2>11. QED
    BY <2>5, <2>7, <2>8, <2>9, <2>10 DEF TypeInv
<1>12. CASE PanicOnRow
  <2>1. queue' \in Seq(EventItems \cup {EndItem})
    <3>1. PICK sent \in 0..Len(queue) : queue' = SubSeq(queue, 1, sent)
      BY <1>12 DEF PanicOnRow
    <3>2. queue \in Seq(EventItems \cup {EndItem})
      BY DEF TypeInv
    <3>3. QED
      BY <3>1, <3>2
  <2>2. QED
    BY <1>12, <2>1 DEF TypeInv, PanicOnRow
<1>13. CASE EndOfFile
  <2>1. queue' \in Seq(EventItems \cup {EndItem})
    BY <1>13 DEF EndOfFile, TypeInv, EndItem
  <2>2. QED
    BY <1>13, <2>1 DEF TypeInv, EndOfFile
<1>14. CASE Receive
  <2>1. queue \in Seq(EventItems \cup {EndItem}) /\ queue # <<>>
    BY <1>14 DEF TypeInv, Receive
  <2>2. Head(queue) \in EventItems \cup {EndItem} /\ Tail(queue) \in Seq(EventItems \cup {EndItem})
    BY <2>1, HeadTailProperties, Zenon
  <2>3. todo' \in Seq(StepSet)
    <3>1. CASE Head(queue).event = <<>>
      BY <1>14, <3>1, EndStepsAreSteps DEF Receive
    <3>2. CASE Head(queue).event # <<>>
      <4>1. Head(queue) \in EventItems
        BY <2>2, <3>2 DEF EndItem
      <4>2. QED
        BY <1>14, <3>2, <4>1, EventStepsAreSteps DEF Receive
    <3>3. QED
      BY <3>1, <3>2
  <2>4. QED
    BY <1>14, <2>2, <2>3 DEF TypeInv, Receive
<1>15. CASE ReceiveStart
  <2>1. slot[1] \in Nat
    <3>1. slot \in Seq(Nat) /\ slot # <<>>
      BY <1>15 DEF TypeInv, ReceiveStart
    <3>2. QED
      BY <3>1, EmptySeq
  <2>2. Tail(todo) \in Seq(StepSet)
    BY <1>15, HeadIsAStep DEF ReceiveStart, Doing
  <2>3. <<>> \in Seq(Nat)
    OBVIOUS
  <2>4. QED
    BY <1>15, <2>1, <2>2, <2>3 DEF TypeInv, ReceiveStart, Rest
<1>16. CASE Prints
  <2>1. Doing("message") /\ todo' = Tail(todo)
    BY <1>16 DEF Prints, Rest
  <2>2. Message(Head(todo).kind) \in LineSet
    BY <2>1, NoteKind
  <2>3. Tail(todo) \in Seq(StepSet)
    BY <2>1, HeadIsAStep DEF Doing
  <2>4. Append(screen, Message(Head(todo).kind)) \in Seq(LineSet)
    BY <2>2, ScreenAppend
  <2>5. screen' \in {screen, Append(screen, Message(Head(todo).kind))}
    BY <1>16 DEF Prints, Emit
  <2>6. QED
    BY <1>16, <2>1, <2>3, <2>4, <2>5 DEF TypeInv, Prints
<1>17. CASE CountEvent
  <2>1. Tail(todo) \in Seq(StepSet)
    BY <1>17, HeadIsAStep DEF CountEvent, Doing
  <2>2. counts' \in [events : Nat, triggers : Nat]
    <3>1. counts \in [events : Nat, triggers : Nat]
      BY Zenon DEF TypeInv
    <3>2. counts' \in {counts, [counts EXCEPT !.events = @ + 1]}
      BY <1>17, Zenon DEF CountEvent
    <3>3. QED
      BY <3>1, <3>2, CountsType, Zenon
  <2>3. QED
    BY <1>17, <2>1, <2>2 DEF TypeInv, CountEvent, Rest
<1>18. CASE EvalEvent
  <2>1. EvaluationOf(h)
    BY <1>18, EvaluationIs
  <2>2. todo' \in Seq(StepSet)
    BY <2>1 DEF EvaluationOf
  <2>3. lastTime' \in Nat
    <3>1. Pending.time \in Nat
      BY <2>1 DEF EvaluationOf, EventItems
    <3>2. lastTime' \in {lastTime, Pending.time}
      BY <2>1 DEF EvaluationOf
    <3>3. QED
      BY <3>1, <3>2 DEF TypeInv
  <2>4. QED
    BY <1>18, <2>2, <2>3 DEF TypeInv, EvalEvent
<1>19. CASE Trigger
  <2>1. Doing("trigger") /\ todo' = Tail(todo)
    BY <1>19 DEF Trigger, Rest
  <2>2. TriggerLine \in LineSet
    BY <2>1, TriggerLineIs
  <2>3. Tail(todo) \in Seq(StepSet)
    BY <2>1, HeadIsAStep DEF Doing
  <2>4. Append(screen, TriggerLine) \in Seq(LineSet)
    BY <2>2, ScreenAppend
  <2>5. screen' \in {screen, Append(screen, TriggerLine)}
    BY <1>19 DEF Trigger, Emit, TriggerLine
  <2>6. counts' \in [events : Nat, triggers : Nat]
    <3>1. counts \in [events : Nat, triggers : Nat]
      BY Zenon DEF TypeInv
    <3>2. counts' \in {counts, [counts EXCEPT !.triggers = @ + 1]}
      BY <1>19, Zenon DEF Trigger
    <3>3. QED
      BY <3>1, <3>2, CountsType, Zenon
  <2>7. QED
    BY <1>19, <2>1, <2>3, <2>4, <2>5, <2>6 DEF TypeInv, Trigger
<1>20. CASE TerminateClears
  <2>1. Doing("clear") /\ todo' = Tail(todo) /\ lock = "free" /\ screen' = Cleared(screen)
    BY <1>20 DEF TerminateClears, Rest
  <2>2. Tail(todo) \in Seq(StepSet)
    BY <2>1, HeadIsAStep DEF Doing
  <2>3. Cleared(screen) = <<>>
    BY <2>1, TwoLines DEF Doing, Running
  <2>4. <<>> \in Seq(LineSet)
    OBVIOUS
  <2>5. QED
    BY <1>20, <2>1, <2>2, <2>3, <2>4 DEF TypeInv, TerminateClears
<1>21. CASE TerminateEvents
  <2>1. Tail(todo) \in Seq(StepSet)
    BY <1>21, HeadIsAStep DEF TerminateEvents, Doing
  <2>2. Append(screen, EventsLine) \in Seq(LineSet)
    BY StatisticsLines, ScreenAppend
  <2>3. QED
    BY <1>21, <2>1, <2>2 DEF TypeInv, TerminateEvents, Rest
<1>22. CASE TerminateTriggers
  <2>1. Tail(todo) \in Seq(StepSet)
    BY <1>22, HeadIsAStep DEF TerminateTriggers, Doing
  <2>2. Append(screen, TriggersLine) \in Seq(LineSet)
    BY StatisticsLines, ScreenAppend
  <2>3. QED
    BY <1>22, <2>1, <2>2 DEF TypeInv, TerminateTriggers, Rest
<1>23. CASE ProgressWakes
  <2>1. CASE done
    BY <1>23, <2>1 DEF TypeInv, ProgressWakes
  <2>2. CASE ~done
    <3>1. Cleared(screen) = <<>>
      BY <1>23, <2>2, TwoLines DEF ProgressWakes, Running
    <3>2. <<>> \in Seq(LineSet)
      OBVIOUS
    <3>3. QED
      BY <1>23, <2>2, <3>1, <3>2 DEF TypeInv, ProgressWakes
  <2>3. QED
    BY <2>1, <2>2
<1>24. CASE ProgressEvents
  <2>1. Append(screen, EventsLine) \in Seq(LineSet)
    BY StatisticsLines, ScreenAppend
  <2>2. QED
    BY <1>24, <2>1 DEF TypeInv, ProgressEvents
<1>25. CASE ProgressTriggers
  <2>1. Append(screen, TriggersLine) \in Seq(LineSet)
    BY StatisticsLines, ScreenAppend
  <2>2. QED
    BY <1>25, <2>1 DEF TypeInv, ProgressTriggers
<1>26. CASE Tick
  BY <1>26 DEF TypeInv, Tick
<1>27. CASE Stopped
  BY <1>27 DEF TypeInv, Stopped, vars
<1>28. QED
  BY <1>1, <1>2, <1>3, <1>4, <1>5, <1>6, <1>7, <1>8, <1>9, <1>10, <1>11, <1>12, <1>13, <1>14,
     <1>15, <1>16, <1>17, <1>18, <1>19, <1>20, <1>21, <1>22, <1>23, <1>24, <1>25, <1>26, <1>27
  DEF Next

-----------------------------------------------------------------------------
(* The reader.                                                             *)

LEMMA ConfigIsSome == ASSUME NEW l PROVE Config(l) # <<>>
BY DEF Config

(* Nothing starts before the arguments are read.                           *)
LEMMA UnstartedStep ==
    ASSUME UnstartedInv, [Next]_vars
    PROVE  UnstartedInv'
<1>1. CASE config # <<>>
  <2>1. config' = config
    BY <1>1, ConfigStays DEF Configure
  <2>2. QED
    BY <1>1, <2>1 DEF UnstartedInv
<1>2. CASE config = <<>>
  <2>1. CASE Configure
    <3>1. config' # <<>>
      <4>1. config' = Config(line)
        BY <2>1, Zenon DEF Configure
      <4>2. QED
        BY <4>1, ConfigIsSome
    <3>2. QED
      BY <3>1 DEF UnstartedInv
  <2>2. CASE ~Configure
    <3>1. BadArguments \/ Stopped \/ UNCHANGED vars
      BY <1>2, <2>2 DEF Next, Setup, NoSuchColumn, ReadRow, ExitOnRow, PanicOnRow, Reads,
         EndOfFile, Receive, HungUp, ReceiveStart, NoStart, Prints, CountEvent, EvalEvent,
         NotMonotonic, Trigger, TerminateClears, TerminateEvents, TerminateTriggers, Leave,
         Doing, ProgressWakes, ProgressEvents, ProgressTriggers, Tick, Running
    <3>2. UNCHANGED <<config, edm, slot, queue, todo, screen, lock, done, progress, lastTime,
                      counts, reader>>
      BY <3>1 DEF BadArguments, Ends, Stopped, vars, source, main, display
    <3>3. QED
      BY <1>2, <3>2 DEF UnstartedInv
  <2>3. QED
    BY <2>1, <2>2
<1>3. QED
  BY <1>1, <1>2

(* The steps that change what the reader has.                              *)
LEMMA ReadingSteps ==
    ASSUME [Next]_vars
    PROVE  \/ Configure \/ Setup \/ ReadRow \/ PanicOnRow \/ EndOfFile
           \/ /\ UNCHANGED <<config, edm, reader>>
              /\ queue' = queue \/ Receive
BY DEF Next, vars, source, main, display, Ends, BadArguments,
       NoSuchColumn, ExitOnRow, HungUp,
       ReceiveStart, NoStart, Prints, CountEvent, EvalEvent, NotMonotonic, Trigger,
       TerminateClears, TerminateEvents, TerminateTriggers, Leave, ProgressWakes,
       ProgressEvents, ProgressTriggers, Tick, Stopped, Receive

(* Every step keeps what the reader knows.                                 *)
LEMMA ReaderStep ==
    ASSUME TypeInv, UnstartedInv, ReaderInv, TimerInv, [Next]_vars
    PROVE  ReaderInv'
<1>1. file' = file /\ line' = line /\ NumRows' = NumRows /\ \A r : Row(r)' = Row(r)
  BY FileStays, FrozenFile
<1>2. CASE Configure
  <2>1. edm = "setup" /\ edm' = "setup" /\ reader' = reader /\ queue' = queue
    BY <1>2 DEF Configure, UnstartedInv, source
  <2>2. reader.rows = 0 /\ queue = <<>> /\ 0 <= NumRows
    BY <2>1 DEF ReaderInv
  <2>3. 1..reader'.rows = {}
    BY <2>1, <2>2
  <2>4. QED
    BY <1>1, <2>1, <2>2, <2>3 DEF ReaderInv
<1>3. CASE Setup
  <2>1. /\ edm = "setup" /\ edm' = "reads" /\ queue' = queue /\ config' = config
        /\ reader'.columns = ColumnOf(file.header)
        /\ reader'.time = TimeColumn(file.header) /\ reader'.rows = 0
        /\ \A i \in DOMAIN Inputs : ColumnOf(file.header)[i] # 0
    BY <1>3 DEF Setup
  <2>2. 1..reader'.rows = {} /\ 0 <= NumRows
    BY <2>1 DEF ReaderInv
  <2>3. /\ ColumnOf(file.header)' = ColumnOf(file.header)
        /\ TimeColumn(file.header)' = TimeColumn(file.header)
    BY <1>1, <2>1 DEF ColumnOf, TimeColumn
  <2>4. QED
    BY <1>1, <2>1, <2>2, <2>3 DEF ReaderInv
<1>4. ASSUME edm # "setup", config' = config, reader'.columns = reader.columns,
             reader'.time = reader.time, edm' # "setup"
      PROVE  /\ edm' # "setup" =>
                   /\ reader'.columns = ColumnOf(file'.header)
                   /\ reader'.time = TimeColumn(file.header)'
                   /\ \A i \in DOMAIN Inputs : reader'.columns[i] # 0
             /\ \A row : Unparsable(row)' <=> Unparsable(row)
  <2>1. TimeColumn(file.header)' = TimeColumn(file.header)
    BY <1>1, <1>4 DEF TimeColumn
  <2>2. \A row : Unparsable(row)' <=> Unparsable(row)
    BY <1>1, <1>4, FrozenRows
  <2>3. QED
    BY <1>1, <1>4, <2>1, <2>2 DEF ReaderInv
<1>5. CASE ReadRow
  <2>1. Reads /\ ~Unparsable(NextRow) /\ edm # "setup"
    BY <1>5 DEF ReadRow, Reads
  <2>2. /\ reader' = [reader EXCEPT !.rows = @ + 1, !.timer = GetTime(NextRow).timer]
        /\ config' = config /\ edm' = edm
    BY <1>5 DEF ReadRow
  <2>3. /\ reader'.rows = reader.rows + 1 /\ reader'.columns = reader.columns
        /\ reader'.time = reader.time
    BY <2>2 DEF TypeInv
  <2>4. Mapped
    BY <2>1, MappedNow
  <2>5. /\ reader.rows \in 0..NumRows - 1 /\ edm = "reads" /\ NumRows \in Nat
        /\ NextRow = Row(reader.rows + 1)
    BY <2>1, <2>4, NextRowIs
  <2>6. reader.rows + 1 <= NumRows
    BY <2>5
  <2>7. \A r \in 1..reader.rows + 1 : ~Unparsable(Row(r))
    <3>1. \A r \in 1..reader.rows : ~Unparsable(Row(r))
      BY DEF ReaderInv
    <3>2. \A r \in 1..reader.rows + 1 : r \in 1..reader.rows \/ r = reader.rows + 1
      BY <2>5
    <3>3. QED
      BY <2>1, <2>5, <3>1, <3>2
  <2>8. \A row : Unparsable(row)' <=> Unparsable(row)
    BY <1>1, <2>2, <2>3, FrozenRows
  <2>9. /\ reader'.columns = ColumnOf(file'.header)
        /\ reader'.time = TimeColumn(file.header)'
        /\ \A i \in DOMAIN Inputs : reader'.columns[i] # 0
    BY <1>4, <2>1, <2>2, <2>3
  <2>10. QED
    BY <1>1, <2>2, <2>3, <2>5, <2>6, <2>7, <2>8, <2>9 DEF ReaderInv
<1>6. CASE PanicOnRow \/ EndOfFile
  <2>1. /\ edm # "setup" /\ edm' \in {"panicked", "ended"} /\ config' = config
        /\ reader' = reader /\ (edm' = "ended" => reader.rows = NumRows)
    BY <1>6 DEF PanicOnRow, EndOfFile, Reads, NumRows
  <2>2. QED
    BY <1>1, <1>4, <2>1 DEF ReaderInv
<1>7. CASE UNCHANGED <<config, edm, reader>> /\ (queue' = queue \/ Receive)
  <2>1. edm = "setup" => queue' = queue
    BY <1>7 DEF ReaderInv, Receive
  <2>2. CASE edm = "setup"
    <3>1. reader.rows = 0 /\ queue = <<>>
      BY <2>2 DEF ReaderInv
    <3>2. 1..reader'.rows = {}
      BY <1>7, <3>1
    <3>3. QED
      BY <1>1, <1>7, <2>1, <2>2, <3>1, <3>2 DEF ReaderInv
  <2>3. CASE edm # "setup"
    BY <1>1, <1>4, <1>7, <2>3 DEF ReaderInv
  <2>4. QED
    BY <2>2, <2>3
<1>8. QED
  BY <1>2, <1>3, <1>5, <1>6, <1>7, ReadingSteps

(* Every step keeps the timer at the last row.                             *)
LEMMA TimerStep ==
    ASSUME TypeInv, UnstartedInv, ReaderInv, TimerInv, [Next]_vars
    PROVE  TimerInv'
<1>1. file' = file /\ line' = line
  BY FileStays
<1>2. ASSUME config' = config
      PROVE  /\ \A r : HasTime(r)' <=> HasTime(r)
             /\ \A r : MeantTime(r)' = MeantTime(r)
             /\ TimeCells' = TimeCells
             /\ Offline' <=> Offline
  <2>1. Offline' <=> Offline
    BY <1>2 DEF Offline
  <2>2. QED
    BY <1>1, <1>2, <2>1, FrozenTimes
<1>3. CASE Configure
  <2>1. edm' = "setup"
    BY <1>3 DEF Configure, UnstartedInv, source
  <2>2. QED
    BY <2>1 DEF TimerInv
<1>4. CASE Setup
  <2>1. /\ config' = config /\ reader'.rows = 0
        /\ reader'.timer = IF config.timer = "Delayed" THEN <<0>> ELSE <<>>
        /\ config # <<>>
    BY <1>4 DEF Setup, Running
  <2>2. 1..reader'.rows = {} /\ ~(reader'.rows > 0)
    BY <2>1
  <2>3. config.timer = "Delayed" => 0 * config.delay[1] = 0
    <3>1. config.timer = "Delayed" => config.delay[1] \in Nat
      BY <2>1, LineTypes DEF TypeInv
    <3>2. QED
      BY <3>1
  <2>4. QED
    BY <2>1, <2>2, <2>3 DEF TimerInv
<1>5. CASE ReadRow
  <2>1. Reads /\ ~Unparsable(NextRow) /\ edm # "setup"
    BY <1>5 DEF ReadRow, Reads
  <2>2. /\ reader' = [reader EXCEPT !.rows = @ + 1, !.timer = GetTime(NextRow).timer]
        /\ config' = config /\ edm' = edm /\ GetTime(NextRow).k = "time"
        /\ First => ReadTime(NextRow).k \in {"time", "none"}
    BY <1>5 DEF ReadRow
  <2>3. reader'.rows = reader.rows + 1 /\ reader'.timer = GetTime(NextRow).timer
    BY <2>2 DEF TypeInv
  <2>4. Mapped
    BY <2>1, MappedNow
  <2> DEFINE r == reader.rows + 1
  <2>5. /\ reader.rows \in 0..NumRows - 1 /\ edm = "reads" /\ NumRows \in Nat
        /\ NextRow = Row(r) /\ r \in 1..NumRows
    BY <2>1, <2>4, NextRowIs
  <2>6. TimeGot(r)
    BY <2>4, <2>5, GetTimeIs
  <2>7. config.timer = "Delayed" => reader'.timer = <<r * config.delay[1]>>
    BY <2>2, <2>3, <2>5, <2>6 DEF TimeGot
  <2>8. config.timer = "FromFile" =>
            /\ reader'.timer = <<MeantTime(1)>>
            /\ HasTime(1) /\ HasTime(r) /\ MeantTime(1) <= MeantTime(r)
    BY <2>2, <2>3, <2>5, <2>6 DEF TimeGot
  <2>9. config.timer = "FromFile" =>
            \A s \in 1..r : HasTime(s) /\ MeantTime(1) <= MeantTime(s)
    <3>1. config.timer = "FromFile" =>
            \A s \in 1..reader.rows : HasTime(s) /\ MeantTime(1) <= MeantTime(s)
      BY <2>1 DEF TimerInv
    <3>2. \A s \in 1..r : s \in 1..reader.rows \/ s = r
      BY <2>5
    <3> HIDE DEF r
    <3>3. QED
      BY <2>8, <3>1, <3>2
  <2>10. Offline => TimeCells = {} \/ HasTime(1)
    <3>1. CASE reader.rows = 0
      <4>1. Offline => ReadTime(Row(1)).k \in {"time", "none"}
        BY <2>2, <2>5, <3>1 DEF First, Offline
      <4>2. 1 \in 1..NumRows
        BY <2>5
      <4>3. QED
        BY <2>4, <4>1, <4>2, StartIs
    <3>2. CASE reader.rows # 0
      <4>1. reader.rows > 0
        BY <2>5, <3>2
      <4>2. QED
        BY <2>1, <4>1 DEF TimerInv
    <3>3. QED
      BY <3>1, <3>2
  <2>11. reader'.rows # 0 /\ reader'.rows = r
    BY <2>3, <2>5
  <2> HIDE DEF r
  <2>12. QED
    BY <1>2, <2>2, <2>7, <2>8, <2>9, <2>10, <2>11 DEF TimerInv
<1>6. CASE PanicOnRow \/ EndOfFile
  <2>1. edm # "setup" /\ config' = config /\ reader' = reader
    BY <1>6 DEF PanicOnRow, EndOfFile, Reads
  <2>2. QED
    BY <1>2, <2>1 DEF TimerInv
<1>7. CASE UNCHANGED <<config, edm, reader>>
  BY <1>2, <1>7 DEF TimerInv
<1>8. QED
  BY <1>3, <1>4, <1>5, <1>6, <1>7, ReadingSteps

-----------------------------------------------------------------------------
(* The steps of the main thread.                                           *)

(* Two sequences, element by element.                                      *)
LEMMA Joined ==
    ASSUME NEW X, NEW s \in Seq(X), NEW t \in Seq(X), NEW u \in Seq(X),
           Len(u) = Len(s) + Len(t),
           \A i \in 1..Len(s) : u[i] = s[i],
           \A i \in 1..Len(t) : u[Len(s) + i] = t[i]
    PROVE  s \o t = u
<1>1. s \o t \in Seq(X) /\ Len(s \o t) = Len(u)
  BY ConcatProperties
<1>2. ASSUME NEW i \in 1..Len(u) PROVE (s \o t)[i] = u[i]
  <2>1. CASE i <= Len(s)
    BY <2>1, ConcatProperties
  <2>2. CASE i > Len(s)
    <3>1. i - Len(s) \in 1..Len(t) /\ Len(s) + (i - Len(s)) = i
      BY <2>2
    <3>2. u[i] = t[i - Len(s)]
      BY <3>1
    <3>3. (s \o t)[i] = t[i - Len(s)]
      BY <2>2, ConcatProperties
    <3>4. QED
      BY <3>2, <3>3
  <2>3. QED
    BY <2>1, <2>2
<1>3. QED
  BY <1>1, <1>2, SeqEqual

LEMMA EndStepsAre ==
    EndSteps =
        IF Reports1 THEN <<Note("Debug"), Note("Outputs"), [do |-> "clear"],
                           [do |-> "events"], [do |-> "triggers"], [do |-> "leave"]>>
        ELSE <<Note("Debug"), Note("Outputs"), [do |-> "leave"]>>
<1> DEFINE d == Note("Debug") o == Note("Outputs") c == [do |-> "clear"]
           e == [do |-> "events"] t == [do |-> "triggers"] l == [do |-> "leave"]
           X == {d, o, c, e, t, l}
<1>1. EndSteps = IF Offline /\ Counts THEN (<<d, o>> \o <<c, e, t>>) \o <<l>>
                 ELSE (<<d, o>> \o <<>>) \o <<l>>
  BY Zenon DEF EndSteps, Offline
<1> HIDE DEF d, o, c, e, t, l
<1>2. <<d, o>> \o <<c, e, t>> = <<d, o, c, e, t>>
  <2>1. <<d, o>> \in Seq(X) /\ <<c, e, t>> \in Seq(X) /\ <<d, o, c, e, t>> \in Seq(X)
    OBVIOUS
  <2> HIDE DEF X
  <2>2. Len(<<d, o, c, e, t>>) = Len(<<d, o>>) + Len(<<c, e, t>>)
    OBVIOUS
  <2>3. \A i \in 1..Len(<<d, o>>) : <<d, o, c, e, t>>[i] = <<d, o>>[i]
    OBVIOUS
  <2>4. \A i \in 1..Len(<<c, e, t>>) :
           <<d, o, c, e, t>>[Len(<<d, o>>) + i] = <<c, e, t>>[i]
    OBVIOUS
  <2>5. QED
    BY <2>1, <2>2, <2>3, <2>4, Joined
<1>3. <<d, o, c, e, t>> \o <<l>> = <<d, o, c, e, t, l>>
  <2>1. <<d, o, c, e, t>> \in Seq(X) /\ <<l>> \in Seq(X) /\ <<d, o, c, e, t, l>> \in Seq(X)
    OBVIOUS
  <2> HIDE DEF X
  <2>2. Len(<<d, o, c, e, t, l>>) = Len(<<d, o, c, e, t>>) + Len(<<l>>)
    OBVIOUS
  <2>3. \A i \in 1..Len(<<d, o, c, e, t>>) : <<d, o, c, e, t, l>>[i] = <<d, o, c, e, t>>[i]
    OBVIOUS
  <2>4. \A i \in 1..Len(<<l>>) :
           <<d, o, c, e, t, l>>[Len(<<d, o, c, e, t>>) + i] = <<l>>[i]
    OBVIOUS
  <2>5. QED
    BY <2>1, <2>2, <2>3, <2>4, Joined
<1>4. <<d, o>> \o <<l>> = <<d, o, l>>
  <2>1. <<d, o>> \in Seq(X) /\ <<l>> \in Seq(X) /\ <<d, o, l>> \in Seq(X)
    OBVIOUS
  <2> HIDE DEF X
  <2>2. Len(<<d, o, l>>) = Len(<<d, o>>) + Len(<<l>>)
    OBVIOUS
  <2>3. \A i \in 1..Len(<<d, o>>) : <<d, o, l>>[i] = <<d, o>>[i]
    OBVIOUS
  <2>4. \A i \in 1..Len(<<l>>) :
           <<d, o, l>>[Len(<<d, o>>) + i] = <<l>>[i]
    OBVIOUS
  <2>5. QED
    BY <2>1, <2>2, <2>3, <2>4, Joined
<1>5. <<d, o>> \o <<>> = <<d, o>>
  OBVIOUS
<1>6. QED
  BY <1>1, <1>2, <1>3, <1>4, <1>5, Zenon DEF Reports1, d, o, c, e, t, l

LEMMA EventStepsAre ==
    ASSUME NEW item
    PROVE  EventSteps(item) =
        IF Offline
        THEN <<Note("Debug"), Note("Debug"), [do |-> "count"],
               [do |-> "evaluate", item |-> item]>>
        ELSE <<Note("Debug"), [do |-> "count"], [do |-> "evaluate", item |-> item]>>
<1> DEFINE d == Note("Debug") c == [do |-> "count"] v == [do |-> "evaluate", item |-> item]
           X == {d, c, v}
<1>1. EventSteps(item) = IF Offline THEN (<<d>> \o <<d>>) \o <<c, v>>
                         ELSE (<<d>> \o <<>>) \o <<c, v>>
  BY Zenon DEF EventSteps, Offline
<1> HIDE DEF d, c, v
<1>2. <<d>> \o <<d>> = <<d, d>>
  <2>1. <<d>> \in Seq(X) /\ <<d>> \in Seq(X) /\ <<d, d>> \in Seq(X)
    OBVIOUS
  <2> HIDE DEF X
  <2>2. Len(<<d, d>>) = Len(<<d>>) + Len(<<d>>)
    OBVIOUS
  <2>3. \A i \in 1..Len(<<d>>) : <<d, d>>[i] = <<d>>[i]
    OBVIOUS
  <2>4. \A i \in 1..Len(<<d>>) :
           <<d, d>>[Len(<<d>>) + i] = <<d>>[i]
    OBVIOUS
  <2>5. QED
    BY <2>1, <2>2, <2>3, <2>4, Joined
<1>3. <<d, d>> \o <<c, v>> = <<d, d, c, v>>
  <2>1. <<d, d>> \in Seq(X) /\ <<c, v>> \in Seq(X) /\ <<d, d, c, v>> \in Seq(X)
    OBVIOUS
  <2> HIDE DEF X
  <2>2. Len(<<d, d, c, v>>) = Len(<<d, d>>) + Len(<<c, v>>)
    OBVIOUS
  <2>3. \A i \in 1..Len(<<d, d>>) : <<d, d, c, v>>[i] = <<d, d>>[i]
    OBVIOUS
  <2>4. \A i \in 1..Len(<<c, v>>) :
           <<d, d, c, v>>[Len(<<d, d>>) + i] = <<c, v>>[i]
    OBVIOUS
  <2>5. QED
    BY <2>1, <2>2, <2>3, <2>4, Joined
<1>4. <<d>> \o <<c, v>> = <<d, c, v>>
  <2>1. <<d>> \in Seq(X) /\ <<c, v>> \in Seq(X) /\ <<d, c, v>> \in Seq(X)
    OBVIOUS
  <2> HIDE DEF X
  <2>2. Len(<<d, c, v>>) = Len(<<d>>) + Len(<<c, v>>)
    OBVIOUS
  <2>3. \A i \in 1..Len(<<d>>) : <<d, c, v>>[i] = <<d>>[i]
    OBVIOUS
  <2>4. \A i \in 1..Len(<<c, v>>) :
           <<d, c, v>>[Len(<<d>>) + i] = <<c, v>>[i]
    OBVIOUS
  <2>5. QED
    BY <2>1, <2>2, <2>3, <2>4, Joined
<1>5. <<d>> \o <<>> = <<d>>
  OBVIOUS
<1>6. QED
  BY <1>1, <1>2, <1>3, <1>4, <1>5, Zenon DEF d, c, v

(***************************************************************************)
(* What is received: the end, or the event of a row.                       *)
(***************************************************************************)
ReceivesEnd ==
    /\ Head(queue) = EndItem
    /\ Job' = "leave" /\ Len(todo') = IF Reports1 THEN 6 ELSE 3
    /\ \A n \in 1..Len(todo') : todo'[n] = EndStep(Len(todo') - n)
ReceivesEvent ==
    /\ Head(queue) \in EventItems
    /\ Job' = "evaluate" /\ Len(todo') \in {3, 4} /\ Pending' = Head(queue)
    /\ \A n \in 1..Len(todo') - 1 :
           todo'[n] = IF n = Len(todo') - 1 THEN [do |-> "count"] ELSE Note("Debug")

(* What is received is the end or an event.                                *)
LEMMA ReceiveIs ==
    ASSUME TypeInv, Receive
    PROVE  ReceivesEnd \/ ReceivesEvent
<1>1. Head(queue) \in EventItems \cup {EndItem}
  <2>1. queue \in Seq(EventItems \cup {EndItem}) /\ queue # <<>>
    BY DEF TypeInv, Receive
  <2>2. QED
    BY <2>1, HeadTailProperties, Zenon
<1>2. CASE Head(queue).event = <<>>
  <2>1. Head(queue) = EndItem
    <3>1. SUFFICES ASSUME Head(queue) \in EventItems PROVE FALSE
      BY <1>1
    <3>2. Head(queue).event \in [DOMAIN Inputs -> Cells]
      BY <3>1 DEF EventItems
    <3>3. DOMAIN Inputs = {}
      BY <1>2, <3>2
    <3>4. QED
      BY <3>3, InputsAssumption
  <2>2. todo' = EndSteps
    BY <1>2 DEF Receive
  <2>3. CASE Reports1
    <3>1. todo' = <<Note("Debug"), Note("Outputs"), [do |-> "clear"],
                    [do |-> "events"], [do |-> "triggers"], [do |-> "leave"]>>
      BY <2>2, <2>3, EndStepsAre
    <3>2. Len(todo') = 6 /\ todo'[6].do = "leave"
      BY <3>1
    <3>3. todo' # <<>>
      BY <3>2
    <3>4. Job' = "leave"
      BY <3>2, <3>3, Zenon DEF Job, JobOf
    <3>5. ASSUME NEW n \in 1..6 PROVE todo'[n] = EndStep(6 - n)
      <4>1. CASE n = 1
        BY <2>3, <3>1, <4>1 DEF EndStep
      <4>2. CASE n = 2
        BY <2>3, <3>1, <4>2 DEF EndStep
      <4>3. CASE n = 3
        BY <2>3, <3>1, <4>3 DEF EndStep
      <4>4. CASE n = 4
        BY <2>3, <3>1, <4>4 DEF EndStep
      <4>5. CASE n = 5
        BY <2>3, <3>1, <4>5 DEF EndStep
      <4>6. CASE n = 6
        BY <2>3, <3>1, <4>6 DEF EndStep
      <4>7. QED
        BY <4>1, <4>2, <4>3, <4>4, <4>5, <4>6
    <3>6. QED
      BY <2>1, <2>3, <3>2, <3>4, <3>5 DEF ReceivesEnd
  <2>4. CASE ~Reports1
    <3>1. todo' = <<Note("Debug"), Note("Outputs"), [do |-> "leave"]>>
      BY <2>2, <2>4, EndStepsAre
    <3>2. Len(todo') = 3 /\ todo'[3].do = "leave"
      BY <3>1
    <3>3. todo' # <<>>
      BY <3>2
    <3>4. Job' = "leave"
      BY <3>2, <3>3, Zenon DEF Job, JobOf
    <3>5. ASSUME NEW n \in 1..3 PROVE todo'[n] = EndStep(3 - n)
      <4>1. CASE n = 1
        BY <2>4, <3>1, <4>1 DEF EndStep
      <4>2. CASE n = 2
        BY <2>4, <3>1, <4>2 DEF EndStep
      <4>3. CASE n = 3
        BY <2>4, <3>1, <4>3 DEF EndStep
      <4>4. QED
        BY <4>1, <4>2, <4>3
    <3>6. QED
      BY <2>1, <2>4, <3>2, <3>4, <3>5 DEF ReceivesEnd
  <2>5. QED
    BY <2>3, <2>4
<1>3. CASE Head(queue).event # <<>>
  <2> DEFINE item == Head(queue)
  <2>1. item \in EventItems
    BY <1>1, <1>3 DEF EndItem
  <2>2. todo' = EventSteps(item)
    BY <1>3 DEF Receive
  <2> HIDE DEF item
  <2>3. CASE Offline
    <3>1. todo' = <<Note("Debug"), Note("Debug"), [do |-> "count"],
                    [do |-> "evaluate", item |-> item]>>
      BY <2>2, <2>3, EventStepsAre
    <3>2. Len(todo') = 4 /\ todo'[4].do = "evaluate" /\ todo'[4].item = item
      BY <3>1
    <3>3. todo' # <<>>
      BY <3>2
    <3>4. Job' = "evaluate" /\ Pending' = item
      BY <3>2, <3>3, Zenon DEF Job, JobOf, Pending
    <3>5. \A n \in 1..3 : todo'[n] = IF n = 3 THEN [do |-> "count"] ELSE Note("Debug")
      BY <3>1
    <3>6. QED
      BY <2>1, <3>2, <3>4, <3>5 DEF ReceivesEvent, item
  <2>4. CASE ~Offline
    <3>1. todo' = <<Note("Debug"), [do |-> "count"], [do |-> "evaluate", item |-> item]>>
      BY <2>2, <2>4, EventStepsAre
    <3>2. Len(todo') = 3 /\ todo'[3].do = "evaluate" /\ todo'[3].item = item
      BY <3>1
    <3>3. todo' # <<>>
      BY <3>2
    <3>4. Job' = "evaluate" /\ Pending' = item
      BY <3>2, <3>3, Zenon DEF Job, JobOf, Pending
    <3>5. \A n \in 1..2 : todo'[n] = IF n = 2 THEN [do |-> "count"] ELSE Note("Debug")
      BY <3>1
    <3>6. QED
      BY <2>1, <3>2, <3>4, <3>5 DEF ReceivesEvent, item
  <2>5. QED
    BY <2>3, <2>4
<1>4. QED
  BY <1>2, <1>3

(***************************************************************************)
(* A step is done.                                                         *)
(***************************************************************************)
Done1 ==
    LET n == Len(todo)
    IN  /\ n \in Nat \ {0} /\ Len(todo') = n - 1
        /\ \A k \in 1..n - 1 : todo'[k] = todo[k + 1]
        /\ n = 1 => Job' = "idle" /\ todo' = <<>>
        /\ n # 1 => Job' = Job /\ Pending' = Pending

(* What is left once the first step is done.                               *)
LEMMA DoneIs ==
    ASSUME TypeInv, todo # <<>>, todo' = Tail(todo)
    PROVE  Done1
<1> DEFINE n == Len(todo)
<1>1. todo \in Seq(StepSet)
  BY DEF TypeInv
<1>2. n \in Nat \ {0}
  BY <1>1, EmptySeq
<1>3. Len(todo') = n - 1 /\ \A k \in 1..n - 1 : todo'[k] = todo[k + 1]
  BY <1>1, <1>2
<1>4. todo' \in Seq(StepSet)
  BY HeadIsAStep
<1> HIDE DEF n
<1>5. CASE n = 1
  <2>1. todo' = <<>>
    BY <1>3, <1>4, <1>5, EmptySeq
  <2>2. Job' = "idle"
    BY <2>1 DEF Job, JobOf
  <2>3. QED
    BY <1>2, <1>3, <1>5, <2>1, <2>2 DEF Done1, n
<1>6. CASE n # 1
  <2>1. n - 1 \in 1..n - 1 /\ (n - 1) + 1 = n /\ n - 1 # 0
    BY <1>2, <1>6
  <2>2. todo'[n - 1] = todo[n]
    <3>1. todo'[n - 1] = todo[(n - 1) + 1]
      BY <1>3, <2>1, Zenon
    <3>2. QED
      BY <2>1, <3>1, Zenon
  <2>3. todo' # <<>>
    BY <1>3, <2>1
  <2>4. todo'[Len(todo')] = todo[Len(todo)]
    BY <1>3, <2>2, Zenon DEF n
  <2>5. Job' = Job /\ Pending' = Pending
    BY <2>3, <2>4, Zenon DEF Job, JobOf, Pending
  <2>6. QED
    BY <1>2, <1>3, <1>6, <2>5 DEF Done1, n
<1>7. QED
  BY <1>5, <1>6

TodoSteps ==
    \/ Configure \/ Receive \/ EvalEvent
    \/ /\ todo # <<>> /\ todo' = Tail(todo) /\ config' = config /\ config # <<>>
       /\ UNCHANGED <<queue, edm, reader>>
    \/ UNCHANGED <<todo, config>>

(* The steps that change what the main thread has to do.                   *)
LEMMA TodoStepsAre == ASSUME [Next]_vars PROVE TodoSteps
BY DEF TodoSteps, Next, vars, source, main, display, Ends, BadArguments, Setup, ReadRow,
       PanicOnRow, EndOfFile, NoSuchColumn, ExitOnRow, HungUp, Doing, Rest, Running,
       ReceiveStart, NoStart, Prints, CountEvent, NotMonotonic, Trigger,
       TerminateClears, TerminateEvents, TerminateTriggers, Leave, ProgressWakes,
       ProgressEvents, ProgressTriggers, Tick, Stopped

(* What depends on the configuration alone stays.                          *)
LEMMA FrozenSteps ==
    ASSUME config' = config
    PROVE  /\ Reports1' <=> Reports1
           /\ Offline' <=> Offline
           /\ Counts' <=> Counts
           /\ Shown' <=> Shown
           /\ \A n : EndStep(n)' = EndStep(n)
           /\ \A v : Note(v)' = Note(v)
<1>1. /\ Reports1' <=> Reports1
      /\ Offline' <=> Offline
      /\ Counts' <=> Counts
      /\ Shown' <=> Shown
  BY DEF Reports1, Offline, Counts, Shown
<1>2. \A v : Note(v)' = Note(v)
  BY DEF Note
<1>3. \A n : EndStep(n)' = EndStep(n)
  BY <1>1, <1>2, Zenon DEF EndStep
<1>4. QED
  BY <1>1, <1>2, <1>3

(***************************************************************************)
(* What the main thread is to do, case by case.                            *)
(***************************************************************************)
EvaluateSteps ==
    \A n \in 1..Len(todo) - 1 :
        todo[n] = IF n = Len(todo) - 1 THEN [do |-> "count"] ELSE Note("Debug")
LeaveSteps ==
    /\ Len(todo) <= IF Reports1 THEN 6 ELSE 3
    /\ \A n \in 1..Len(todo) : todo[n] = EndStep(Len(todo) - n)
OtherSteps == \A n \in 1..Len(todo) : todo[n] \in WorkSteps

(* The invariant of the pending steps, by what the main thread is busy with.*)
LEMMA TodoInvIs ==
    TodoInv <=>
        /\ Job = "start" => Len(todo) = 1 /\ Offline
        /\ Job = "evaluate" => EvaluateSteps
        /\ Job = "leave" => LeaveSteps
        /\ Job \notin {"start", "evaluate", "leave"} => OtherSteps
BY DEF TodoInv, EvaluateSteps, LeaveSteps, OtherSteps, WorkSteps

LEMMA TodoInvNext ==
    ASSUME Job' = "start" => Len(todo') = 1 /\ Offline',
           Job' = "evaluate" => EvaluateSteps',
           Job' = "leave" => LeaveSteps',
           Job' \notin {"start", "evaluate", "leave"} => OtherSteps'
    PROVE  TodoInv'
BY DEF TodoInv, EvaluateSteps, LeaveSteps, OtherSteps, WorkSteps

LEMMA FrozenTodo ==
    ASSUME config' = config, todo' = todo
    PROVE  /\ Job' = Job /\ Pending' = Pending
           /\ TodoInv' <=> TodoInv
<1>1. Job' = Job /\ Pending' = Pending
  BY DEF Job, Pending
<1>2. (Reports1' <=> Reports1) /\ (Offline' <=> Offline)
  BY FrozenSteps
<1>3. (\A n : EndStep(n)' = EndStep(n)) /\ (\A v : Note(v)' = Note(v))
  BY FrozenSteps
<1>4. QED
  BY <1>1, <1>2, <1>3, Zenon DEF TodoInv, TriggerSteps

(* Doing the first step keeps it.                                          *)
LEMMA DoneTodo ==
    ASSUME TypeInv, TodoInv, config' = config, todo # <<>>, todo' = Tail(todo)
    PROVE  TodoInv'
<1> DEFINE n == Len(todo)
<1>1. /\ n \in Nat \ {0} /\ Len(todo') = n - 1
      /\ \A k \in 1..n - 1 : todo'[k] = todo[k + 1]
      /\ n = 1 => Job' = "idle"
      /\ n # 1 => Job' = Job
  BY DoneIs DEF Done1
<1>2. /\ Job = "start" => n = 1
      /\ Job = "evaluate" => EvaluateSteps
      /\ Job = "leave" => LeaveSteps
      /\ Job \notin {"start", "evaluate", "leave"} => OtherSteps
  BY TodoInvIs, Zenon
<1>3. (Reports1' <=> Reports1) /\ (\A i : EndStep(i)' = EndStep(i))
      /\ (\A v : Note(v)' = Note(v))
  BY FrozenSteps
<1> SUFFICES /\ Job' # "start"
             /\ Job' = "evaluate" => EvaluateSteps'
             /\ Job' = "leave" => LeaveSteps'
             /\ Job' \notin {"start", "evaluate", "leave"} => OtherSteps'
  BY TodoInvNext
<1>4. Job' # "start"
  BY <1>1, <1>2
<1>5. ASSUME Job' = "evaluate" PROVE EvaluateSteps'
  <2>1. Job = "evaluate" /\ n # 1
    BY <1>1, <1>5
  <2>2. \A k \in 1..n - 1 : todo[k] = IF k = n - 1 THEN [do |-> "count"] ELSE Note("Debug")
    BY <1>2, <2>1 DEF EvaluateSteps
  <2> HIDE DEF n
  <2>3. ASSUME NEW k \in 1..(n - 1) - 1
        PROVE  todo'[k] = IF k = (n - 1) - 1 THEN [do |-> "count"] ELSE Note("Debug")
    <3>1. k \in 1..n - 1 /\ k + 1 \in 1..n - 1
      BY <1>1
    <3>2. todo'[k] = todo[k + 1]
      BY <1>1, <3>1
    <3>3. todo[k + 1] = IF k + 1 = n - 1 THEN [do |-> "count"] ELSE Note("Debug")
      BY <2>2, <3>1
    <3>4. (k + 1 = n - 1) <=> (k = (n - 1) - 1)
      BY <1>1
    <3>5. QED
      BY <3>2, <3>3, <3>4, Zenon
  <2>4. \A k \in 1..Len(todo') - 1 :
            todo'[k] = IF k = Len(todo') - 1 THEN [do |-> "count"] ELSE Note("Debug")'
    BY <1>1, <1>3, <2>3, Zenon
  <2>5. QED
    BY <2>4, Zenon DEF EvaluateSteps
<1>6. ASSUME Job' = "leave" PROVE LeaveSteps'
  <2>1. Job = "leave"
    BY <1>1, <1>6
  <2>2. n <= (IF Reports1 THEN 6 ELSE 3) /\ \A k \in 1..n : todo[k] = EndStep(n - k)
    BY <1>2, <2>1 DEF LeaveSteps
  <2> HIDE DEF n
  <2>3. ASSUME NEW k \in 1..n - 1 PROVE todo'[k] = EndStep((n - 1) - k)
    <3>1. k + 1 \in 1..n /\ n - (k + 1) = (n - 1) - k
      BY <1>1
    <3>2. todo[k + 1] = EndStep(n - (k + 1))
      BY <2>2, <3>1
    <3>3. QED
      BY <1>1, <3>1, <3>2, Zenon
  <2>4. \A k \in 1..Len(todo') : todo'[k] = EndStep(Len(todo) - k)'
    <3>1. \A k \in 1..Len(todo') : todo'[k] = EndStep(Len(todo') - k)
      BY <1>1, <2>3, Zenon
    <3>2. QED
      BY <1>3, <3>1, Zenon
  <2>5. Len(todo') <= IF Reports1' THEN 6 ELSE 3
    BY <1>1, <1>3, <2>2
  <2>6. QED
    BY <2>4, <2>5, Zenon DEF LeaveSteps
<1>7. ASSUME Job' \notin {"start", "evaluate", "leave"} PROVE OtherSteps'
  <2>1. n = 1 \/ Job \notin {"start", "evaluate", "leave"}
    BY <1>1, <1>7
  <2>2. ASSUME NEW k \in 1..n - 1 PROVE todo'[k] \in WorkSteps
    <3>1. n # 1 /\ k + 1 \in 1..n
      BY <1>1
    <3>2. QED
      BY <1>1, <1>2, <2>1, <3>1 DEF OtherSteps
  <2>3. WorkSteps' = WorkSteps
    BY DEF WorkSteps, TriggerSteps, Note
  <2>4. QED
    BY <1>1, <2>2, <2>3 DEF OtherSteps
<1>8. QED
  BY <1>4, <1>5, <1>6, <1>7

(* Every step keeps it.                                                    *)
LEMMA TodoStep ==
    ASSUME TypeInv, UnstartedInv, ReaderInv, TodoInv, StartInv,
           NEW h \in 0..reader.rows, QueueInv(h), [Next]_vars
    PROVE  TodoInv'
<1> USE DEF main
<1>1. CASE Configure
  <2>1. todo' = (IF line.online THEN <<>> ELSE <<[do |-> "start"]>>)
        /\ config' = Config(line)
    BY <1>1 DEF Configure
  <2>2. CASE line.online
    <3>1. todo' = <<>> /\ Job' = "idle"
      BY <2>1, <2>2 DEF Job, JobOf
    <3>2. \A n \in 1..Len(todo') : FALSE
      BY <3>1
    <3>3. OtherSteps'
      BY <3>2, Zenon DEF OtherSteps
    <3>4. QED
      BY <3>1, <3>3, TodoInvNext
  <2>3. CASE ~line.online
    <3>1. todo' = <<[do |-> "start"]>> 
      BY <2>1, <2>3
    <3>2. Len(todo') = 1 /\ todo'[1].do = "start"
      BY <3>1
    <3>3. todo' # <<>>
      BY <3>2
    <3>4. Job' = "start"
      BY <3>2, <3>3, Zenon DEF Job, JobOf
    <3>5. Offline'
      BY <2>1, <2>3 DEF Offline, Config
    <3>6. QED
      BY <3>2, <3>4, <3>5, TodoInvNext
  <2>4. QED
    BY <2>2, <2>3
<1>2. CASE Receive
  <2>1. config' = config
    BY <1>2 DEF Receive
  <2>2. (Reports1' <=> Reports1) /\ (\A i : EndStep(i)' = EndStep(i))
        /\ (\A v : Note(v)' = Note(v))
    BY <2>1, FrozenSteps
  <2>3. CASE ReceivesEnd
    <3>1. Job' = "leave"
      BY <2>3 DEF ReceivesEnd
    <3>2. Len(todo') <= IF Reports1' THEN 6 ELSE 3
      BY <2>2, <2>3 DEF ReceivesEnd
    <3>3. \A n \in 1..Len(todo') : todo'[n] = EndStep(Len(todo) - n)'
      BY <2>2, <2>3, Zenon DEF ReceivesEnd
    <3>4. LeaveSteps'
      BY <3>2, <3>3, Zenon DEF LeaveSteps
    <3>5. QED
      BY <3>1, <3>4, TodoInvNext
  <2>4. CASE ReceivesEvent
    <3>1. Job' = "evaluate"
      BY <2>4 DEF ReceivesEvent
    <3>2. \A n \in 1..Len(todo') - 1 :
              todo'[n] = IF n = Len(todo') - 1 THEN [do |-> "count"] ELSE Note("Debug")'
      BY <2>2, <2>4, Zenon DEF ReceivesEvent
    <3>3. EvaluateSteps'
      BY <3>2, Zenon DEF EvaluateSteps
    <3>4. QED
      BY <3>1, <3>3, TodoInvNext
  <2>5. QED
    BY <1>2, <2>3, <2>4, ReceiveIs
<1>3. CASE EvalEvent
  <2>1. todo' \in Seq(WorkSteps)
    BY <1>3, EvaluationIs DEF EvaluationOf
  <2>2. Job' \notin {"start", "evaluate", "leave"}
    <3>1. CASE todo' = <<>>
      BY <3>1, Zenon DEF Job, JobOf
    <3>2. CASE todo' # <<>>
      <4>1. Len(todo') \in 1..Len(todo')
        BY <2>1, <3>2, EmptySeq
      <4>2. todo'[Len(todo')] \in WorkSteps
        BY <2>1, <4>1, ElementOfSeq
      <4>3. todo'[Len(todo')].do \in {"trigger", "message"}
        BY <4>2 DEF WorkSteps, TriggerSteps, Note
      <4>4. Job' = todo'[Len(todo')].do
        BY <3>2, Zenon DEF Job, JobOf
      <4>5. QED
        BY <4>3, <4>4
    <3>3. QED
      BY <3>1, <3>2
  <2>3. WorkSteps' = WorkSteps
    BY DEF WorkSteps, TriggerSteps, Note
  <2>4. OtherSteps'
    BY <2>1, <2>3 DEF OtherSteps
  <2>5. Job' # "start" /\ Job' # "evaluate" /\ Job' # "leave"
    BY <2>2
  <2>6. QED
    BY <2>4, <2>5, TodoInvNext
<1>4. CASE todo # <<>> /\ todo' = Tail(todo) /\ config' = config
  BY <1>4, DoneTodo
<1>5. CASE UNCHANGED <<todo, config>>
  BY <1>5, FrozenTodo
<1>6. QED
  BY <1>1, <1>2, <1>3, <1>4, <1>5, TodoStepsAre DEF TodoSteps

LEMMA WorkJob ==
    ASSUME todo' \in Seq(WorkSteps)
    PROVE  Job' \in {"idle", "trigger", "message"}
<1>1. CASE todo' = <<>>
  BY <1>1, Zenon DEF Job, JobOf
<1>2. CASE todo' # <<>>
  <2>1. Len(todo') \in 1..Len(todo')
    BY <1>2, EmptySeq
  <2>2. todo'[Len(todo')] \in WorkSteps
    BY <2>1, ElementOfSeq
  <2>3. todo'[Len(todo')].do \in {"trigger", "message"}
    BY <2>2 DEF WorkSteps, TriggerSteps, Note
  <2>4. Job' = todo'[Len(todo')].do
    BY <1>2, Zenon DEF Job, JobOf
  <2>5. QED
    BY <2>3, <2>4
<1>3. QED
  BY <1>1, <1>2

(***************************************************************************)
(* The jobs follow each other: nothing, the start of an offline run, then  *)
(* the events with their triggers, at last the end.                        *)
(***************************************************************************)
JobSteps ==
    \/ Job' = Job
    \/ Job = "idle" /\ Receive /\ ReceivesEnd /\ Job' = "leave"
    \/ Job = "idle" /\ Receive /\ ReceivesEvent /\ Job' = "evaluate"
    \/ Job = "evaluate" /\ EvalEvent /\ Job' \in {"idle", "trigger", "message"}
    \/ Done1 /\ Len(todo) = 1 /\ Job' = "idle"

LEMMA JobStepsAre ==
    ASSUME TypeInv, UnstartedInv, ReaderInv, TodoInv, StartInv,
           NEW h \in 0..reader.rows, QueueInv(h), [Next]_vars, config # <<>>
    PROVE  JobSteps
<1>1. CASE Configure
  BY <1>1 DEF Configure
<1>2. CASE Receive
  <2>1. Job = "idle"
    BY <1>2 DEF Receive, Job, JobOf
  <2>2. QED
    BY <1>2, <2>1, ReceiveIs DEF JobSteps, ReceivesEnd, ReceivesEvent
<1>3. CASE EvalEvent
  <2>1. Job = "evaluate" /\ todo' \in Seq(WorkSteps)
    BY <1>3, EvaluationIs DEF EvaluationOf
  <2>2. QED
    BY <1>3, <2>1, WorkJob DEF JobSteps
<1>4. CASE todo # <<>> /\ todo' = Tail(todo)
  <2>1. Done1
    BY <1>4, DoneIs
  <2>2. QED
    BY <2>1 DEF Done1, JobSteps
<1>5. CASE UNCHANGED <<todo, config>>
  BY <1>5, FrozenTodo DEF JobSteps
<1>6. QED
  BY <1>1, <1>2, <1>3, <1>4, <1>5, TodoStepsAre DEF TodoSteps

StartSteps ==
    \/ Configure \/ Setup \/ ReadRow \/ ReceiveStart
    \/ /\ UNCHANGED <<config, slot, startTime, reader>>
       /\ todo' = todo \/ todo = <<>> \/ Head(todo).do # "start"

LEMMA StartStepsAre == ASSUME [Next]_vars PROVE StartSteps
BY DEF StartSteps, Next, vars, source, main, display, Ends, BadArguments,
       PanicOnRow, EndOfFile, NoSuchColumn, ExitOnRow, Receive, HungUp, Doing, Rest,
       NoStart, Prints, CountEvent, EvalEvent, NotMonotonic, Trigger,
       TerminateClears, TerminateEvents, TerminateTriggers, Leave, ProgressWakes,
       ProgressEvents, ProgressTriggers, Tick, Stopped

(* Every step keeps the start time where it belongs.                       *)
LEMMA StartStep ==
    ASSUME TypeInv, UnstartedInv, ReaderInv, TimerInv, TodoInv, StartInv,
           NEW h \in 0..reader.rows, QueueInv(h), [Next]_vars
    PROVE  StartInv'
<1> USE DEF main
<1>1. CASE Configure
  <2>1. slot' = <<>> /\ reader'.rows = 0
    BY <1>1 DEF Configure, UnstartedInv, source
  <2>2. Offline' => ~line.online
    BY <1>1 DEF Configure, Config, Offline
  <2>3. ASSUME ~line.online PROVE Job' = "start"
    <3>1. todo' = <<[do |-> "start"]>>
      BY <1>1, <2>3 DEF Configure
    <3>2. Len(todo') = 1 /\ todo'[1].do = "start"
      BY <3>1
    <3>3. todo' # <<>>
      BY <3>2
    <3>4. QED
      BY <3>2, <3>3, Zenon DEF Job, JobOf
  <2>4. QED
    BY <2>1, <2>2, <2>3 DEF StartInv
<1>2. ASSUME config' = config, config # <<>>, Offline
      PROVE  StartInv'
  <2>1. StartOf' = StartOf
    BY <1>2, FileStays, FrozenTimes
  <2>2. IF Job = "start" THEN slot = IF reader.rows = 0 THEN <<>> ELSE <<StartOf>>
        ELSE reader.rows > 0 /\ slot = <<>> /\ startTime = StartOf
    BY <1>2 DEF StartInv
  <2>3. JobSteps
    BY <1>2, JobStepsAre
  <2>4. Job # "start" => Job' # "start"
    BY <2>3 DEF JobSteps
  <2>5. reader.rows \in Nat
    BY DEF TypeInv
  <2>6. CASE Setup
    <3>1. reader.rows = 0 /\ reader'.rows = 0 /\ todo' = todo /\ slot' = slot
          /\ startTime' = startTime
      BY <2>6 DEF Setup, ReaderInv
    <3>2. Job' = Job
      BY <3>1 DEF Job
    <3>3. QED
      BY <2>1, <2>2, <3>1, <3>2 DEF StartInv
  <2>7. CASE ReadRow
    <3>1. todo' = todo /\ startTime' = startTime /\ reader'.rows = reader.rows + 1
          /\ Reads /\ edm = "reads"
      BY <2>7 DEF ReadRow, Reads, TypeInv
    <3>2. Job' = Job
      BY <3>1 DEF Job
    <3>3. reader'.rows # 0 /\ reader'.rows > 0
      BY <2>5, <3>1
    <3>4. CASE reader.rows = 0
      <4>1. Mapped
        BY <3>1, MappedNow
      <4>2. NextRow = Row(1) /\ 1 \in 1..NumRows
        BY <3>1, <3>4, <4>1, NextRowIs
      <4>3. ReadTime(Row(1)).k \in {"time", "none"}
            /\ slot' = <<IF ReadTime(Row(1)).k = "time" THEN ReadTime(Row(1)).t ELSE 0>>
        BY <1>2, <2>7, <3>4, <4>2 DEF ReadRow, First, Offline
      <4>4. slot' = <<StartOf>>
        BY <4>1, <4>2, <4>3, StartIs
      <4>5. Job = "start"
        BY <2>2, <3>4
      <4>6. QED
        BY <2>1, <3>2, <3>3, <4>4, <4>5 DEF StartInv
    <3>5. CASE reader.rows # 0
      <4>1. slot' = slot
        BY <2>7, <3>5 DEF ReadRow, First
      <4>2. QED
        BY <2>1, <2>2, <3>1, <3>2, <3>3, <3>5, <4>1 DEF StartInv
    <3>6. QED
      BY <3>4, <3>5
  <2>8. CASE ReceiveStart
    <3>1. todo # <<>> /\ Head(todo).do = "start" /\ slot # <<>> /\ todo' = Tail(todo)
          /\ startTime' = slot[1] /\ slot' = <<>> /\ reader' = reader
      BY <2>8 DEF ReceiveStart, Doing, Rest, source
    <3>2. Job = "start" /\ Len(todo) = 1
      BY <3>1, DoOf DEF DoFacts
    <3>3. Job' = "idle"
      BY <3>1, <3>2, DoneIs DEF Done1
    <3>4. slot = <<StartOf>> /\ reader.rows # 0
      BY <2>2, <3>1, <3>2
    <3>5. startTime' = StartOf /\ reader'.rows > 0
      BY <2>5, <3>1, <3>4
    <3>6. QED
      BY <2>1, <3>1, <3>3, <3>5 DEF StartInv
  <2>9. CASE UNCHANGED <<config, slot, startTime, reader>>
             /\ (todo' = todo \/ todo = <<>> \/ Head(todo).do # "start")
    <3>1. Job = "start" => Job' = "start"
      <4>1. SUFFICES ASSUME Job = "start" PROVE Job' = Job
        OBVIOUS
      <4>2. todo # <<>>
        BY <4>1 DEF Job, JobOf
      <4>3. Head(todo).do = "start"
        BY <4>1, <4>2, HeadOf DEF HeadFacts
      <4>4. todo' = todo
        BY <2>9, <4>2, <4>3
      <4>5. QED
        BY <4>4 DEF Job
    <3>2. QED
      BY <2>1, <2>2, <2>4, <2>9, <3>1 DEF StartInv
  <2>10. CASE Configure
    BY <1>2, <2>10 DEF Configure
  <2>11. QED
    BY <2>6, <2>7, <2>8, <2>9, <2>10, StartStepsAre DEF StartSteps
<1>3. CASE config' = config /\ ~(config # <<>> /\ Offline)
  BY <1>3 DEF StartInv, Offline
<1>4. QED
  BY <1>1, <1>2, <1>3, ConfigStays

(***************************************************************************)
(* Before the reader is set up nothing is done with an event.              *)
(***************************************************************************)
LEMMA EarlyStep ==
    ASSUME TypeInv, UnstartedInv, ReaderInv, TodoInv, StartInv, EarlyInv,
           NEW h \in 0..reader.rows, QueueInv(h), [Next]_vars
    PROVE  EarlyInv'
<1> SUFFICES ASSUME edm' = "setup" PROVE lastTime' = 0 /\ Job' \in {"idle", "start"}
  BY DEF EarlyInv
<1>1. edm = "setup"
  BY DEF Next, vars, source, main, display, Ends, BadArguments, Configure, Setup, ReadRow,
       PanicOnRow, EndOfFile, NoSuchColumn, ExitOnRow, Receive, HungUp, Doing, Rest,
       ReceiveStart, NoStart, Prints, CountEvent, EvalEvent, NotMonotonic, Trigger,
       TerminateClears, TerminateEvents, TerminateTriggers, Leave, ProgressWakes,
       ProgressEvents, ProgressTriggers, Tick, Stopped
<1>2. lastTime = 0 /\ Job \in {"idle", "start"} /\ queue = <<>>
  BY <1>1 DEF EarlyInv, ReaderInv
<1>3. CASE Configure
  <2>1. lastTime' = lastTime
    BY <1>3 DEF Configure
  <2>2. CASE line.online
    BY <1>2, <1>3, <2>1, <2>2 DEF Configure, Job, JobOf
  <2>3. CASE ~line.online
    <3>1. todo' = <<[do |-> "start"]>>
      BY <1>3, <2>3 DEF Configure
    <3>2. Len(todo') = 1 /\ todo'[1].do = "start"
      BY <3>1
    <3>3. todo' # <<>>
      BY <3>2
    <3>4. QED
      BY <1>2, <2>1, <3>2, <3>3, Zenon DEF Job, JobOf
  <2>4. QED
    BY <2>2, <2>3
<1>4. CASE config # <<>>
  <2>1. JobSteps
    BY <1>4, JobStepsAre
  <2>2. ~Receive
    BY <1>2 DEF Receive
  <2>3. Job' \in {"idle", "start"}
    BY <1>2, <2>1, <2>2 DEF JobSteps
  <2>4. ~EvalEvent
    <3>1. SUFFICES ASSUME EvalEvent PROVE FALSE
      OBVIOUS
    <3>2. Job = "evaluate"
      BY <3>1, EvaluationIs DEF EvaluationOf
    <3>3. QED
      BY <1>2, <3>2
  <2>5. lastTime' = lastTime \/ EvalEvent
    BY DEF Next, vars, source, main, display, Ends, BadArguments, Configure, Setup, ReadRow,
       PanicOnRow, EndOfFile, NoSuchColumn, ExitOnRow, Receive, HungUp, Doing, Rest,
       ReceiveStart, NoStart, Prints, CountEvent, NotMonotonic, Trigger,
       TerminateClears, TerminateEvents, TerminateTriggers, Leave, ProgressWakes,
       ProgressEvents, ProgressTriggers, Tick, Stopped
  <2>6. QED
    BY <1>2, <2>3, <2>4, <2>5
<1>5. CASE config = <<>> /\ ~Configure
  <2>1. UNCHANGED <<lastTime, todo>>
    BY <1>5 DEF Next, vars, source, main, display, Ends, BadArguments, Setup, ReadRow,
       Running, Reads,
       PanicOnRow, EndOfFile, NoSuchColumn, ExitOnRow, Receive, HungUp, Doing, Rest,
       ReceiveStart, NoStart, Prints, CountEvent, EvalEvent, NotMonotonic, Trigger,
       TerminateClears, TerminateEvents, TerminateTriggers, Leave, ProgressWakes,
       ProgressEvents, ProgressTriggers, Tick, Stopped
  <2>2. QED
    BY <1>2, <2>1 DEF Job
<1>6. QED
  BY <1>3, <1>4, <1>5

-----------------------------------------------------------------------------
(* The queue.                                                              *)

LEMMA NothingAfterLeave ==
    ASSUME [Next]_vars, config # <<>>, todo # <<>>, Head(todo).do = "leave"
    PROVE  todo' = todo
BY DEF Next, vars, source, main, display, Ends, BadArguments, Configure, Setup, ReadRow,
       PanicOnRow, EndOfFile, NoSuchColumn, ExitOnRow, Receive, HungUp, Doing, Rest,
       ReceiveStart, NoStart, Prints, CountEvent, EvalEvent, NotMonotonic, Trigger,
       TerminateClears, TerminateEvents, TerminateTriggers, Leave, ProgressWakes,
       ProgressEvents, ProgressTriggers, Tick, Stopped

JobRest ==
    /\ Job' = "leave" <=> Job = "leave"
    /\ Job' = "evaluate" => Job = "evaluate" /\ Pending' = Pending
    /\ Job' = "start" => Job = "start"

(* A step that does not receive begins no job.                             *)
LEMMA JobRestIs ==
    ASSUME TypeInv, UnstartedInv, ReaderInv, TodoInv, StartInv,
           NEW h \in 0..reader.rows, QueueInv(h), [Next]_vars, config # <<>>, ~Receive
    PROVE  JobRest
<1>1. CASE EvalEvent
  <2>1. Job = "evaluate" /\ todo' \in Seq(WorkSteps)
    BY <1>1, EvaluationIs DEF EvaluationOf
  <2>2. Job' \in {"idle", "trigger", "message"}
    BY <2>1, WorkJob
  <2>3. QED
    BY <2>1, <2>2 DEF JobRest
<1>2. CASE todo # <<>> /\ todo' = Tail(todo)
  <2>1. /\ Len(todo) \in Nat \ {0} /\ Len(todo') = Len(todo) - 1
        /\ Len(todo) = 1 => Job' = "idle"
        /\ Len(todo) # 1 => Job' = Job /\ Pending' = Pending
    BY <1>2, DoneIs DEF Done1
  <2>2. CASE Len(todo) = 1
    <3>1. Job # "leave"
      <4>1. SUFFICES ASSUME Job = "leave" PROVE FALSE
        OBVIOUS
      <4>2. Head(todo) = EndStep(0)
        BY <1>2, <2>2, <4>1, HeadOf DEF HeadFacts
      <4>3. Head(todo).do = "leave"
        BY <4>2 DEF EndStep
      <4>4. todo' = todo
        BY <1>2, <4>3, NothingAfterLeave
      <4>5. QED
        BY <2>1, <4>4
    <3>2. QED
      BY <2>1, <2>2, <3>1 DEF JobRest
  <2>3. QED
    BY <2>1, <2>2 DEF JobRest
<1>3. CASE UNCHANGED <<todo, config>>
  BY <1>3, FrozenTodo DEF JobRest
<1>4. CASE Configure
  BY <1>4 DEF Configure
<1>5. QED
  BY <1>1, <1>2, <1>3, <1>4, TodoStepsAre DEF TodoSteps

LEMMA QueueNext ==
    ASSUME NEW h,
           EndQueued' => queue' # <<>> /\ queue'[Len(queue')] = EndItem,
           \A n \in 1..NumQueued' : IsRow(queue[n], h + n)',
           h + NumQueued' <= reader'.rows,
           edm' # "panicked" => h + NumQueued' = reader'.rows,
           Job' = "leave" => edm' = "ended" /\ queue' = <<>>,
           Job' = "evaluate" => h > 0 /\ IsRow(Pending, h)',
           Job' = "start" => h = 0
    PROVE  QueueInv(h)'
<1>1. (EndItem)' = EndItem
  BY DEF EndItem
<1>2. QED
  BY <1>1, Zenon DEF QueueInv

(***************************************************************************)
(* The queue in a step that neither receives nor configures.               *)
(***************************************************************************)
LEMMA QueueRead ==
    ASSUME TypeInv, UnstartedInv, ReaderInv, TimerInv, TodoInv, StartInv, EarlyInv,
           NEW h \in 0..reader.rows, QueueInv(h), [Next]_vars, config # <<>>, ~Receive
    PROVE  QueueInv(h)' /\ h \in 0..reader'.rows
<1> USE DEF source, main, display
<1>1. JobRest
  BY JobRestIs
<1>2. file' = file /\ config' = config
  BY FileStays, ConfigStays DEF Configure
<1>3. queue \in Seq(EventItems \cup {EndItem}) /\ reader.rows \in Nat
  BY DEF TypeInv
<1>4. /\ EndQueued => queue # <<>> /\ queue[Len(queue)] = EndItem
      /\ \A n \in 1..NumQueued : IsRow(queue[n], h + n)
      /\ h + NumQueued <= reader.rows
      /\ edm # "panicked" => h + NumQueued = reader.rows
      /\ Job = "leave" => edm = "ended" /\ queue = <<>>
      /\ Job = "evaluate" => h > 0 /\ IsRow(Pending, h)
      /\ Job = "start" => h = 0
  BY Zenon DEF QueueInv
<1>5. ASSUME reader'.columns = reader.columns
      PROVE  /\ \A item, r : IsRow(item, r)' <=> IsRow(item, r)
             /\ Job' = "evaluate" => h > 0 /\ IsRow(Pending, h)'
             /\ Job' = "start" => h = 0
  <2>1. \A item, r : IsRow(item, r)' <=> IsRow(item, r)
    BY <1>2, <1>5, FrozenRows
  <2>2. Job' = "evaluate" => h > 0 /\ IsRow(Pending, h)'
    BY <1>1, <1>4, <2>1, Zenon DEF JobRest
  <2>3. Job' = "start" => h = 0
    BY <1>1, <1>4, Zenon DEF JobRest
  <2>4. QED
    BY <2>1, <2>2, <2>3, Zenon
<1>6. CASE Setup
  <2>1. edm = "setup" /\ edm' = "reads" /\ reader.rows = 0 /\ reader'.rows = 0
        /\ queue = <<>> /\ queue' = <<>>
    BY <1>6 DEF Setup, ReaderInv
  <2>2. h = 0 /\ Job \in {"idle", "start"}
    BY <2>1 DEF EarlyInv
  <2>3. ~EndQueued' /\ NumQueued' = 0
    BY <2>1 DEF EndQueued, NumQueued
  <2>4. \A n \in 1..NumQueued' : FALSE
    BY <2>3
  <2>5. Job' \notin {"leave", "evaluate"}
    BY <1>1, <2>2 DEF JobRest
  <2>6. h + NumQueued' = reader'.rows /\ h + NumQueued' <= reader'.rows
    BY <2>1, <2>2, <2>3
  <2>7. QueueInv(h)'
    BY <2>2, <2>3, <2>4, <2>5, <2>6, QueueNext
  <2>8. QED
    BY <2>1, <2>2, <2>7
<1>7. CASE ReadRow
  <2> DEFINE item == [event |-> ReadEvent(NextRow), time |-> GetTime(NextRow).t]
  <2>1. Reads /\ edm = "reads" /\ edm' = "reads" /\ queue' = Append(queue, item)
        /\ reader'.rows = reader.rows + 1 /\ reader'.columns = reader.columns
        /\ ~Unparsable(NextRow) /\ GetTime(NextRow).k = "time"
    BY <1>7 DEF ReadRow, Reads, TypeInv
  <2>2. IsRow(item, reader.rows + 1)
    BY <2>1, MappedNow, RowItemIs
  <2>3. item \in EventItems
    BY <2>2 DEF IsRow
  <2> HIDE DEF item
  <2>4. Len(queue') = Len(queue) + 1 /\ queue'[Len(queue) + 1] = item
        /\ \A n \in 1..Len(queue) : queue'[n] = queue[n]
    BY <1>3, <2>1, <2>3, AppendProperties
  <2>5. ~EndQueued' /\ ~EndQueued /\ NumQueued' = Len(queue) + 1 /\ NumQueued = Len(queue)
    BY <2>1, <2>4 DEF EndQueued, NumQueued
  <2>6. Len(queue) \in Nat /\ h + Len(queue) = reader.rows
    BY <1>3, <1>4, <2>1, <2>5
  <2>7. ASSUME NEW n \in 1..Len(queue) + 1 PROVE IsRow(queue'[n], h + n)
    <3>1. CASE n = Len(queue) + 1
      <4>1. h + n = reader.rows + 1
        BY <2>6, <3>1
      <4>2. QED
        BY <2>2, <2>4, <3>1, <4>1, Zenon
    <3>2. CASE n # Len(queue) + 1
      <4>1. n \in 1..Len(queue)
        BY <2>6, <3>2
      <4>2. QED
        BY <1>4, <2>4, <2>5, <4>1, Zenon
    <3>3. QED
      BY <3>1, <3>2
  <2>8. \A n \in 1..NumQueued' : IsRow(queue[n], h + n)'
    BY <1>5, <2>1, <2>5, <2>7, Zenon
  <2>9. h + NumQueued' = reader'.rows /\ h + NumQueued' <= reader'.rows
    BY <2>1, <2>5, <2>6
  <2>10. Job' # "leave"
    BY <1>1, <1>4, <2>1, Zenon DEF JobRest
  <2>11. QueueInv(h)'
    BY <1>5, <2>1, <2>5, <2>8, <2>9, <2>10, QueueNext, Zenon
  <2>12. QED
    BY <1>3, <2>1, <2>11
<1>8. CASE PanicOnRow
  <2>1. edm = "reads" /\ edm' = "panicked" /\ reader' = reader
        /\ \E sent \in 0..Len(queue) : queue' = SubSeq(queue, 1, sent)
    BY <1>8 DEF PanicOnRow, Reads
  <2>2. PICK sent \in 0..Len(queue) : queue' = SubSeq(queue, 1, sent)
    BY <2>1
  <2>3. Len(queue') = sent /\ \A n \in 1..sent : queue'[n] = queue[n]
    BY <1>3, <2>2
  <2>4. ~EndQueued' /\ ~EndQueued /\ NumQueued' = sent /\ NumQueued = Len(queue)
    BY <2>1, <2>3 DEF EndQueued, NumQueued
  <2>5. Len(queue) \in Nat /\ h + Len(queue) = reader.rows
    BY <1>3, <1>4, <2>1, <2>4
  <2>6. ASSUME NEW n \in 1..sent PROVE IsRow(queue'[n], h + n)
    <3>1. n \in 1..Len(queue)
      BY <2>5
    <3>2. QED
      BY <1>4, <2>3, <2>4, <3>1, Zenon
  <2>7. \A n \in 1..NumQueued' : IsRow(queue[n], h + n)'
    BY <1>5, <2>1, <2>4, <2>6, Zenon
  <2>8. h + NumQueued' <= reader'.rows
    BY <2>1, <2>4, <2>5
  <2>9. Job' # "leave"
    BY <1>1, <1>4, <2>1, Zenon DEF JobRest
  <2>10. QueueInv(h)'
    BY <1>5, <2>1, <2>4, <2>7, <2>8, <2>9, QueueNext, Zenon
  <2>11. QED
    BY <2>1, <2>10
<1>9. CASE EndOfFile
  <2>1. edm = "reads" /\ edm' = "ended" /\ reader' = reader
        /\ queue' = Append(queue, EndItem)
    BY <1>9 DEF EndOfFile, EndItem
  <2>2. Job' # "leave"
    BY <1>1, <1>4, <2>1, Zenon DEF JobRest
  <2>3. Len(queue') = Len(queue) + 1 /\ queue'[Len(queue) + 1] = EndItem
        /\ \A n \in 1..Len(queue) : queue'[n] = queue[n]
    BY <1>3, <2>1, AppendProperties
  <2>4. Len(queue) \in Nat
    BY <1>3
  <2>5. EndQueued' /\ ~EndQueued /\ NumQueued' = Len(queue) /\ NumQueued = Len(queue)
    BY <2>1, <2>2, <2>3, <2>4 DEF EndQueued, NumQueued
  <2>6. h + Len(queue) = reader.rows
    BY <1>4, <2>1, <2>5
  <2>7. \A n \in 1..Len(queue) : IsRow(queue'[n], h + n)
    BY <1>4, <2>3, <2>5, Zenon
  <2>8. \A n \in 1..NumQueued' : IsRow(queue[n], h + n)'
    BY <1>5, <2>1, <2>5, <2>7, Zenon
  <2>9. h + NumQueued' = reader'.rows /\ h + NumQueued' <= reader'.rows
    BY <2>1, <2>5, <2>6
  <2>10. queue' # <<>> /\ queue'[Len(queue')] = EndItem
    <3>1. Len(queue') # 0
      BY <2>3, <2>4
    <3>2. QED
      BY <2>3, <3>1
  <2>11. QueueInv(h)'
    BY <1>5, <2>1, <2>2, <2>8, <2>9, <2>10, QueueNext, Zenon
  <2>12. QED
    BY <2>1, <2>11
<1>10. CASE UNCHANGED <<config, edm, reader>> /\ queue' = queue
  <2>1. NumQueued' = NumQueued /\ (EndQueued' <=> EndQueued)
    BY <1>1, <1>10 DEF NumQueued, EndQueued, JobRest
  <2>2. \A n \in 1..NumQueued' : IsRow(queue[n], h + n)'
    BY <1>4, <1>5, <1>10, <2>1, Zenon
  <2>3. Job' = "leave" => edm' = "ended" /\ queue' = <<>>
    BY <1>1, <1>4, <1>10, Zenon DEF JobRest
  <2>4. QueueInv(h)'
    BY <1>4, <1>5, <1>10, <2>1, <2>2, <2>3, QueueNext, Zenon
  <2>5. QED
    BY <1>10, <2>4
<1>11. QED
  BY <1>6, <1>7, <1>8, <1>9, <1>10, ReadingSteps DEF Configure

LEMMA EndIsNoEvent == EndItem \notin EventItems
<1>1. SUFFICES ASSUME EndItem \in EventItems PROVE FALSE
  OBVIOUS
<1>2. EndItem.event \in [DOMAIN Inputs -> Cells] /\ EndItem.event = <<>>
  BY <1>1 DEF EndItem, EventItems
<1>3. DOMAIN Inputs = {}
  BY <1>2
<1>4. QED
  BY <1>3, InputsAssumption

(***************************************************************************)
(* The next row is received, or the end behind the last.                   *)
(***************************************************************************)
ReceivedEnd(h) == ReceivesEnd /\ QueueInv(h)' /\ edm = "ended" /\ h = reader.rows
ReceivedEvent(h) ==
    /\ ReceivesEvent /\ QueueInv(h + 1)'
    /\ h + 1 \in 0..reader'.rows /\ h + 1 \in 1..reader.rows
    /\ IsRow(Head(queue), h + 1)

(* Receiving takes the first item off the queue.                           *)
LEMMA QueueReceive ==
    ASSUME TypeInv, UnstartedInv, ReaderInv,
           NEW h \in 0..reader.rows, QueueInv(h), Receive
    PROVE  ReceivedEnd(h) \/ ReceivedEvent(h)
<1> USE DEF source, main, display
<1>1. /\ todo = <<>> /\ queue # <<>> /\ queue' = Tail(queue)
      /\ UNCHANGED <<file, config, edm, reader>> /\ Job = "idle"
  BY DEF Receive, Job, JobOf
<1>2. queue \in Seq(EventItems \cup {EndItem}) /\ reader.rows \in Nat
  BY DEF TypeInv
<1>3. /\ EndQueued => queue # <<>> /\ queue[Len(queue)] = EndItem
      /\ \A n \in 1..NumQueued : IsRow(queue[n], h + n)
      /\ h + NumQueued <= reader.rows
      /\ edm # "panicked" => h + NumQueued = reader.rows
  BY Zenon DEF QueueInv
<1>4. \A item, r : IsRow(item, r)' <=> IsRow(item, r)
  BY <1>1, FrozenRows
<1>5. Len(queue) \in Nat \ {0}
  BY <1>1, <1>2, EmptySeq
<1>6. Len(queue') = Len(queue) - 1 /\ \A n \in 1..Len(queue) - 1 : queue'[n] = queue[n + 1]
  BY <1>1, <1>2, <1>5
<1>7. Head(queue) = queue[1]
  BY <1>1, <1>2
<1>8. EndQueued <=> edm = "ended"
  BY <1>1 DEF EndQueued
<1>9. CASE ReceivesEnd
  <2>1. NumQueued = 0 /\ edm = "ended" /\ Len(queue) = 1
    <3>1. ASSUME 1 \in 1..NumQueued PROVE FALSE
      <4>1. IsRow(queue[1], h + 1)
        BY <1>3, <3>1, Zenon
      <4>2. queue[1] \in EventItems
        BY <4>1 DEF IsRow
      <4>3. QED
        BY <1>7, <1>9, <4>2, EndIsNoEvent, Zenon DEF ReceivesEnd
    <3>2. NumQueued = IF edm = "ended" THEN Len(queue) - 1 ELSE Len(queue)
      BY <1>8, Zenon DEF NumQueued
    <3>3. NumQueued \in Nat
      BY <1>5, <3>2
    <3>4. NumQueued = 0
      BY <3>1, <3>3
    <3>5. edm = "ended"
      BY <1>5, <3>2, <3>4
    <3>6. QED
      BY <1>5, <3>2, <3>4, <3>5
  <2>2. queue' = <<>>
    <3>1. Len(queue') = 0
      BY <1>6, <2>1
    <3>2. queue' \in Seq(EventItems \cup {EndItem})
      BY <1>1, <1>2
    <3>3. QED
      BY <3>1, <3>2, EmptySeq
  <2>3. Job' = "leave"
    BY <1>9 DEF ReceivesEnd
  <2>4. ~EndQueued' /\ NumQueued' = 0
    BY <1>6, <2>1, <2>3 DEF EndQueued, NumQueued
  <2>5. h = reader.rows /\ h \in Nat
    BY <1>2, <1>3, <2>1
  <2>6. h + NumQueued' = reader'.rows /\ h + NumQueued' <= reader'.rows
    BY <1>1, <2>4, <2>5
  <2>7. \A n \in 1..NumQueued' : FALSE
    BY <2>4
  <2>8. edm' = "ended" /\ Job' # "evaluate" /\ Job' # "start"
    BY <1>1, <2>1, <2>3
  <2>9. QueueInv(h)'
    BY <2>2, <2>4, <2>6, <2>7, <2>8, QueueNext, Zenon
  <2>10. QED
    BY <1>9, <2>1, <2>5, <2>9 DEF ReceivedEnd
<1>10. CASE ReceivesEvent
  <2>1. Head(queue) \in EventItems /\ Job' = "evaluate" /\ Pending' = Head(queue)
    BY <1>10 DEF ReceivesEvent
  <2>2. 1 \in 1..NumQueued /\ (edm = "ended" => Len(queue) > 1)
        /\ NumQueued' = NumQueued - 1 /\ NumQueued \in Nat
        /\ NumQueued <= Len(queue)
    <3>1. NumQueued = IF edm = "ended" THEN Len(queue) - 1 ELSE Len(queue)
      BY <1>8, Zenon DEF NumQueued
    <3>2. ASSUME edm = "ended" PROVE Len(queue) # 1
      <4>1. queue[Len(queue)] \notin EventItems
        BY <1>3, <1>8, <3>2, EndIsNoEvent, Zenon
      <4>2. queue[1] \in EventItems
        BY <1>7, <2>1, Zenon
      <4>3. QED
        BY <4>1, <4>2, Zenon
    <3>3. NumQueued' = IF edm = "ended" THEN Len(queue') - 1 ELSE Len(queue')
      BY <1>1, <2>1 DEF NumQueued, EndQueued
    <3>4. QED
      BY <1>5, <1>6, <3>1, <3>2, <3>3
  <2>3. IsRow(Head(queue), h + 1)
    BY <1>3, <1>7, <2>2, Zenon
  <2>4. EndQueued' => queue' # <<>> /\ queue'[Len(queue')] = EndItem
    <3>1. SUFFICES ASSUME EndQueued' PROVE queue' # <<>> /\ queue'[Len(queue')] = EndItem
      OBVIOUS
    <3>2. edm = "ended"
      BY <1>1, <3>1 DEF EndQueued
    <3>3. Len(queue) > 1 /\ queue[Len(queue)] = EndItem
      BY <1>3, <1>8, <2>2, <3>2
    <3>4. Len(queue') # 0 /\ Len(queue') \in 1..Len(queue) - 1 /\ Len(queue') + 1 = Len(queue)
      BY <1>5, <1>6, <3>3
    <3>5. queue'[Len(queue')] = queue[Len(queue') + 1]
      BY <1>6, <3>4, Zenon
    <3>6. queue'[Len(queue')] = EndItem
      BY <3>3, <3>4, <3>5, Zenon
    <3>7. queue' # <<>>
      BY <3>4
    <3>8. QED
      BY <3>6, <3>7
  <2>5. ASSUME NEW n \in 1..NumQueued' PROVE IsRow(queue'[n], (h + 1) + n)
    <3>1. n \in 1..Len(queue) - 1 /\ n + 1 \in 1..NumQueued /\ h + (n + 1) = (h + 1) + n
      BY <1>2, <1>5, <2>2
    <3>2. queue'[n] = queue[n + 1]
      BY <1>6, <3>1, Zenon
    <3>3. IsRow(queue[n + 1], h + (n + 1))
      BY <1>3, <3>1, Zenon
    <3>4. QED
      BY <3>1, <3>2, <3>3, Zenon
  <2>6. \A n \in 1..NumQueued' : IsRow(queue[n], (h + 1) + n)'
    BY <1>4, <2>5, Zenon
  <2>7. (h + 1) + NumQueued' <= reader'.rows
    BY <1>1, <1>2, <1>3, <2>2
  <2>8. edm' # "panicked" => (h + 1) + NumQueued' = reader'.rows
    BY <1>1, <1>2, <1>3, <2>2
  <2>9. h + 1 > 0 /\ IsRow(Pending, h + 1)'
    <3>1. h + 1 > 0
      BY <1>2
    <3>2. IsRow(Pending, h + 1)'
      BY <1>4, <2>1, <2>3, Zenon
    <3>3. QED
      BY <3>1, <3>2
  <2>10. Job' # "leave" /\ Job' # "start"
    BY <2>1
  <2>11. QueueInv(h + 1)'
    BY <2>4, <2>6, <2>7, <2>8, <2>9, <2>10, QueueNext, Zenon
  <2>12. h + 1 \in 0..reader'.rows /\ h + 1 \in 1..reader.rows
    BY <1>1, <1>2, <1>3, <2>2
  <2>13. QED
    BY <1>10, <2>3, <2>11, <2>12 DEF ReceivedEvent
<1>11. QED
  BY <1>9, <1>10, ReceiveIs

(* After the arguments are read the queue is empty.                        *)
LEMMA QueueConfigure ==
    ASSUME UnstartedInv, Configure
    PROVE  QueueInv(0)' /\ reader'.rows = 0 /\ Job' \in {"idle", "start"}
<1>1. edm' = "setup" /\ queue' = <<>> /\ reader'.rows = 0
  BY DEF Configure, UnstartedInv, source
<1>2. Job' \in {"idle", "start"}
  <2>1. CASE line.online
    BY <2>1 DEF Configure, Job, JobOf
  <2>2. CASE ~line.online
    <3>1. todo' = <<[do |-> "start"]>>
      BY <2>2 DEF Configure
    <3>2. Len(todo') = 1 /\ todo'[1].do = "start"
      BY <3>1
    <3>3. todo' # <<>>
      BY <3>2
    <3>4. QED
      BY <3>2, <3>3, Zenon DEF Job, JobOf
  <2>3. QED
    BY <2>1, <2>2
<1>3. ~EndQueued' /\ NumQueued' = 0
  BY <1>1 DEF EndQueued, NumQueued
<1>4. \A n \in 1..NumQueued' : FALSE
  BY <1>3
<1>5. 0 + NumQueued' = reader'.rows /\ 0 + NumQueued' <= reader'.rows
  BY <1>1, <1>3
<1>6. Job' # "leave" /\ Job' # "evaluate"
  BY <1>2
<1>7. QueueInv(0)'
  BY <1>3, <1>4, <1>5, <1>6, QueueNext
<1>8. QED
  BY <1>1, <1>2, <1>7

-----------------------------------------------------------------------------
(* The triggers that are printed and those that are to be.                 *)

LEMMA FrozenLines ==
    ASSUME config' = config, startTime' = startTime
    PROVE  /\ \A step : LineOf(step)' = LineOf(step)
           /\ \A s : PendingLines(s)' = PendingLines(s)
<1>1. \A time : TimeInfo(time)' = TimeInfo(time)
  BY DEF TimeInfo
<1>2. \A step : LineOf(step)' = LineOf(step)
  BY <1>1, Zenon DEF LineOf
<1>3. \A s : PendingLines(s)' = PendingLines(s)
  BY <1>2, Zenon DEF PendingLines
<1>4. QED
  BY <1>2, <1>3

LEMMA PendingEmptyNext == ASSUME todo' = <<>> PROVE PendingLines(todo)' = <<>>
<1>1. \A n \in DOMAIN <<>> : FALSE
  OBVIOUS
<1>2. PendingLines(<<>>)' = PendingLines(<<>>)
  BY <1>1 DEF PendingLines
<1>3. QED
  BY <1>2, PendingEmpty, Zenon

LEMMA PendingQuiet ==
    ASSUME TypeInv, todo # <<>>, Head(todo).do # "trigger"
    PROVE  PendingLines(todo) = PendingLines(Tail(todo))
<1>1. todo \in Seq(StepSet) /\ Tail(todo) \in Seq(StepSet)
  BY HeadIsAStep DEF TypeInv
<1>2. PendingLines(todo) = LinesOf(Head(todo)) \o PendingLines(Tail(todo))
  BY <1>1, PendingTail, Zenon
<1>3. LinesOf(Head(todo)) = <<>>
  BY Zenon DEF LinesOf
<1>4. PendingLines(Tail(todo)) \in Seq(AllLines)
  BY <1>1, PendingType, Zenon
<1>5. <<>> \o PendingLines(Tail(todo)) = PendingLines(Tail(todo))
  BY <1>4, ConcatEmptySeq, Zenon
<1>6. QED
  BY <1>2, <1>3, <1>5, Zenon

(***************************************************************************)
(* A step that prints no trigger and evaluates nothing.                    *)
(***************************************************************************)
LEMMA PendingDone ==
    ASSUME TypeInv, TodoInv, config' = config, todo # <<>>, todo' = Tail(todo),
           Head(todo).do \notin {"trigger", "evaluate"},
           startTime' = startTime \/ Head(todo).do = "start", NEW h
    PROVE  PendingLines(todo)' = PendingLines(todo) /\ Evaluated(h)' = Evaluated(h)
<1>1. PendingLines(todo) = PendingLines(Tail(todo))
  BY PendingQuiet
<1>2. Done1
  BY DoneIs
<1>3. PendingLines(todo)' = PendingLines(todo)
  <2>1. CASE startTime' = startTime
    <3>1. \A s : PendingLines(s)' = PendingLines(s)
      BY <2>1, FrozenLines
    <3>2. PendingLines(todo)' = PendingLines(todo')
      BY <3>1, Zenon
    <3>3. QED
      BY <1>1, <3>2, Zenon
  <2>2. CASE Head(todo).do = "start"
    <3>1. Len(todo) = 1
      BY <2>2, DoOf DEF DoFacts
    <3>2. todo' = <<>>
      BY <1>2, <3>1 DEF Done1
    <3>3. PendingLines(Tail(todo)) = <<>>
      BY <3>2, PendingEmpty, Zenon
    <3>4. QED
      BY <1>1, <3>2, <3>3, PendingEmptyNext, Zenon
  <2>3. QED
    BY <2>1, <2>2
<1>4. Job' = "evaluate" <=> Job = "evaluate"
  <2>1. CASE Len(todo) = 1
    <3>1. Job' = "idle"
      BY <1>2, <2>1 DEF Done1
    <3>2. Job # "evaluate"
      BY <2>1, HeadOf DEF HeadFacts
    <3>3. QED
      BY <3>1, <3>2
  <2>2. CASE Len(todo) # 1
    BY <1>2, <2>2 DEF Done1
  <2>3. QED
    BY <2>1, <2>2
<1>5. Evaluated(h)' = Evaluated(h)
  BY <1>4 DEF Evaluated
<1>6. QED
  BY <1>3, <1>5

LEMMA PendingReceived ==
    ASSUME TypeInv, Receive, todo' \in Seq(StepSet), ReceivesEnd \/ ReceivesEvent
    PROVE  PendingLines(todo) = <<>> /\ PendingLines(todo)' = <<>>
<1>1. todo = <<>> /\ config' = config /\ startTime' = startTime
  BY DEF Receive
<1>2. PendingLines(todo) = <<>>
  BY <1>1, PendingEmpty, Zenon
<1>3. \A n \in 1..Len(todo') : todo'[n].do # "trigger"
  <2>1. CASE ReceivesEnd
    <3>1. Len(todo') \in {3, 6} /\ \A n \in 1..Len(todo') : todo'[n] = EndStep(Len(todo') - n)
      BY <2>1 DEF ReceivesEnd
    <3>2. \A n \in 0..5 : EndStep(n).do # "trigger"
      BY DEF EndStep, Note
    <3>3. ASSUME NEW n \in 1..Len(todo') PROVE Len(todo') - n \in 0..5
      <4>1. CASE Len(todo') = 3
        BY <4>1
      <4>2. CASE Len(todo') = 6
        BY <4>2
      <4>3. QED
        BY <3>1, <4>1, <4>2
    <3>4. QED
      BY <3>1, <3>2, <3>3
  <2>2. CASE ReceivesEvent
    <3>1. /\ Len(todo') \in {3, 4} /\ Job' = "evaluate"
          /\ \A n \in 1..Len(todo') - 1 :
                todo'[n] = IF n = Len(todo') - 1 THEN [do |-> "count"] ELSE Note("Debug")
      BY <2>2 DEF ReceivesEvent
    <3>2. todo'[Len(todo')].do = "evaluate"
      BY <3>1, Zenon DEF Job, JobOf
    <3>3. ASSUME NEW n \in 1..Len(todo') PROVE todo'[n].do # "trigger"
      <4>1. CASE n = Len(todo')
        BY <3>2, <4>1
      <4>2. CASE n # Len(todo')
        <5>1. n \in 1..Len(todo') - 1
          BY <3>1, <4>2
        <5>2. todo'[n] \in {[do |-> "count"], Note("Debug")}
          BY <3>1, <5>1
        <5>3. QED
          BY <5>2 DEF Note
      <4>3. QED
        BY <4>1, <4>2
    <3>4. QED
      BY <3>3
  <2>3. QED
    BY <2>1, <2>2
<1>4. PendingLines(todo') = <<>>
  BY <1>3, PendingNothing, Zenon
<1>5. \A s : PendingLines(s)' = PendingLines(s)
  BY <1>1, FrozenLines
<1>6. PendingLines(todo)' = <<>>
  BY <1>4, <1>5, Zenon
<1>7. QED
  BY <1>2, <1>6

(***************************************************************************)
(* A trigger is printed: it is the next of those that were pending.        *)
(***************************************************************************)
LEMMA PendingTrigger ==
    ASSUME TypeInv, TodoInv, Trigger, NEW h
    PROVE  /\ PendingLines(todo) = <<LineOf(Head(todo))>> \o PendingLines(todo)'
           /\ PendingLines(todo)' \in Seq(AllLines)
           /\ Evaluated(h)' = Evaluated(h)
<1>1. todo # <<>> /\ todo' = Tail(todo) /\ Head(todo).do = "trigger"
      /\ config' = config /\ startTime' = startTime
  BY DEF Trigger, Doing, Rest
<1>2. todo \in Seq(StepSet) /\ Tail(todo) \in Seq(StepSet)
  BY <1>1, HeadIsAStep DEF TypeInv
<1>3. \A s : PendingLines(s)' = PendingLines(s)
  BY <1>1, FrozenLines
<1>4. PendingLines(todo)' = PendingLines(Tail(todo))
  BY <1>1, <1>3, Zenon
<1>5. PendingLines(todo) = LinesOf(Head(todo)) \o PendingLines(Tail(todo))
  BY <1>1, <1>2, PendingTail, Zenon
<1>6. LinesOf(Head(todo)) = <<LineOf(Head(todo))>>
  BY <1>1, Zenon DEF LinesOf
<1>7. PendingLines(Tail(todo)) \in Seq(AllLines)
  BY <1>2, PendingType, Zenon
<1>8. Job # "evaluate" /\ Job' # "evaluate"
  <2>1. Job \in {"message", "trigger"}
    BY <1>1, DoOf DEF DoFacts
  <2>2. Job' \in {"idle", Job}
    BY <1>1, DoneIs DEF Done1
  <2>3. QED
    BY <2>1, <2>2
<1>9. Evaluated(h)' = Evaluated(h)
  BY <1>8 DEF Evaluated
<1>10. QED
  BY <1>4, <1>5, <1>6, <1>7, <1>9, Zenon

(***************************************************************************)
(* An event is evaluated: nothing was pending, then its triggers are.      *)
(***************************************************************************)
PendingEvaluation(h) ==
    /\ PendingLines(todo) = <<>>
    /\ PendingLines(todo)' \in Seq(AllLines)
    /\ Matches(PendingLines(todo)', FiringOf(h))
    /\ h \in 1..NumRows /\ NumRows \in Nat
    /\ Job = "evaluate" /\ Len(todo) = 1
    /\ Job' \in {"idle", "trigger", "message"}

LEMMA PendingEvaluated ==
    ASSUME TypeInv, UnstartedInv, ReaderInv, TodoInv, StartInv,
           NEW h \in 0..reader.rows, QueueInv(h), EvalEvent
    PROVE  PendingEvaluation(h)
<1>1. todo # <<>> /\ Head(todo).do = "evaluate" /\ config' = config
      /\ startTime' = startTime
  BY DEF EvalEvent, Doing
<1>2. /\ h \in 1..reader.rows /\ h \in 1..NumRows /\ Job = "evaluate" /\ Len(todo) = 1
      /\ todo' \in Seq(WorkSteps) /\ todo' \in Seq(StepSet)
      /\ Matches(PendingLines(todo'), FiringOf(h))
  BY EvaluationIs DEF EvaluationOf
<1>3. PendingLines(todo) = PendingLines(Tail(todo))
  BY <1>1, PendingQuiet
<1>4. Tail(todo) = <<>>
  <2>1. todo \in Seq(StepSet) /\ Tail(todo) \in Seq(StepSet)
    BY <1>1, HeadIsAStep DEF TypeInv
  <2>2. Len(Tail(todo)) = 0
    BY <1>1, <1>2, <2>1
  <2>3. QED
    BY <2>1, <2>2, EmptySeq
<1>5. PendingLines(todo) = <<>>
  BY <1>3, <1>4, PendingEmpty, Zenon
<1>6. \A s : PendingLines(s)' = PendingLines(s)
  BY <1>1, FrozenLines
<1>7. PendingLines(todo)' = PendingLines(todo')
  BY <1>6, Zenon
<1>8. PendingLines(todo') \in Seq(AllLines)
  BY <1>2, PendingType, Zenon
<1>9. Job' \in {"idle", "trigger", "message"}
  BY <1>2, WorkJob
<1>10. NumRows \in Nat
  BY FileTypes DEF TypeInv
<1>11. QED
  BY <1>2, <1>5, <1>7, <1>8, <1>9, <1>10, Zenon DEF PendingEvaluation

(* The verbosities and their levels.                                       *)
LEMMA LevelsAre ==
    /\ Level("Silent") = 1 /\ Level("Progress") = 2 /\ Level("WarningsOnly") = 3
    /\ Level("Triggers") = 4 /\ Level("Outputs") = 5 /\ Level("Debug") = 6
<1>1. DOMAIN Verbosities = 1..6
  BY DEF Verbosities
<1>2. ASSUME NEW i \in 1..6
      PROVE  Level(Verbosities[i]) = i
  <2>1. \A j \in 1..6 : Verbosities[j] = Verbosities[i] => j = i
    BY DEF Verbosities
  <2>2. Level(Verbosities[i]) \in 1..6
        /\ Verbosities[Level(Verbosities[i])] = Verbosities[i]
    BY <1>1 DEF Level
  <2>3. QED
    BY <2>1, <2>2
<1>3. /\ Verbosities[1] = "Silent" /\ Verbosities[2] = "Progress"
      /\ Verbosities[3] = "WarningsOnly" /\ Verbosities[4] = "Triggers"
      /\ Verbosities[5] = "Outputs" /\ Verbosities[6] = "Debug"
  BY DEF Verbosities
<1>4. 1 \in 1..6 /\ 2 \in 1..6 /\ 3 \in 1..6 /\ 4 \in 1..6 /\ 5 \in 1..6 /\ 6 \in 1..6
  OBVIOUS
<1>5. QED
  BY <1>2, <1>3, <1>4, Zenon

LEMMA Levels ==
    ASSUME config.verbosity \in Kinds
    PROVE  Emits("Triggers") <=> Shown
BY LevelsAre DEF Kinds, Emits, Shown

LEMMA CountsNotShown == Counts => ~Shown
BY DEF Counts, Shown

LEMMA ReportNext ==
    ASSUME config' = config, file' = file, NEW g, NEW lines, NEW firings,
           TriggersOf(screen') \o PendingLines(todo)' = lines,
           FiringUpTo(Evaluated(g)') = firings,
           Shown => Matches(lines, firings),
           Shown => \A n \in 1..Len(screen') : screen'[n].k \in {"message", "trigger"},
           ~Shown => \A n \in 1..Len(screen') : screen'[n].k # "trigger"
    PROVE  ReportInv(g)'
<1>1. TriggerLines' = TriggersOf(screen')
  BY DEF TriggerLines, TriggersOf
<1>2. \A l, f : Matches(l, f)' <=> Matches(l, f)
  BY FrozenTimes
<1>3. \A n : FiringUpTo(n)' = FiringUpTo(n)
  BY FrozenFile
<1>4. Shown' <=> Shown
  BY FrozenSteps
<1>5. FiringUpTo(Evaluated(g))' = firings
  BY <1>3, Zenon
<1>6. (TriggerLines \o PendingLines(todo))' = lines
  BY <1>1, Zenon
<1>7. Shown' => Matches(TriggerLines \o PendingLines(todo), FiringUpTo(Evaluated(g)))'
  BY <1>2, <1>4, <1>5, <1>6, Zenon
<1>8. QED
  BY <1>4, <1>7, Zenon DEF ReportInv

LEMMA ReportNow ==
    ASSUME config # <<>>, NEW h, ReportInv(h)
    PROVE  /\ Shown => Matches(TriggersOf(screen) \o PendingLines(todo),
                               FiringUpTo(Evaluated(h)))
           /\ Shown => \A n \in 1..Len(screen) : screen[n].k \in {"message", "trigger"}
           /\ ~Shown => \A n \in 1..Len(screen) : screen[n].k # "trigger"
<1>1. TriggerLines = TriggersOf(screen)
  BY DEF TriggerLines, TriggersOf
<1>2. QED
  BY <1>1, Zenon DEF ReportInv

(***************************************************************************)
(* A step that leaves the triggers alone, but for a message.               *)
(***************************************************************************)
LEMMA ReportKept ==
    ASSUME TypeInv, config' = config, file' = file, config # <<>>,
           NEW h, NEW g, ReportInv(h),
           PendingLines(todo)' = PendingLines(todo), Evaluated(g)' = Evaluated(h),
           screen' = screen
    PROVE  ReportInv(g)'
<1>1. /\ Shown => Matches(TriggersOf(screen) \o PendingLines(todo),
                          FiringUpTo(Evaluated(h)))
      /\ Shown => \A n \in 1..Len(screen) : screen[n].k \in {"message", "trigger"}
      /\ ~Shown => \A n \in 1..Len(screen) : screen[n].k # "trigger"
  BY ReportNow
<1> DEFINE lines == TriggersOf(screen) \o PendingLines(todo)
           firings == FiringUpTo(Evaluated(h))
<1>2. TriggersOf(screen') \o PendingLines(todo)' = lines
  BY Zenon
<1>3. FiringUpTo(Evaluated(g)') = firings
  BY Zenon
<1>4. /\ Shown => \A n \in 1..Len(screen') : screen'[n].k \in {"message", "trigger"}
      /\ ~Shown => \A n \in 1..Len(screen') : screen'[n].k # "trigger"
  BY <1>1, Zenon
<1>5. Shown => Matches(lines, firings)
  BY <1>1, Zenon
<1> HIDE DEF lines, firings
<1>6. QED
  BY <1>2, <1>3, <1>4, <1>5, ReportNext

LEMMA ScreenAppended ==
    ASSUME TypeInv, NEW l \in LineSet, screen' = Append(screen, l)
    PROVE  /\ (\A n \in 1..Len(screen) : screen[n].k \in {"message", "trigger"})
              /\ l.k \in {"message", "trigger"}
                  => \A n \in 1..Len(screen') : screen'[n].k \in {"message", "trigger"}
           /\ (\A n \in 1..Len(screen) : screen[n].k # "trigger") /\ l.k # "trigger"
                  => \A n \in 1..Len(screen') : screen'[n].k # "trigger"
<1>1. screen \in Seq(LineSet)
  BY DEF TypeInv
<1>2. /\ Len(screen') = Len(screen) + 1 /\ screen'[Len(screen) + 1] = l
      /\ \A n \in 1..Len(screen) : screen'[n] = screen[n]
  BY <1>1, AppendProperties
<1>3. Len(screen) \in Nat
  BY <1>1
<1>4. ASSUME NEW n \in 1..Len(screen'), n # Len(screen) + 1 PROVE n \in 1..Len(screen)
  BY <1>2, <1>3, <1>4
<1>5. QED
  BY <1>2, <1>4, Zenon

(* Printing a message changes no trigger.                                  *)
LEMMA ReportMessage ==
    ASSUME TypeInv, config' = config, file' = file, config # <<>>,
           NEW h, NEW g, ReportInv(h),
           PendingLines(todo)' = PendingLines(todo), Evaluated(g)' = Evaluated(h),
           NEW l \in LineSet, l.k = "message", screen' = Append(screen, l)
    PROVE  ReportInv(g)'
<1>1. /\ Shown => Matches(TriggersOf(screen) \o PendingLines(todo),
                          FiringUpTo(Evaluated(h)))
      /\ Shown => \A n \in 1..Len(screen) : screen[n].k \in {"message", "trigger"}
      /\ ~Shown => \A n \in 1..Len(screen) : screen[n].k # "trigger"
  BY ReportNow
<1> DEFINE lines == TriggersOf(screen) \o PendingLines(todo)
           firings == FiringUpTo(Evaluated(h))
<1>2. TriggersOf(screen') = TriggersOf(screen)
  <2>1. screen \in Seq(LineSet)
    BY DEF TypeInv
  <2>2. TriggersOf(screen) \in Seq(LineSet)
        /\ TriggersOf(screen') = TriggersOf(screen)
                                     \o (IF l.k = "trigger" THEN <<l>> ELSE <<>>)
    BY <2>1, TriggersAppend, Zenon
  <2>3. TriggersOf(screen') = TriggersOf(screen) \o <<>>
    BY <2>2
  <2>4. QED
    BY <2>2, <2>3, ConcatEmptySeq, Zenon
<1>3. TriggersOf(screen') \o PendingLines(todo)' = lines
  BY <1>2, Zenon
<1>4. FiringUpTo(Evaluated(g)') = firings
  BY Zenon
<1>5. l.k \in {"message", "trigger"} /\ l.k # "trigger"
  OBVIOUS
<1>6. /\ Shown => \A n \in 1..Len(screen') : screen'[n].k \in {"message", "trigger"}
      /\ ~Shown => \A n \in 1..Len(screen') : screen'[n].k # "trigger"
  BY <1>1, <1>5, ScreenAppended, Zenon
<1>7. Shown => Matches(lines, firings)
  BY <1>1, Zenon
<1> HIDE DEF lines, firings
<1>8. QED
  BY <1>3, <1>4, <1>6, <1>7, ReportNext

(***************************************************************************)
(* A trigger moves from what is pending to the screen.                     *)
(***************************************************************************)
LEMMA ReportTrigger ==
    ASSUME TypeInv, UnstartedInv, TodoInv, Trigger, NEW h, ReportInv(h)
    PROVE  ReportInv(h)'
<1>1. config' = config /\ file' = file /\ Doing("trigger") /\ config # <<>>
      /\ Emit("Triggers", TriggerLine)
  BY DEF Trigger, Doing, Running, TriggerLine
<1>2. TriggerLine \in LineSet /\ TriggerLine.k = "trigger"
      /\ TriggerLine = LineOf(Head(todo))
  BY <1>1, TriggerLineIs
<1>3. PendingLines(todo) = <<LineOf(Head(todo))>> \o PendingLines(todo)'
      /\ PendingLines(todo)' \in Seq(AllLines)
      /\ Evaluated(h)' = Evaluated(h)
  BY PendingTrigger
<1>4. Emits("Triggers") <=> Shown
  <2>1. config.verbosity \in Kinds
    BY <1>1, LineTypes DEF TypeInv
  <2>2. QED
    BY <2>1, Levels
<1>5. /\ Shown => Matches(TriggersOf(screen) \o PendingLines(todo),
                          FiringUpTo(Evaluated(h)))
      /\ Shown => \A n \in 1..Len(screen) : screen[n].k \in {"message", "trigger"}
      /\ ~Shown => \A n \in 1..Len(screen) : screen[n].k # "trigger"
  BY <1>1, ReportNow
<1>6. screen \in Seq(LineSet)
  BY DEF TypeInv
<1>7. TriggersOf(screen) \in Seq(LineSet)
  BY <1>6, TriggersType, Zenon
<1> DEFINE rest == PendingLines(todo)'
           lines == TriggersOf(screen') \o rest
           firings == FiringUpTo(Evaluated(h))
           l == TriggerLine
<1>8. FiringUpTo(Evaluated(h)') = firings
  BY <1>3, Zenon
<1>9. CASE Shown
  <2>1. screen' = Append(screen, l)
    BY <1>1, <1>4, <1>9 DEF Emit
  <2>2. TriggersOf(screen') = TriggersOf(screen) \o <<l>>
    <3>1. TriggersOf(Append(screen, l)) = TriggersOf(screen)
                                           \o (IF l.k = "trigger" THEN <<l>> ELSE <<>>)
      BY <1>2, <1>6, TriggersAppend, Zenon
    <3>2. QED
      BY <1>2, <2>1, <3>1, Zenon
  <2>3. PendingLines(todo) = <<l>> \o rest /\ rest \in Seq(AllLines)
    BY <1>2, <1>3, Zenon
  <2>4. \A n \in 1..Len(screen') : screen'[n].k \in {"message", "trigger"}
    <3>1. l.k \in {"message", "trigger"}
      BY <1>2
    <3>2. QED
      BY <1>2, <1>5, <1>9, <2>1, <3>1, ScreenAppended, Zenon
  <2>5. l \in LineSet
    BY <1>2
  <2> HIDE DEF l, rest
  <2>6. (TriggersOf(screen) \o <<l>>) \o rest = TriggersOf(screen) \o (<<l>> \o rest)
    <3> DEFINE A == LineSet \cup AllLines
               before == TriggersOf(screen)
               one == <<l>>
    <3>1. before \in Seq(A) /\ one \in Seq(A) /\ rest \in Seq(A)
      BY <1>7, <2>3, <2>5
    <3> HIDE DEF A, before, one
    <3>2. (before \o one) \o rest = before \o (one \o rest)
      BY <3>1, ConcatAssociative
    <3>3. QED
      BY <3>2, Zenon DEF before, one
  <2>7. lines = TriggersOf(screen) \o PendingLines(todo)
    BY <2>2, <2>3, <2>6, Zenon
  <2>8. Matches(lines, firings)
    BY <1>5, <1>9, <2>7, Zenon
  <2>9. TriggersOf(screen') \o PendingLines(todo)' = lines
    BY Zenon DEF rest
  <2> HIDE DEF lines, firings
  <2>10. QED
    BY <1>1, <1>8, <1>9, <2>4, <2>8, <2>9, ReportNext
<1>10. CASE ~Shown
  <2>1. screen' = screen
    BY <1>1, <1>4, <1>10 DEF Emit
  <2>2. \A n \in 1..Len(screen') : screen'[n].k # "trigger"
    BY <1>5, <1>10, <2>1, Zenon
  <2>3. TriggersOf(screen') \o PendingLines(todo)' = lines
    OBVIOUS
  <2> HIDE DEF lines, firings
  <2>4. QED
    BY <1>1, <1>8, <1>10, <2>2, <2>3, ReportNext
<1>11. QED
  BY <1>9, <1>10

(* An evaluation appends the lines of its row.                             *)
LEMMA ReportEvaluated ==
    ASSUME TypeInv, UnstartedInv, ReaderInv, TodoInv, StartInv,
           NEW h \in 0..reader.rows, QueueInv(h), EvalEvent, ReportInv(h)
    PROVE  ReportInv(h)'
<1>1. config' = config /\ file' = file /\ config # <<>> /\ screen' = screen
  BY DEF EvalEvent, Doing, Running, display
<1>2. PendingEvaluation(h)
  BY PendingEvaluated
<1>3. /\ Shown => Matches(TriggersOf(screen) \o PendingLines(todo),
                          FiringUpTo(Evaluated(h)))
      /\ Shown => \A n \in 1..Len(screen) : screen[n].k \in {"message", "trigger"}
      /\ ~Shown => \A n \in 1..Len(screen) : screen[n].k # "trigger"
  BY <1>1, ReportNow
<1> DEFINE pending == PendingLines(todo)'
           lines == TriggersOf(screen') \o pending
           seen == TriggersOf(screen)
           firings == FiringUpTo(h)
<1>4. Evaluated(h) = h - 1 /\ Evaluated(h)' = h
  BY <1>2 DEF Evaluated, PendingEvaluation
<1>5. seen \in Seq(LineSet)
  BY TriggersType DEF TypeInv
<1>6. Shown => Matches(seen, FiringUpTo(h - 1))
  <2>1. TriggersOf(screen) \o PendingLines(todo) = seen
    BY <1>2, <1>5, ConcatEmptySeq, Zenon DEF PendingEvaluation
  <2>2. QED
    BY <1>3, <1>4, <2>1, Zenon
<1>7. pending \in Seq(AllLines) /\ Matches(pending, FiringOf(h))
      /\ h \in 1..NumRows /\ NumRows \in Nat
  BY <1>2 DEF PendingEvaluation
<1>8. FiringUpTo(h) = FiringUpTo(h - 1) \o FiringOf(h)
  <2>1. h - 1 \in 0..NumRows /\ h - 1 # NumRows /\ (h - 1) + 1 = h
    BY <1>7
  <2>2. FiringUpTo((h - 1) + 1) = FiringUpTo(h - 1) \o FiringOf((h - 1) + 1)
    BY <1>7, <2>1, FiringUpToNext, Zenon
  <2>3. QED
    BY <2>1, <2>2, Zenon
<1> HIDE DEF pending, seen
<1>9. Shown => Matches(seen \o pending, FiringUpTo(h - 1) \o FiringOf(h))
  <2>1. SUFFICES ASSUME Shown PROVE Matches(seen \o pending, FiringUpTo(h - 1) \o FiringOf(h))
    OBVIOUS
  <2> DEFINE A == LineSet \cup AllLines
  <2>2. seen \in Seq(A) /\ pending \in Seq(A)
    BY <1>5, <1>7
  <2>3. FiringUpTo(h - 1) \in Seq(FiringSet) /\ FiringOf(h) \in Seq(FiringSet)
    <3>1. h - 1 \in 0..NumRows /\ h \in Nat
      BY <1>7
    <3>2. FiringUpTo(h - 1) \in Seq(FiringSet)
      BY <1>7, <3>1, FiringUpToType, Zenon
    <3>3. FiringOf(h) \in Seq(FiringSet)
      BY <3>1, FiringOfIs
    <3>4. QED
      BY <3>2, <3>3
  <2> HIDE DEF A
  <2>4. Matches(seen, FiringUpTo(h - 1)) /\ Matches(pending, FiringOf(h))
    BY <1>6, <1>7, <2>1
  <2>5. QED
    BY <2>2, <2>3, <2>4, MatchesConcat, Zenon
<1>10. lines = seen \o pending
  BY <1>1, Zenon DEF seen
<1>11. Shown => Matches(lines, firings)
  BY <1>8, <1>9, <1>10, Zenon
<1>12. FiringUpTo(Evaluated(h)') = firings
  BY <1>4, Zenon
<1>13. TriggersOf(screen') \o PendingLines(todo)' = lines
  BY Zenon DEF pending
<1>14. /\ Shown => \A n \in 1..Len(screen') : screen'[n].k \in {"message", "trigger"}
       /\ ~Shown => \A n \in 1..Len(screen') : screen'[n].k # "trigger"
  BY <1>1, <1>3, Zenon
<1> HIDE DEF lines, firings
<1>15. QED
  BY <1>1, <1>11, <1>12, <1>13, <1>14, ReportNext

ReportSteps ==
    \/ EvalEvent \/ Trigger \/ Prints \/ CountEvent \/ ReceiveStart
    \/ TerminateClears \/ TerminateEvents \/ TerminateTriggers
    \/ ProgressWakes \/ ProgressEvents \/ ProgressTriggers
    \/ UNCHANGED <<screen, todo, startTime, counts>>

LEMMA ReportStepsAre ==
    ASSUME [Next]_vars, config # <<>>, ~Receive
    PROVE  ReportSteps /\ config' = config /\ file' = file
BY DEF ReportSteps, Next, vars, source, main, display, Ends, BadArguments, Configure, Setup,
       ReadRow, PanicOnRow, EndOfFile, NoSuchColumn, ExitOnRow, HungUp, Doing, Rest,
       NoStart, NotMonotonic, Leave, Tick, Stopped, EvalEvent, Trigger, Prints, CountEvent,
       ReceiveStart, TerminateClears, TerminateEvents, TerminateTriggers,
       ProgressWakes, ProgressEvents, ProgressTriggers

LEMMA ReportCounting ==
    ASSUME config' = config, file' = file, Counts, NEW g,
           \A n \in 1..Len(screen') : screen'[n].k # "trigger"
    PROVE  ReportInv(g)'
<1>1. ~Shown
  BY CountsNotShown
<1>2. ~Shown'
  BY <1>1, FrozenSteps
<1>3. QED
  BY <1>2, Zenon DEF ReportInv

LEMMA PendingSame ==
    ASSUME config' = config, todo' = todo, startTime' = startTime, NEW h
    PROVE  PendingLines(todo)' = PendingLines(todo) /\ Evaluated(h)' = Evaluated(h)
<1>1. \A s : PendingLines(s)' = PendingLines(s)
  BY FrozenLines
<1>2. PendingLines(todo)' = PendingLines(todo)
  BY <1>1, Zenon
<1>3. Job' = Job
  BY DEF Job
<1>4. QED
  BY <1>2, <1>3 DEF Evaluated

(***************************************************************************)
(* The statistics are only on the screen of a run that counts.             *)
(***************************************************************************)
LEMMA StatisticsReport ==
    ASSUME TypeInv, TodoInv, ScreenInv, config # <<>>, config' = config, file' = file,
           NEW h, ReportInv(h),
           \/ TerminateClears \/ TerminateEvents \/ TerminateTriggers
           \/ ProgressWakes \/ ProgressEvents \/ ProgressTriggers
    PROVE  ReportInv(h)'
<1>1. Counts
  <2>1. CASE TerminateClears \/ TerminateEvents \/ TerminateTriggers
    <3>1. todo # <<>> /\ Head(todo).do \in {"clear", "events", "triggers"}
      BY <2>1 DEF TerminateClears, TerminateEvents, TerminateTriggers, Doing
    <3>2. Reports1
      BY <3>1, DoOf DEF DoFacts
    <3>3. QED
      BY <3>2 DEF Reports1
  <2>2. CASE ProgressWakes \/ ProgressEvents \/ ProgressTriggers
    <3>1. progress # "off"
      BY <2>2 DEF ProgressWakes, ProgressEvents, ProgressTriggers
    <3>2. QED
      BY <3>1 DEF ScreenInv
  <2>3. QED
    BY <2>1, <2>2
<1>2. \A n \in 1..Len(screen) : screen[n].k # "trigger"
  BY <1>1, CountsNotShown, ReportNow
<1>3. ASSUME screen' = Cleared(screen), Cleared(screen) = <<>>
      PROVE  \A n \in 1..Len(screen') : screen'[n].k # "trigger"
  <2>1. \A n \in 1..Len(screen') : FALSE
    BY <1>3
  <2>2. QED
    BY <2>1, Zenon
<1>4. ASSUME NEW l \in {EventsLine, TriggersLine}, screen' = Append(screen, l)
      PROVE  \A n \in 1..Len(screen') : screen'[n].k # "trigger"
  <2>1. l \in LineSet /\ l.k # "trigger"
    BY StatisticsLines DEF EventsLine, TriggersLine
  <2>2. QED
    BY <1>2, <1>4, <2>1, ScreenAppended, Zenon
<1>5. \A n \in 1..Len(screen') : screen'[n].k # "trigger"
  <2>1. CASE TerminateClears
    <3>1. lock = "free" /\ Doing("clear") /\ screen' = Cleared(screen)
      BY <2>1 DEF TerminateClears
    <3>2. QED
      BY <1>3, <3>1, TwoLines
  <2>2. CASE TerminateEvents \/ ProgressEvents
    BY <1>4, <2>2 DEF TerminateEvents, ProgressEvents
  <2>3. CASE TerminateTriggers \/ ProgressTriggers
    BY <1>4, <2>3 DEF TerminateTriggers, ProgressTriggers
  <2>4. CASE ProgressWakes
    <3>1. CASE done
      BY <1>2, <2>4, <3>1 DEF ProgressWakes
    <3>2. CASE ~done
      <4>1. lock = "free" /\ progress = "sleeps" /\ screen' = Cleared(screen)
        BY <2>4, <3>2 DEF ProgressWakes
      <4>2. QED
        BY <1>3, <3>2, <4>1, TwoLines
    <3>3. QED
      BY <3>1, <3>2
  <2>5. QED
    BY <2>1, <2>2, <2>3, <2>4
<1>6. QED
  BY <1>1, <1>5, ReportCounting

(* Every step keeps the triggers that are printed or pending.              *)
LEMMA ReportStep ==
    ASSUME TypeInv, UnstartedInv, ReaderInv, TodoInv, StartInv, ScreenInv,
           NEW h \in 0..reader.rows, QueueInv(h), ReportInv(h),
           [Next]_vars, config # <<>>, ~Receive
    PROVE  ReportInv(h)'
<1>1. ReportSteps /\ config' = config /\ file' = file
  BY ReportStepsAre
<1>2. CASE EvalEvent
  BY <1>2, ReportEvaluated
<1>3. CASE Trigger
  BY <1>3, ReportTrigger
<1>4. CASE Prints
  <2>1. todo # <<>> /\ todo' = Tail(todo) /\ Head(todo).do = "message"
        /\ startTime' = startTime /\ Doing("message")
        /\ Emit(Head(todo).kind, Message(Head(todo).kind))
    BY <1>4 DEF Prints, Doing, Rest
  <2>2. PendingLines(todo)' = PendingLines(todo) /\ Evaluated(h)' = Evaluated(h)
    BY <1>1, <2>1, PendingDone
  <2> DEFINE l == Message(Head(todo).kind)
  <2>3. l \in LineSet
    BY <2>1, NoteKind
  <2>4. l.k = "message"
    BY DEF Message
  <2>5. screen' = screen \/ screen' = Append(screen, l)
    BY <2>1 DEF Emit
  <2> HIDE DEF l
  <2>6. QED
    BY <1>1, <2>2, <2>3, <2>4, <2>5, ReportKept, ReportMessage
<1>5. CASE CountEvent \/ ReceiveStart
  <2>1. todo # <<>> /\ todo' = Tail(todo) /\ Head(todo).do \in {"count", "start"}
        /\ (startTime' = startTime \/ Head(todo).do = "start") /\ screen' = screen
    BY <1>5 DEF CountEvent, ReceiveStart, Doing, Rest, display
  <2>2. PendingLines(todo)' = PendingLines(todo) /\ Evaluated(h)' = Evaluated(h)
    BY <1>1, <2>1, PendingDone
  <2>3. QED
    BY <1>1, <2>1, <2>2, ReportKept
<1>6. CASE \/ TerminateClears \/ TerminateEvents \/ TerminateTriggers
           \/ ProgressWakes \/ ProgressEvents \/ ProgressTriggers
  BY <1>1, <1>6, StatisticsReport
<1>7. CASE UNCHANGED <<screen, todo, startTime, counts>>
  <2>1. PendingLines(todo)' = PendingLines(todo) /\ Evaluated(h)' = Evaluated(h)
    BY <1>1, <1>7, PendingSame
  <2>2. QED
    BY <1>1, <1>7, <2>1, ReportKept
<1>8. QED
  BY <1>1, <1>2, <1>3, <1>4, <1>5, <1>6, <1>7 DEF ReportSteps

(***************************************************************************)
(* The counters.                                                           *)
(***************************************************************************)
EventsCounted(h) == IF Job = "evaluate" /\ Len(todo) > 1 THEN h - 1 ELSE h

LEMMA CountsNext ==
    ASSUME config' = config, file' = file, NEW g, NEW n,
           FiringUpTo(Evaluated(g)') = n,
           Counts => /\ counts'.events = EventsCounted(g)'
                     /\ counts'.triggers + Len(PendingLines(todo)') = Len(n)
    PROVE  CountsInv(g)'
<1>1. \A i : FiringUpTo(i)' = FiringUpTo(i)
  BY FrozenFile
<1>2. FiringUpTo(Evaluated(g))' = n
  BY <1>1, Zenon
<1>3. Counts' <=> Counts
  BY FrozenSteps
<1>4. QED
  BY <1>2, <1>3, Zenon DEF CountsInv, EventsCounted

LEMMA CountsNow ==
    ASSUME config # <<>>, NEW h, CountsInv(h), Counts
    PROVE  /\ counts.events = EventsCounted(h)
           /\ counts.triggers + Len(PendingLines(todo)) = Len(FiringUpTo(Evaluated(h)))
BY Zenon DEF CountsInv, EventsCounted

LEMMA CountsKept ==
    ASSUME config' = config, file' = file, config # <<>>, NEW h, NEW g, CountsInv(h),
           PendingLines(todo)' = PendingLines(todo), Evaluated(g)' = Evaluated(h),
           Counts => counts'.triggers = counts.triggers,
           Counts => counts'.events = EventsCounted(g)'
    PROVE  CountsInv(g)'
<1> DEFINE firings == FiringUpTo(Evaluated(h))
<1>1. FiringUpTo(Evaluated(g)') = firings
  BY Zenon
<1>2. ASSUME Counts
      PROVE  counts'.triggers + Len(PendingLines(todo)') = Len(firings)
  <2>1. counts.triggers + Len(PendingLines(todo)) = Len(firings)
    BY <1>2, CountsNow
  <2>2. QED
    BY <1>2, <2>1, Zenon
<1> HIDE DEF firings
<1>3. QED
  BY <1>1, <1>2, CountsNext

-----------------------------------------------------------------------------
(* What is counted.                                                        *)

LEMMA CountsEvaluated ==
    ASSUME TypeInv, UnstartedInv, ReaderInv, TodoInv, StartInv,
           NEW h \in 0..reader.rows, QueueInv(h), EvalEvent, CountsInv(h)
    PROVE  CountsInv(h)'
<1>1. config' = config /\ file' = file /\ config # <<>> /\ counts' = counts
  BY DEF EvalEvent, Doing, Running
<1>2. PendingEvaluation(h)
  BY PendingEvaluated
<1>3. Evaluated(h) = h - 1 /\ Evaluated(h)' = h /\ EventsCounted(h) = h
      /\ EventsCounted(h)' = h
  BY <1>2 DEF Evaluated, EventsCounted, PendingEvaluation
<1> DEFINE firings == FiringUpTo(h) pending == PendingLines(todo)'
<1>4. FiringUpTo(Evaluated(h)') = firings
  BY <1>3, Zenon
<1>5. h \in 1..NumRows /\ NumRows \in Nat /\ pending \in Seq(AllLines)
      /\ Matches(pending, FiringOf(h))
  BY <1>2 DEF PendingEvaluation
<1>6. Len(firings) = Len(FiringUpTo(h - 1)) + Len(pending)
  <2>1. h - 1 \in 0..NumRows /\ h - 1 # NumRows /\ (h - 1) + 1 = h /\ h \in Nat
    BY <1>5
  <2>2. FiringUpTo((h - 1) + 1) = FiringUpTo(h - 1) \o FiringOf((h - 1) + 1)
    BY <1>5, <2>1, FiringUpToNext, Zenon
  <2>3. firings = FiringUpTo(h - 1) \o FiringOf(h)
    BY <2>1, <2>2, Zenon
  <2>4. FiringUpTo(h - 1) \in Seq(FiringSet)
    BY <1>5, <2>1, FiringUpToType, Zenon
  <2>5. FiringOf(h) \in Seq(FiringSet)
    BY <2>1, FiringOfIs
  <2>6. Len(pending) = Len(FiringOf(h))
    BY <1>5, Zenon DEF Matches
  <2> HIDE DEF firings, pending
  <2>7. QED
    BY <2>3, <2>4, <2>5, <2>6, ConcatProperties
<1>7. ASSUME Counts
      PROVE  /\ counts'.events = EventsCounted(h)'
             /\ counts'.triggers + Len(PendingLines(todo)') = Len(firings)
  <2>1. counts.events = EventsCounted(h)
        /\ counts.triggers + Len(PendingLines(todo)) = Len(FiringUpTo(Evaluated(h)))
    BY <1>1, <1>7, CountsNow
  <2>2. Len(PendingLines(todo)) = 0
    <3>1. PendingLines(todo) = <<>>
      BY <1>2 DEF PendingEvaluation
    <3>2. Len(<<>>) = 0
      OBVIOUS
    <3>3. QED
      BY <3>1, <3>2, Zenon
  <2>3. counts.triggers \in Nat
    BY DEF TypeInv
  <2>4. counts.triggers = Len(FiringUpTo(h - 1))
    <3>1. Len(FiringUpTo(Evaluated(h))) = Len(FiringUpTo(h - 1))
      BY <1>3, Zenon
    <3>2. QED
      BY <2>1, <2>2, <2>3, <3>1
  <2>5. Len(FiringUpTo(h - 1)) \in Nat /\ Len(pending) \in Nat
    BY <1>5, <2>3, <2>4
  <2> HIDE DEF firings, pending
  <2>6. counts'.triggers + Len(pending) = Len(firings)
    BY <1>1, <1>6, <2>4
  <2>7. QED
    BY <1>1, <1>3, <2>1, <2>6, Zenon DEF pending
<1> HIDE DEF firings, pending
<1>8. QED
  BY <1>1, <1>4, <1>7, CountsNext

LEMMA CountsTrigger ==
    ASSUME TypeInv, TodoInv, Trigger, NEW h, CountsInv(h)
    PROVE  CountsInv(h)'
<1>1. config' = config /\ file' = file /\ config # <<>> /\ todo # <<>>
      /\ Head(todo).do = "trigger" /\ todo' = Tail(todo)
      /\ counts' = IF Counts THEN [counts EXCEPT !.triggers = @ + 1] ELSE counts
  BY DEF Trigger, Doing, Running, Rest
<1>2. PendingLines(todo) = <<LineOf(Head(todo))>> \o PendingLines(todo)'
      /\ PendingLines(todo)' \in Seq(AllLines)
      /\ Evaluated(h)' = Evaluated(h)
  BY PendingTrigger
<1> DEFINE firings == FiringUpTo(Evaluated(h)) pending == PendingLines(todo)'
           l == LineOf(Head(todo))
<1>3. FiringUpTo(Evaluated(h)') = firings
  BY <1>2, Zenon
<1>4. EventsCounted(h) = h /\ EventsCounted(h)' = h
  <2>1. Job \in {"message", "trigger"}
    BY <1>1, DoOf DEF DoFacts
  <2>2. Job' \in {"idle", Job}
    BY <1>1, DoneIs DEF Done1
  <2>3. QED
    BY <2>1, <2>2 DEF EventsCounted
<1>5. Len(PendingLines(todo)) = Len(pending) + 1 /\ Len(pending) \in Nat
  <2>1. l \in AllLines
    BY <1>1, HeadIsAStep DEF AllLines
  <2>2. PendingLines(todo) = <<l>> \o pending /\ pending \in Seq(AllLines)
    BY <1>2, Zenon
  <2> HIDE DEF l, pending
  <2>3. <<l>> \in Seq(AllLines) /\ Len(<<l>>) = 1
    BY <2>1
  <2>4. QED
    BY <2>2, <2>3, ConcatProperties
<1>6. ASSUME Counts
      PROVE  /\ counts'.events = EventsCounted(h)'
             /\ counts'.triggers + Len(PendingLines(todo)') = Len(firings)
  <2>1. counts.events = EventsCounted(h)
        /\ counts.triggers + Len(PendingLines(todo)) = Len(firings)
    BY <1>1, <1>6, CountsNow
  <2>2. counts \in [events : Nat, triggers : Nat]
    BY DEF TypeInv
  <2>3. counts'.events = counts.events /\ counts'.triggers = counts.triggers + 1
    BY <1>1, <1>6, <2>2
  <2> HIDE DEF firings, pending
  <2>4. counts'.triggers + Len(pending) = Len(firings)
    BY <1>5, <2>1, <2>2, <2>3
  <2>5. QED
    BY <1>4, <2>1, <2>3, <2>4, Zenon DEF pending
<1> HIDE DEF firings, pending
<1>7. QED
  BY <1>1, <1>3, <1>6, CountsNext

(* Every step keeps the counts.                                            *)
LEMMA CountsStep ==
    ASSUME TypeInv, UnstartedInv, ReaderInv, TodoInv, StartInv,
           NEW h \in 0..reader.rows, QueueInv(h), CountsInv(h),
           [Next]_vars, config # <<>>, ~Receive
    PROVE  CountsInv(h)'
<1>1. ReportSteps /\ config' = config /\ file' = file
  BY ReportStepsAre
<1>2. h \in Nat
  BY DEF TypeInv
<1>3. CASE EvalEvent
  BY <1>3, CountsEvaluated
<1>4. CASE Trigger
  BY <1>4, CountsTrigger
<1>5. CASE CountEvent
  <2>1. todo # <<>> /\ todo' = Tail(todo) /\ Head(todo).do = "count"
        /\ startTime' = startTime
        /\ counts' = IF Counts THEN [counts EXCEPT !.events = @ + 1] ELSE counts
    BY <1>5 DEF CountEvent, Doing, Rest
  <2>2. PendingLines(todo)' = PendingLines(todo) /\ Evaluated(h)' = Evaluated(h)
    BY <1>1, <2>1, PendingDone
  <2>3. Job = "evaluate" /\ Len(todo) = 2
    BY <2>1, DoOf DEF DoFacts
  <2>4. Len(todo') = 1
    BY <2>1, <2>3, DoneIs DEF Done1
  <2>5. EventsCounted(h) = h - 1 /\ EventsCounted(h)' = h
    BY <2>3, <2>4 DEF EventsCounted
  <2>6. counts \in [events : Nat, triggers : Nat]
    BY DEF TypeInv
  <2>7. ASSUME Counts
        PROVE  counts'.triggers = counts.triggers /\ counts'.events = EventsCounted(h)'
    <3>1. counts.events = EventsCounted(h)
      BY <1>1, <2>7, CountsNow
    <3>2. counts'.triggers = counts.triggers /\ counts'.events = counts.events + 1
      BY <2>1, <2>6, <2>7
    <3>3. QED
      BY <1>2, <2>5, <3>1, <3>2
  <2>8. QED
    BY <1>1, <2>2, <2>7, CountsKept
<1>6. CASE \/ Prints \/ ReceiveStart
           \/ TerminateClears \/ TerminateEvents \/ TerminateTriggers
  <2>1. todo # <<>> /\ todo' = Tail(todo)
        /\ Head(todo).do \in {"message", "start", "clear", "events", "triggers"}
        /\ (startTime' = startTime \/ Head(todo).do = "start") /\ counts' = counts
    BY <1>6 DEF Prints, ReceiveStart, TerminateClears, TerminateEvents, TerminateTriggers,
                Doing, Rest
  <2>2. PendingLines(todo)' = PendingLines(todo) /\ Evaluated(h)' = Evaluated(h)
    BY <1>1, <2>1, PendingDone
  <2>3. EventsCounted(h)' = EventsCounted(h)
    <3>1. Done1
      BY <2>1, DoneIs
    <3>2. CASE Job = "evaluate"
      <4>1. Len(todo) > 2
        BY <2>1, <3>2, DoOf DEF DoFacts
      <4>2. Len(todo) \in Nat /\ Len(todo) # 1 /\ Len(todo') > 1 /\ Len(todo) > 1
        BY <3>1, <4>1 DEF Done1
      <4>3. Job' = Job
        BY <3>1, <4>2 DEF Done1
      <4>4. QED
        BY <3>2, <4>2, <4>3 DEF EventsCounted
    <3>3. CASE Job # "evaluate"
      <4>1. Job' # "evaluate"
        BY <3>1, <3>3 DEF Done1
      <4>2. QED
        BY <3>3, <4>1 DEF EventsCounted
    <3>4. QED
      BY <3>2, <3>3
  <2>4. ASSUME Counts
        PROVE  counts'.triggers = counts.triggers /\ counts'.events = EventsCounted(h)'
    <3>1. counts.events = EventsCounted(h)
      BY <1>1, <2>4, CountsNow
    <3>2. QED
      BY <2>1, <2>3, <3>1, Zenon
  <2>5. QED
    BY <1>1, <2>2, <2>4, CountsKept
<1>7. CASE \/ ProgressWakes \/ ProgressEvents \/ ProgressTriggers
           \/ UNCHANGED <<screen, todo, startTime, counts>>
  <2>1. UNCHANGED <<todo, startTime, counts>>
    BY <1>7 DEF ProgressWakes, ProgressEvents, ProgressTriggers, main
  <2>2. PendingLines(todo)' = PendingLines(todo) /\ Evaluated(h)' = Evaluated(h)
    BY <1>1, <2>1, PendingSame
  <2>3. EventsCounted(h)' = EventsCounted(h)
    BY <2>1 DEF EventsCounted, Job
  <2>4. ASSUME Counts
        PROVE  counts'.triggers = counts.triggers /\ counts'.events = EventsCounted(h)'
    <3>1. counts.events = EventsCounted(h)
      BY <1>1, <2>4, CountsNow
    <3>2. QED
      BY <2>1, <2>3, <3>1, Zenon
  <2>5. QED
    BY <1>1, <2>2, <2>4, CountsKept
<1>8. QED
  BY <1>1, <1>3, <1>4, <1>5, <1>6, <1>7 DEF ReportSteps

-----------------------------------------------------------------------------
(* Receiving and configuring.                                              *)

(* Receiving keeps both.                                                   *)
LEMMA ReceiveReport ==
    ASSUME TypeInv, todo' \in Seq(StepSet), NEW h \in 0..reader.rows, NEW g, Receive,
           (ReceivesEnd /\ g = h) \/ (ReceivesEvent /\ g = h + 1),
           ReportInv(h), CountsInv(h)
    PROVE  ReportInv(g)' /\ CountsInv(g)'
<1>1. config' = config /\ file' = file /\ config # <<>> /\ screen' = screen
      /\ counts' = counts /\ todo = <<>>
  BY DEF Receive, Running, display
<1>2. h \in Nat
  BY DEF TypeInv
<1>3. Job = "idle"
  BY <1>1 DEF Job, JobOf
<1>4. Evaluated(h) = h /\ EventsCounted(h) = h
  BY <1>3 DEF Evaluated, EventsCounted
<1>5. Evaluated(g)' = h /\ EventsCounted(g)' = h
  <2>1. CASE ReceivesEnd /\ g = h
    BY <2>1 DEF Evaluated, EventsCounted, ReceivesEnd
  <2>2. CASE ReceivesEvent /\ g = h + 1
    <3>1. Job' = "evaluate" /\ Len(todo') \in {3, 4} /\ g = h + 1
      BY <2>2, Zenon DEF ReceivesEvent
    <3>2. Len(todo') > 1 /\ g - 1 = h
      <4>1. Len(todo') = 3 \/ Len(todo') = 4
        BY <3>1
      <4>2. Len(todo') > 1
        <5>1. \A n : n = 3 \/ n = 4 => n > 1
          OBVIOUS
        <5>2. QED
          BY <4>1, <5>1, Zenon
      <4>3. g = h + 1
        BY <3>1
      <4>4. g - 1 = h
        BY <1>2, <4>3
      <4>5. QED
        BY <4>2, <4>4
    <3>3. QED
      BY <3>1, <3>2 DEF Evaluated, EventsCounted
  <2>3. QED
    BY <2>1, <2>2
<1>6. PendingLines(todo)' = PendingLines(todo)
  BY PendingReceived
<1>7. Evaluated(g)' = Evaluated(h)
  BY <1>4, <1>5
<1>8. ReportInv(g)'
  BY <1>1, <1>6, <1>7, ReportKept
<1>9. ASSUME Counts
      PROVE  counts'.triggers = counts.triggers /\ counts'.events = EventsCounted(g)'
  <2>1. counts.events = EventsCounted(h)
    BY <1>1, <1>9, CountsNow
  <2>2. QED
    BY <1>1, <1>4, <1>5, <2>1, Zenon
<1>10. CountsInv(g)'
  BY <1>1, <1>6, <1>7, <1>9, CountsKept
<1>11. QED
  BY <1>8, <1>10

LEMMA PendingNone ==
    ASSUME \A n \in DOMAIN todo' : todo'[n].do # "trigger", todo' \in Seq(StepSet)
    PROVE  PendingLines(todo)' = <<>>
<1>1. PendingLines(todo)' = PendingLines(todo')
  BY DEF PendingLines
<1>2. PendingLines(todo') = <<>>
  <2>1. \A n \in 1..Len(todo') : todo'[n].do # "trigger"
    BY LenProperties, Zenon
  <2>2. QED
    BY <2>1, PendingNothing, Zenon
<1>3. QED
  BY <1>1, <1>2, Zenon

(* At the start both are empty.                                            *)
LEMMA ConfigureReport ==
    ASSUME TypeInv, UnstartedInv, Configure
    PROVE  ReportInv(0)' /\ CountsInv(0)'
<1>1. /\ config = <<>> /\ file' = file /\ config' # <<>>
      /\ counts' = [events |-> 0, triggers |-> 0] /\ screen = <<>>
      /\ todo' = IF line.online THEN <<>> ELSE <<[do |-> "start"]>>
      /\ IF Counts' THEN screen' = <<EventsLine, TriggersLine>> ELSE screen' = screen
  <2>1. config' # <<>>
    BY ConfigIsSome DEF Configure
  <2>2. QED
    BY <2>1 DEF Configure, UnstartedInv, Counts
<1>2. PendingLines(todo)' = <<>>
  <2>1. \A n \in DOMAIN todo' : todo'[n].do # "trigger"
    BY <1>1
  <2>2. [do |-> "start"] \in StepSet
    BY DEF StepSet
  <2>3. todo' \in Seq(StepSet)
    BY <1>1, <2>2
  <2>4. QED
    BY <2>1, <2>3, PendingNone
<1>3. Job' # "evaluate"
  BY QueueConfigure
<1>4. Evaluated(0)' = 0 /\ EventsCounted(0)' = 0
  BY <1>3 DEF Evaluated, EventsCounted
<1>5. FiringUpTo(Evaluated(0))' = <<>>
  <2>1. \A n : FiringUpTo(n)' = FiringUpTo(n)
    BY <1>1, FrozenFile
  <2>2. QED
    BY <1>4, <2>1, FiringUpToZero, Zenon
<1>6. Len(<<>>) = 0
  OBVIOUS
<1>7. ReportInv(0)'
  <2>1. CASE Counts'
    <3>1. ~Shown'
      BY <2>1 DEF Counts, Shown
    <3>2. \A n \in 1..Len(screen') : screen'[n].k # "trigger"
      <4> DEFINE e == EventsLine t == TriggersLine
      <4>1. e.k # "trigger" /\ t.k # "trigger"
        BY DEF EventsLine, TriggersLine
      <4>2. screen' = <<e, t>>
        BY <1>1, <2>1
      <4> HIDE DEF e, t
      <4>3. QED
        BY <4>1, <4>2
    <3>3. QED
      BY <3>1, <3>2, Zenon DEF ReportInv
  <2>2. CASE ~Counts'
    <3>1. screen' = <<>> /\ \A n \in 1..Len(screen') : FALSE
      BY <1>1, <2>2
    <3>2. TriggerLines' = <<>>
      <4>1. TriggerLines' = TriggersOf(screen')
        BY DEF TriggerLines, TriggersOf
      <4>2. screen' \in Seq(LineSet)
        BY <3>1
      <4>3. TriggersOf(screen') = <<>>
        BY <3>1, <4>2, TriggersNothing, Zenon
      <4>4. QED
        BY <4>1, <4>3, Zenon
    <3>3. (TriggerLines \o PendingLines(todo))' = <<>>
      <4>1. (TriggerLines \o PendingLines(todo))' = <<>> \o <<>>
        BY <1>2, <3>2, Zenon
      <4>2. <<>> \o <<>> = <<>>
        OBVIOUS
      <4>3. QED
        BY <4>1, <4>2, Zenon
    <3>4. Matches(TriggerLines \o PendingLines(todo), FiringUpTo(Evaluated(0)))'
      <4>1. \A n \in 1..Len(<<>>) : FALSE
        OBVIOUS
      <4>2. QED
        BY <1>5, <3>3, <4>1, Zenon DEF Matches
    <3>5. QED
      BY <3>1, <3>4, Zenon DEF ReportInv
  <2>3. QED
    BY <2>1, <2>2
<1>8. CountsInv(0)'
  <2>1. counts'.events = EventsCounted(0)'
    BY <1>1, <1>4
  <2>2. Len(PendingLines(todo)') = 0 /\ Len(FiringUpTo(Evaluated(0))') = 0
    BY <1>2, <1>5, <1>6, Zenon
  <2>3. counts'.triggers = 0
    BY <1>1
  <2>4. counts'.triggers + Len(PendingLines(todo)') = Len(FiringUpTo(Evaluated(0))')
    BY <2>2, <2>3
  <2>5. QED
    BY <2>1, <2>4, Zenon DEF CountsInv, EventsCounted
<1>9. QED
  BY <1>7, <1>8

(***************************************************************************)
(* After every step some number of rows was received, and what is printed, *)
(* pending and counted belongs to them.                                    *)
(***************************************************************************)
Received(h) == QueueInv(h) /\ ReportInv(h) /\ CountsInv(h)

LEMMA ReceivedStep ==
    ASSUME TypeInv, UnstartedInv, ReaderInv, TimerInv, TodoInv, StartInv, ScreenInv,
           EarlyInv, NEW h \in 0..reader.rows, Received(h), [Next]_vars
    PROVE  \E g \in 0..reader'.rows : Received(g)'
<1>1. QueueInv(h) /\ ReportInv(h) /\ CountsInv(h)
  BY DEF Received
<1>2. CASE Configure
  <2>1. QueueInv(0)' /\ reader'.rows = 0
    BY <1>2, QueueConfigure
  <2>2. ReportInv(0)' /\ CountsInv(0)'
    BY <1>2, ConfigureReport
  <2>3. 0 \in 0..reader'.rows
    BY <2>1
  <2>4. Received(0)'
    BY <2>1, <2>2 DEF Received
  <2>5. QED
    BY <2>3, <2>4
<1>3. CASE Receive
  <2>1. TypeInv'
    BY <1>1, TypeStep
  <2>2. todo' \in Seq(StepSet)
    BY <2>1 DEF TypeInv
  <2>3. reader' = reader
    BY <1>3 DEF Receive, source
  <2>4. CASE ReceivedEnd(h)
    <3>1. ReportInv(h)' /\ CountsInv(h)'
      BY <1>1, <1>3, <2>2, <2>4, ReceiveReport DEF ReceivedEnd
    <3>2. Received(h)'
      BY <2>4, <3>1 DEF ReceivedEnd, Received
    <3>3. QED
      BY <2>3, <3>2
  <2>5. CASE ReceivedEvent(h)
    <3> DEFINE g == h + 1
    <3>1. ReportInv(g)' /\ CountsInv(g)'
      BY <1>1, <1>3, <2>2, <2>5, ReceiveReport DEF ReceivedEvent
    <3>2. Received(g)' /\ g \in 0..reader'.rows
      BY <2>5, <3>1 DEF ReceivedEvent, Received
    <3>3. QED
      BY <3>2
  <2>6. QED
    BY <1>1, <1>3, <2>4, <2>5, QueueReceive
<1>4. CASE config # <<>> /\ ~Receive
  <2>1. QueueInv(h)' /\ h \in 0..reader'.rows
    BY <1>1, <1>4, QueueRead
  <2>2. ReportInv(h)'
    BY <1>1, <1>4, ReportStep
  <2>3. CountsInv(h)'
    BY <1>1, <1>4, CountsStep
  <2>4. QED
    BY <2>1, <2>2, <2>3 DEF Received
<1>5. CASE config = <<>> /\ ~Configure
  <2>1. UNCHANGED <<config, edm, reader, queue, todo, file, counts, startTime, screen>>
    BY <1>5 DEF Next, vars, source, main, display, Ends, BadArguments, Setup, ReadRow,
       Running, Reads,
       PanicOnRow, EndOfFile, NoSuchColumn, ExitOnRow, Receive, HungUp, Doing, Rest,
       ReceiveStart, NoStart, Prints, CountEvent, EvalEvent, NotMonotonic, Trigger,
       TerminateClears, TerminateEvents, TerminateTriggers, Leave, ProgressWakes,
       ProgressEvents, ProgressTriggers, Tick, Stopped
  <2>2. QueueInv(h)'
    <3>1. \A item, r : IsRow(item, r)' <=> IsRow(item, r)
      BY <2>1, FrozenRows
    <3>2. UNCHANGED <<EndQueued, NumQueued, Job, Pending>>
      BY <2>1 DEF EndQueued, NumQueued, Job, Pending
    <3>3. /\ EndQueued => queue # <<>> /\ queue[Len(queue)] = EndItem
          /\ \A n \in 1..NumQueued : IsRow(queue[n], h + n)
          /\ h + NumQueued <= reader.rows
          /\ edm # "panicked" => h + NumQueued = reader.rows
          /\ Job = "leave" => edm = "ended" /\ queue = <<>>
          /\ Job = "evaluate" => h > 0 /\ IsRow(Pending, h)
          /\ Job = "start" => h = 0
      BY <1>1, Zenon DEF QueueInv
    <3>4. \A n \in 1..NumQueued' : IsRow(queue[n], h + n)'
      BY <2>1, <3>1, <3>2, <3>3, Zenon
    <3>5. Job' = "evaluate" => h > 0 /\ IsRow(Pending, h)'
      BY <2>1, <3>1, <3>2, <3>3, Zenon
    <3>6. QED
      BY <2>1, <3>2, <3>3, <3>4, <3>5, QueueNext, Zenon
  <2>3. ReportInv(h)' /\ CountsInv(h)'
    BY <1>5, <2>1 DEF ReportInv, CountsInv
  <2>4. QED
    BY <2>1, <2>2, <2>3 DEF Received
<1>6. QED
  BY <1>2, <1>3, <1>4, <1>5

-----------------------------------------------------------------------------
(* The two threads and the screen.                                         *)

LEMMA FrozenFinal ==
    ASSUME file' = file
    PROVE  FinalLines' = FinalLines
<1>1. NumRows' = NumRows /\ Firing' = Firing
  BY FrozenFile
<1>2. QED
  BY <1>1 DEF FinalLines

(***************************************************************************)
(* Who reports at the end, or has reported, does nothing else before.      *)
(***************************************************************************)
LEMMA BusyHead ==
    ASSUME TypeInv, TodoInv, ScreenInv, config # <<>>, done \/ lock = "main"
    PROVE  /\ Counts /\ Job = "leave" /\ todo # <<>>
           /\ Head(todo).do \in {"leave", "events", "triggers"}
<1>1. Counts
  BY DEF ScreenInv
<1>2. Job = "leave" /\ (Len(todo) = 1 \/ (Offline /\ Len(todo) \in {2, 3}))
  BY <1>1 DEF ScreenInv
<1>3. todo # <<>>
  BY <1>2 DEF Job, JobOf
<1>4. Head(todo) = EndStep(Len(todo) - 1)
  BY <1>2, <1>3, HeadOf DEF HeadFacts
<1>5. CASE Len(todo) = 1
  <2>1. Head(todo) = EndStep(0)
    BY <1>4, <1>5
  <2>2. QED
    BY <1>1, <1>2, <1>3, <2>1 DEF EndStep
<1>6. CASE Len(todo) = 2 /\ Offline
  <2>1. Head(todo) = EndStep(1)
    BY <1>4, <1>6
  <2>2. QED
    BY <1>1, <1>2, <1>3, <1>6, <2>1 DEF EndStep, Reports1
<1>7. CASE Len(todo) = 3 /\ Offline
  <2>1. Head(todo) = EndStep(2)
    BY <1>4, <1>7
  <2>2. QED
    BY <1>1, <1>2, <1>3, <1>7, <2>1 DEF EndStep, Reports1
<1>8. QED
  BY <1>2, <1>5, <1>6, <1>7

LEMMA ScreenKept ==
    ASSUME TypeInv, TodoInv, ScreenInv, config # <<>>, config' = config, file' = file,
           UNCHANGED <<screen, lock, done, progress>>,
           UNCHANGED <<todo, counts>> \/ ~(done \/ lock = "main")
    PROVE  ScreenInv'
<1>1. (Counts' <=> Counts) /\ (Offline' <=> Offline)
  BY FrozenSteps
<1>2. FinalLines' = FinalLines
  BY FrozenFinal
<1>3. CASE UNCHANGED <<todo, counts>>
  <2>1. Job' = Job /\ EventsLine' = EventsLine
    BY <1>3 DEF Job, EventsLine
  <2>2. QED
    BY <1>1, <1>2, <1>3, <2>1 DEF ScreenInv
<1>4. CASE ~(done \/ lock = "main")
  <2>1. lock \in {"free", "progress"}
    BY <1>4 DEF TypeInv
  <2>2. QED
    BY <1>1, <1>4, <2>1 DEF ScreenInv
<1>5. QED
  BY <1>3, <1>4

(***************************************************************************)
(* A run that shows its progress shows nothing else.                       *)
(***************************************************************************)
LEMMA OnlyStatistics ==
    ASSUME TypeInv, TodoInv, config # <<>>, Counts, Prints \/ Trigger
    PROVE  screen' = screen
<1>1. /\ Level("Silent") = 1 /\ Level("Progress") = 2 /\ Level("WarningsOnly") = 3
      /\ Level("Triggers") = 4 /\ Level("Outputs") = 5 /\ Level("Debug") = 6
  BY LevelsAre
<1>2. ~Emits("Triggers") /\ ~Emits("Outputs") /\ ~Emits("Debug")
  BY <1>1 DEF Emits, Counts
<1>3. CASE Trigger
  BY <1>2, <1>3 DEF Trigger, Emit
<1>4. CASE Prints
  <2>1. todo # <<>> /\ Head(todo).do = "message"
        /\ Emit(Head(todo).kind, Message(Head(todo).kind))
    BY <1>4 DEF Prints, Doing
  <2>2. Head(todo).kind \in {"Debug", "Outputs"}
    <3>1. HeadFacts /\ DoFacts
      BY <2>1, HeadOf, DoOf
    <3>2. CASE Job = "evaluate"
      <4>1. Head(todo) = Note("Debug")
        BY <2>1, <3>1, <3>2 DEF HeadFacts, DoFacts
      <4>2. QED
        BY <4>1 DEF Note
    <3>3. CASE Job = "leave"
      <4>1. Head(todo) = EndStep(Len(todo) - 1) /\ Len(todo) \in 1..6
        BY <3>1, <3>3 DEF HeadFacts
      <4>2. Len(todo) - 1 \in 0..5
        BY <4>1
      <4>3. \A n \in 0..5 : EndStep(n).do = "message" => EndStep(n).kind \in {"Debug", "Outputs"}
        BY DEF EndStep, Note
      <4>4. QED
        BY <2>1, <4>1, <4>2, <4>3, Zenon
    <3>4. CASE Job \in {"message", "trigger"}
      <4>1. Head(todo) \in WorkSteps
        BY <3>1, <3>4 DEF HeadFacts
      <4>2. QED
        BY <2>1, <4>1 DEF WorkSteps, TriggerSteps, Note
    <3>5. QED
      BY <2>1, <3>1, <3>2, <3>3, <3>4 DEF DoFacts
  <2>3. QED
    BY <1>2, <2>1, <2>2 DEF Emit
<1>5. QED
  BY <1>3, <1>4

DisplaySteps ==
    \/ TerminateClears \/ TerminateEvents \/ TerminateTriggers
    \/ ProgressWakes \/ ProgressEvents \/ ProgressTriggers
    \/ Prints \/ Trigger
    \/ /\ UNCHANGED <<screen, lock, done, progress>>
       /\ \/ UNCHANGED <<todo, counts>>
          \/ todo = <<>>
          \/ todo # <<>> /\ Head(todo).do \in {"start", "count", "evaluate"}

(* The steps that change what is on the screen.                            *)
LEMMA DisplayStepsAre ==
    ASSUME [Next]_vars, config # <<>>
    PROVE  DisplaySteps /\ config' = config /\ file' = file
BY DEF DisplaySteps, Next, vars, source, main, display, Ends, BadArguments, Configure, Setup,
       ReadRow, PanicOnRow, EndOfFile, NoSuchColumn, ExitOnRow, HungUp, Doing, Rest,
       NoStart, NotMonotonic, Leave, Tick, Stopped, EvalEvent, Trigger, Prints, CountEvent,
       Receive, ReceiveStart, TerminateClears, TerminateEvents, TerminateTriggers,
       ProgressWakes, ProgressEvents, ProgressTriggers

(***************************************************************************)
(* At the end every row was received, and no trigger is pending.           *)
(***************************************************************************)
LEMMA EndPending ==
    ASSUME TypeInv, ReaderInv, TodoInv, NEW h \in 0..reader.rows, QueueInv(h), Job = "leave"
    PROVE  h = NumRows /\ Evaluated(h) = h /\ EventsCounted(h) = h /\ PendingLines(todo) = <<>>
<1>1. edm = "ended" /\ queue = <<>> /\ h + NumQueued = reader.rows
  BY DEF QueueInv
<1>2. NumQueued = 0
  BY <1>1 DEF NumQueued, EndQueued
<1>3. h = NumRows
  BY <1>1, <1>2 DEF ReaderInv, TypeInv
<1>4. Evaluated(h) = h /\ EventsCounted(h) = h
  BY DEF Evaluated, EventsCounted
<1>5. todo \in Seq(StepSet)
  BY DEF TypeInv
<1>6. LeaveSteps
  BY TodoInvIs
<1>7. Len(todo) \in Nat /\ Len(todo) <= 6
      /\ \A n \in 1..Len(todo) : todo[n] = EndStep(Len(todo) - n)
  BY <1>5, <1>6 DEF LeaveSteps
<1>8. \A n \in 0..5 : EndStep(n).do # "trigger"
  BY DEF EndStep, Note
<1>9. ASSUME NEW n \in 1..Len(todo) PROVE todo[n].do # "trigger"
  <2>1. Len(todo) - n \in 0..5
    BY <1>7
  <2>2. QED
    BY <1>7, <1>8, <2>1, Zenon
<1>10. PendingLines(todo) = <<>>
  BY <1>5, <1>9, PendingNothing, Zenon
<1>11. QED
  BY <1>3, <1>4, <1>10, Zenon

(***************************************************************************)
(* What is counted at the end.                                             *)
(***************************************************************************)
LEMMA EndCounts ==
    ASSUME TypeInv, ReaderInv, TodoInv, NEW h \in 0..reader.rows, QueueInv(h), CountsInv(h),
           config # <<>>, Counts, Job = "leave"
    PROVE  counts.events = NumRows /\ counts.triggers = Len(Firing)
<1>1. h = NumRows /\ Evaluated(h) = h /\ EventsCounted(h) = h /\ PendingLines(todo) = <<>>
  BY EndPending
<1>2. counts.events = EventsCounted(h)
      /\ counts.triggers + Len(PendingLines(todo)) = Len(FiringUpTo(Evaluated(h)))
  BY CountsNow
<1>3. Len(PendingLines(todo)) = 0
  <2>1. Len(<<>>) = 0
    OBVIOUS
  <2>2. QED
    BY <1>1, <2>1, Zenon
<1>4. Len(Firing) = Len(FiringUpTo(Evaluated(h)))
  BY <1>1, FiringIsAll, Zenon DEF TypeInv
<1>5. counts.triggers \in Nat
  BY DEF TypeInv
<1>6. counts.triggers = Len(Firing)
  BY <1>2, <1>3, <1>4, <1>5
<1>7. QED
  BY <1>1, <1>2, <1>6

(* The invariant of the screen, case by case.                              *)
LEMMA ScreenIs ==
    ASSUME TypeInv, ScreenInv, config # <<>>
    PROVE  /\ ~Counts => progress = "off" /\ lock = "free" /\ ~done
           /\ done => /\ lock = "free" /\ progress \in {"sleeps", "off"}
                      /\ Job = "leave" /\ Len(todo) = 1 /\ screen = FinalLines
           /\ Counts /\ ~done =>
                  /\ lock = "free" => progress = "sleeps" /\ Len(screen) = 2
                  /\ lock = "progress" =>
                         \/ progress = "events" /\ screen = <<>>
                         \/ progress = "triggers" /\ Len(screen) = 1
                  /\ lock = "main" =>
                         /\ progress = "sleeps" /\ Offline /\ Job = "leave"
                         /\ \/ Len(todo) = 3 /\ screen = <<>>
                            \/ Len(todo) = 2 /\ screen = <<EventsLine>>
BY DEF ScreenInv, TypeInv

(***************************************************************************)
(* The progress thread's turn.                                             *)
(***************************************************************************)
LEMMA ScreenProgress ==
    ASSUME TypeInv, TodoInv, ScreenInv, config # <<>>, config' = config, file' = file,
           ProgressWakes \/ ProgressEvents \/ ProgressTriggers
    PROVE  ScreenInv'
<1>1. (Counts' <=> Counts) /\ (Offline' <=> Offline)
  BY FrozenSteps
<1>2. FinalLines' = FinalLines
  BY FrozenFinal
<1>3. todo' = todo /\ counts' = counts /\ done' = done
  BY DEF ProgressWakes, ProgressEvents, ProgressTriggers, main
<1>4. Job' = Job
  BY <1>3 DEF Job
<1>5. Counts
  BY DEF ScreenInv, ProgressWakes, ProgressEvents, ProgressTriggers
<1>6. screen \in Seq(LineSet) /\ lock \in {"free", "progress", "main"}
  BY DEF TypeInv
<1>7. CASE ProgressWakes
  <2>1. lock = "free" /\ progress = "sleeps"
    BY <1>7 DEF ProgressWakes
  <2>2. CASE done
    <3>1. progress' = "off" /\ screen' = screen /\ lock' = lock
      BY <1>7, <2>2 DEF ProgressWakes
    <3>2. QED
      BY <1>1, <1>2, <1>3, <1>4, <1>5, <2>1, <2>2, <3>1, ScreenIs DEF ScreenInv
  <2>3. CASE ~done
    <3>1. progress' = "events" /\ screen' = Cleared(screen) /\ lock' = "progress"
      BY <1>7, <2>3 DEF ProgressWakes
    <3>2. screen' = <<>>
      BY <2>1, <2>3, <3>1, TwoLines
    <3>3. QED
      BY <1>1, <1>3, <1>5, <2>3, <3>1, <3>2 DEF ScreenInv
  <2>4. QED
    BY <2>2, <2>3
<1>8. CASE ProgressEvents
  <2>1. progress = "events" /\ screen' = Append(screen, EventsLine) /\ progress' = "triggers"
        /\ lock' = lock
    BY <1>8 DEF ProgressEvents
  <2>2. ~done /\ lock = "progress" /\ screen = <<>>
    <3>1. ~done
      BY <2>1, ScreenIs
    <3>2. lock = "progress"
      BY <1>5, <1>6, <2>1, <3>1, ScreenIs
    <3>3. QED
      BY <1>5, <2>1, <3>1, <3>2, ScreenIs
  <2>3. Len(screen) = 0
    BY <2>2
  <2>4. Len(screen') = 1
    BY <1>6, <2>1, <2>3, AppendProperties, StatisticsLines
  <2>5. QED
    BY <1>1, <1>3, <1>5, <2>1, <2>2, <2>4 DEF ScreenInv
<1>9. CASE ProgressTriggers
  <2>1. progress = "triggers" /\ screen' = Append(screen, TriggersLine)
        /\ progress' = "sleeps" /\ lock' = "free"
    BY <1>9 DEF ProgressTriggers
  <2>2. ~done /\ lock = "progress" /\ Len(screen) = 1
    <3>1. ~done
      BY <2>1, ScreenIs
    <3>2. lock = "progress"
      BY <1>5, <1>6, <2>1, <3>1, ScreenIs
    <3>3. QED
      BY <1>5, <2>1, <3>1, <3>2, ScreenIs
  <2>3. Len(screen') = 2
    <3>1. TriggersLine \in LineSet
      BY StatisticsLines
    <3>2. Len(screen') = Len(screen) + 1
      BY <1>6, <2>1, <3>1, AppendProperties, Zenon
    <3>3. QED
      BY <2>2, <3>2
  <2>4. QED
    BY <1>1, <1>3, <1>5, <2>1, <2>2, <2>3 DEF ScreenInv
<1>10. QED
  BY <1>7, <1>8, <1>9

(***************************************************************************)
(* The main thread's turn.                                                 *)
(***************************************************************************)
TurnFacts ==
    /\ todo # <<>> /\ Counts /\ Offline /\ Job = "leave" /\ ~done
    /\ Len(todo) \in Nat /\ Len(todo') = Len(todo) - 1
    /\ Len(todo) # 1 => Job' = "leave"
    /\ Head(todo).do = "clear" => Len(todo) = 4 /\ lock # "main"
    /\ Head(todo).do = "events" => Len(todo) = 3 /\ lock = "main" /\ screen = <<>>
    /\ Head(todo).do = "triggers" => Len(todo) = 2 /\ lock = "main" /\ screen = <<EventsLine>>

LEMMA TurnFactsAre ==
    ASSUME TypeInv, TodoInv, ScreenInv, TurnInv, config # <<>>,
           TerminateClears \/ TerminateEvents \/ TerminateTriggers
    PROVE  TurnFacts
<1>1. todo # <<>> /\ todo' = Tail(todo) /\ Head(todo).do \in {"clear", "events", "triggers"}
      /\ (Head(todo).do = "clear" => lock = "free")
  BY DEF TerminateClears, TerminateEvents, TerminateTriggers, Doing, Rest
<1>2. /\ Job = "leave" /\ Reports1
      /\ Head(todo).do = "clear" => Len(todo) = 4
      /\ Head(todo).do = "events" => Len(todo) = 3
      /\ Head(todo).do = "triggers" => Len(todo) = 2
  BY <1>1, DoOf DEF DoFacts
<1>3. Counts /\ Offline
  BY <1>2 DEF Reports1
<1>4. Len(todo) \in {2, 3, 4}
  BY <1>1, <1>2
<1>5. ~done
  BY <1>4, ScreenIs
<1>6. Head(todo).do # "clear" => lock = "main"
  <2>1. SUFFICES ASSUME Head(todo).do # "clear" PROVE lock = "main"
    OBVIOUS
  <2>2. Len(todo) \in {2, 3}
    BY <1>1, <1>2, <2>1
  <2>3. Len(todo) \notin {1, 4, 5, 6}
    <3>1. \A n \in {2, 3} : n \notin {1, 4, 5, 6}
      OBVIOUS
    <3>2. QED
      BY <2>2, <3>1, Zenon
  <2>4. QED
    BY <1>2, <1>3, <2>3 DEF TurnInv
<1>7. lock = "main" => \/ Len(todo) = 3 /\ screen = <<>>
                       \/ Len(todo) = 2 /\ screen = <<EventsLine>>
  BY <1>3, <1>5, ScreenIs
<1>8. Len(todo) \in Nat /\ Len(todo') = Len(todo) - 1 /\ (Len(todo) # 1 => Job' = "leave")
  BY <1>1, <1>2, DoneIs DEF Done1
<1>9. Head(todo).do = "events" => lock = "main" /\ screen = <<>>
  <2>1. 3 # 2 /\ "events" # "clear"
    OBVIOUS
  <2>2. QED
    BY <1>2, <1>6, <1>7, <2>1, Zenon
<1>10. Head(todo).do = "triggers" => lock = "main" /\ screen = <<EventsLine>>
  <2>1. 3 # 2 /\ "triggers" # "clear"
    OBVIOUS
  <2>2. QED
    BY <1>2, <1>6, <1>7, <2>1, Zenon
<1>11. QED
  BY <1>1, <1>2, <1>3, <1>5, <1>8, <1>9, <1>10 DEF TurnFacts

(* The steps of the final report.                                          *)
LEMMA ScreenTerminate ==
    ASSUME TypeInv, ReaderInv, TodoInv, ScreenInv, TurnInv, config # <<>>,
           config' = config, file' = file,
           NEW h \in 0..reader.rows, QueueInv(h), CountsInv(h),
           TerminateClears \/ TerminateEvents \/ TerminateTriggers
    PROVE  ScreenInv'
<1>1. (Counts' <=> Counts) /\ (Offline' <=> Offline)
  BY FrozenSteps
<1>2. FinalLines' = FinalLines
  BY FrozenFinal
<1>3. TurnFacts
  BY TurnFactsAre
<1>4. Counts' /\ Offline' /\ ~done
  BY <1>1, <1>3 DEF TurnFacts
<1>5. CASE TerminateClears
  <2>1. lock = "free" /\ lock' = "main" /\ screen' = Cleared(screen) /\ done' = done
        /\ progress' = progress /\ Doing("clear") /\ Head(todo).do = "clear"
    BY <1>5 DEF TerminateClears, Doing
  <2>2. screen' = <<>> /\ progress' = "sleeps"
    BY <2>1, TwoLines
  <2>3. Len(todo') = 3 /\ Job' = "leave"
    <3>1. Len(todo) = 4 /\ Len(todo') = Len(todo) - 1 /\ (Len(todo) # 1 => Job' = "leave")
      BY <1>3, <2>1, Zenon DEF TurnFacts
    <3>2. QED
      BY <3>1
  <2>4. QED
    BY <1>4, <2>1, <2>2, <2>3 DEF ScreenInv
<1>6. CASE TerminateEvents
  <2>1. lock' = lock /\ screen' = Append(screen, EventsLine) /\ done' = done
        /\ progress' = progress /\ Head(todo).do = "events" /\ counts' = counts
    BY <1>6 DEF TerminateEvents, Doing
  <2>2. screen = <<>> /\ lock = "main" /\ Len(todo') = 2 /\ Job' = "leave"
    BY <1>3, <2>1 DEF TurnFacts
  <2>3. EventsLine' = EventsLine
    BY <2>1 DEF EventsLine
  <2>4. screen' = <<EventsLine'>>
    <3> DEFINE e == EventsLine
    <3>1. screen' = Append(<<>>, e)
      BY <2>1, <2>2, Zenon
    <3> HIDE DEF e
    <3>2. Append(<<>>, e) = <<e>>
      OBVIOUS
    <3>3. QED
      BY <2>3, <3>1, <3>2, Zenon DEF e
  <2>5. progress = "sleeps"
    BY <1>3, <2>2, ScreenIs DEF TurnFacts
  <2>6. QED
    BY <1>4, <2>1, <2>2, <2>4, <2>5 DEF ScreenInv
<1>7. CASE TerminateTriggers
  <2>1. lock' = "free" /\ screen' = Append(screen, TriggersLine) /\ done'
        /\ progress' = progress /\ Head(todo).do = "triggers"
    BY <1>7 DEF TerminateTriggers, Doing
  <2>2. screen = <<EventsLine>> /\ lock = "main" /\ Len(todo') = 1 /\ Job' = "leave"
        /\ Job = "leave" /\ Counts
    BY <1>3, <2>1 DEF TurnFacts
  <2>3. counts.events = NumRows /\ counts.triggers = Len(Firing)
    BY <2>2, EndCounts
  <2>4. screen' = FinalLines
    <3> DEFINE e == EventsLine t == TriggersLine
    <3>1. screen' = Append(<<e>>, t)
      BY <2>1, <2>2, Zenon
    <3>2. FinalLines = <<e, t>>
      BY <2>3, Zenon DEF FinalLines, EventsLine, TriggersLine
    <3> HIDE DEF e, t
    <3>3. Append(<<e>>, t) = <<e, t>>
      <4> DEFINE X == {e, t}
      <4>1. <<e>> \in Seq(X) /\ <<e, t>> \in Seq(X) /\ t \in X
        OBVIOUS
      <4> HIDE DEF X
      <4>2. Len(<<e>>) = 1 /\ Len(<<e, t>>) = 2
        OBVIOUS
      <4>3. /\ Append(<<e>>, t) \in Seq(X) /\ Len(Append(<<e>>, t)) = 2
            /\ Append(<<e>>, t)[1] = <<e>>[1] /\ Append(<<e>>, t)[2] = t
        BY <4>1, <4>2, AppendProperties
      <4>4. \A i \in 1..2 : Append(<<e>>, t)[i] = <<e, t>>[i]
        BY <4>3
      <4>5. QED
        BY <4>1, <4>2, <4>3, <4>4, SeqEqual
    <3>4. QED
      BY <3>1, <3>2, <3>3, Zenon
  <2>5. progress = "sleeps"
    BY <1>3, <2>2, ScreenIs DEF TurnFacts
  <2>6. QED
    BY <1>2, <1>4, <2>1, <2>2, <2>4, <2>5 DEF ScreenInv
<1>8. QED
  BY <1>5, <1>6, <1>7

LEMMA ScreenConfigure ==
    ASSUME UnstartedInv, Configure
    PROVE  ScreenInv' /\ TurnInv'
<1>1. /\ lock' = "free" /\ ~done'
      /\ IF Counts' THEN screen' = <<EventsLine, TriggersLine>> /\ progress' = "sleeps"
         ELSE progress' = "off"
  BY DEF Configure, UnstartedInv, Counts
<1>2. Counts' => Len(screen') = 2
  <2> DEFINE e == EventsLine t == TriggersLine
  <2>1. Counts' => screen' = <<e, t>>
    BY <1>1
  <2> HIDE DEF e, t
  <2>2. QED
    BY <2>1
<1>3. ScreenInv'
  BY <1>1, <1>2 DEF ScreenInv
<1>4. Job' # "leave"
  BY QueueConfigure
<1>5. TurnInv'
  BY <1>4 DEF TurnInv
<1>6. QED
  BY <1>3, <1>5

(* Every step keeps the screen.                                            *)
LEMMA ScreenStep ==
    ASSUME TypeInv, UnstartedInv, ReaderInv, TodoInv, ScreenInv, TurnInv,
           NEW h \in 0..reader.rows, QueueInv(h), CountsInv(h), [Next]_vars
    PROVE  ScreenInv'
<1>1. CASE config # <<>>
  <2>1. DisplaySteps /\ config' = config /\ file' = file
    BY <1>1, DisplayStepsAre
  <2>2. CASE TerminateClears \/ TerminateEvents \/ TerminateTriggers
    BY <1>1, <2>1, <2>2, ScreenTerminate
  <2>3. CASE ProgressWakes \/ ProgressEvents \/ ProgressTriggers
    BY <1>1, <2>1, <2>3, ScreenProgress
  <2>4. CASE Prints \/ Trigger
    <3>1. todo # <<>> /\ Head(todo).do \in {"message", "trigger"}
          /\ UNCHANGED <<lock, done, progress>>
      BY <2>4 DEF Prints, Trigger, Doing
    <3>2. ~(done \/ lock = "main")
      BY <1>1, <3>1, BusyHead
    <3>3. CASE Counts
      <4>1. screen' = screen
        BY <1>1, <2>4, <3>3, OnlyStatistics
      <4>2. QED
        BY <1>1, <2>1, <3>1, <3>2, <4>1, ScreenKept
    <3>4. CASE ~Counts
      <4>1. ~Counts'
        BY <2>1, <3>4, FrozenSteps
      <4>2. progress = "off" /\ lock = "free" /\ ~done
        BY <1>1, <3>4, ScreenIs
      <4>3. QED
        BY <3>1, <4>1, <4>2 DEF ScreenInv
    <3>5. QED
      BY <3>3, <3>4
  <2>5. CASE /\ UNCHANGED <<screen, lock, done, progress>>
             /\ \/ UNCHANGED <<todo, counts>>
                \/ todo = <<>>
                \/ todo # <<>> /\ Head(todo).do \in {"start", "count", "evaluate"}
    <3>1. UNCHANGED <<todo, counts>> \/ ~(done \/ lock = "main")
      BY <1>1, <2>5, BusyHead
    <3>2. QED
      BY <1>1, <2>1, <2>5, <3>1, ScreenKept
  <2>6. QED
    BY <2>1, <2>2, <2>3, <2>4, <2>5 DEF DisplaySteps
<1>2. CASE Configure
  BY <1>2, ScreenConfigure
<1>3. CASE config = <<>> /\ ~Configure
  <2>1. config' = config
    BY <1>3, ConfigStays
  <2>2. QED
    BY <1>3, <2>1 DEF ScreenInv
<1>4. QED
  BY <1>1, <1>2, <1>3

(* Every step keeps the turns of the two threads.                          *)
LEMMA TurnStep ==
    ASSUME TypeInv, UnstartedInv, ReaderInv, TodoInv, StartInv, ScreenInv, TurnInv,
           NEW h \in 0..reader.rows, QueueInv(h), [Next]_vars
    PROVE  TurnInv'
<1>1. CASE config # <<>>
  <2>1. DisplaySteps /\ config' = config /\ file' = file
    BY <1>1, DisplayStepsAre
  <2>2. SUFFICES ASSUME Counts, Offline, Job' = "leave"
                 PROVE  /\ lock' # "main" => Len(todo') \in {1, 4, 5, 6}
                        /\ Len(todo') = 1 => done'
    <3>1. (Counts' <=> Counts) /\ (Offline' <=> Offline)
      BY <2>1, FrozenSteps
    <3>2. QED
      BY <3>1, Zenon DEF TurnInv
  <2>3. CASE Receive
    <3>1. ReceivesEnd
      BY <2>2, <2>3, ReceiveIs DEF ReceivesEvent
    <3>2. Len(todo') = 6
      BY <2>2, <3>1 DEF ReceivesEnd, Reports1
    <3>3. QED
      BY <3>2
  <2>4. CASE ~Receive
    <3>1. Job = "leave"
      BY <1>1, <2>2, <2>4, JobRestIs DEF JobRest
    <3>2. /\ lock # "main" => Len(todo) \in {1, 4, 5, 6}
          /\ Len(todo) = 1 => done
      BY <1>1, <2>2, <3>1, Zenon DEF TurnInv
    <3>3. CASE TerminateClears \/ TerminateEvents \/ TerminateTriggers
      <4>1. TurnFacts
        BY <1>1, <3>3, TurnFactsAre
      <4>2. CASE TerminateClears
        <5>1. lock' = "main" /\ Head(todo).do = "clear"
          BY <4>2 DEF TerminateClears, Doing
        <5>2. Len(todo') = 3
          BY <4>1, <5>1 DEF TurnFacts
        <5>3. QED
          BY <5>1, <5>2
      <4>3. CASE TerminateEvents
        <5>1. lock' = lock /\ Head(todo).do = "events"
          BY <4>3 DEF TerminateEvents, Doing
        <5>2. Len(todo') = 2 /\ lock = "main"
          BY <4>1, <5>1 DEF TurnFacts
        <5>3. QED
          BY <5>1, <5>2
      <4>4. CASE TerminateTriggers
        <5>1. done' /\ Head(todo).do = "triggers"
          BY <4>4 DEF TerminateTriggers, Doing
        <5>2. Len(todo') = 1
          BY <4>1, <5>1 DEF TurnFacts
        <5>3. QED
          BY <5>1, <5>2
      <4>5. QED
        BY <3>3, <4>2, <4>3, <4>4
    <3>4. CASE ProgressWakes \/ ProgressEvents \/ ProgressTriggers
      <4>1. todo' = todo /\ done' = done
        BY <3>4 DEF ProgressWakes, ProgressEvents, ProgressTriggers, main
      <4>2. lock # "main"
        <5>1. CASE ProgressWakes
          BY <5>1 DEF ProgressWakes
        <5>2. CASE ProgressEvents \/ ProgressTriggers
          <6>1. progress \in {"events", "triggers"}
            BY <5>2 DEF ProgressEvents, ProgressTriggers
          <6>2. QED
            BY <1>1, <2>2, <6>1, ScreenIs
        <5>3. QED
          BY <3>4, <5>1, <5>2
      <4>3. QED
        BY <3>2, <4>1, <4>2, Zenon
    <3>5. CASE Prints \/ Trigger
      <4>1. todo # <<>> /\ todo' = Tail(todo) /\ Head(todo).do \in {"message", "trigger"}
        BY <3>5 DEF Prints, Trigger, Doing, Rest
      <4>2. Len(todo) \in {5, 6}
        <5>1. DoFacts
          BY <4>1, DoOf
        <5>2. Reports1
          BY <2>2 DEF Reports1
        <5>3. QED
          BY <3>1, <4>1, <5>1, <5>2 DEF DoFacts
      <4>3. Len(todo') = Len(todo) - 1
        BY <4>1, DoneIs DEF Done1
      <4>4. Len(todo') \in {4, 5}
        <5>1. \A n \in {5, 6} : n - 1 \in {4, 5}
          OBVIOUS
        <5>2. QED
          BY <4>2, <4>3, <5>1, Zenon
      <4>5. Len(todo') \in {1, 4, 5, 6} /\ Len(todo') # 1
        <5>1. \A n \in {4, 5} : n \in {1, 4, 5, 6} /\ n # 1
          OBVIOUS
        <5>2. QED
          BY <4>4, <5>1, Zenon
      <4>6. QED
        BY <4>5, Zenon
    <3>6. CASE /\ UNCHANGED <<screen, lock, done, progress>>
               /\ \/ UNCHANGED <<todo, counts>>
                  \/ todo = <<>>
                  \/ todo # <<>> /\ Head(todo).do \in {"start", "count", "evaluate"}
      <4>1. todo # <<>>
        BY <3>1 DEF Job, JobOf
      <4>2. Head(todo).do \notin {"start", "count", "evaluate"}
        BY <3>1, <4>1, DoOf DEF DoFacts
      <4>3. UNCHANGED <<todo, done, lock>>
        BY <3>6, <4>1, <4>2, Zenon
      <4>4. QED
        BY <3>2, <4>3, Zenon
    <3>7. QED
      BY <2>1, <3>3, <3>4, <3>5, <3>6 DEF DisplaySteps
  <2>5. QED
    BY <2>3, <2>4
<1>2. CASE Configure
  BY <1>2, ScreenConfigure
<1>3. CASE config = <<>> /\ ~Configure
  <2>1. config' = config
    BY <1>3, ConfigStays
  <2>2. QED
    BY <1>3, <2>1 DEF TurnInv
<1>4. QED
  BY <1>1, <1>2, <1>3

-----------------------------------------------------------------------------
(* How a run ends.                                                         *)

OutcomeSteps ==
    \/ BadArguments \/ NoSuchColumn \/ ExitOnRow \/ HungUp \/ NoStart \/ NotMonotonic
    \/ Leave
    \/ outcome = "" /\ outcome' = ""
    \/ UNCHANGED vars

(* The steps that end the run.                                             *)
LEMMA OutcomeStepsAre == ASSUME [Next]_vars PROVE OutcomeSteps
BY DEF OutcomeSteps, Next, vars, source, main, display, Configure, Setup, ReadRow, Reads,
       PanicOnRow, EndOfFile, Receive, Doing, Rest, Running, ReceiveStart, Prints, CountEvent,
       EvalEvent, Trigger, TerminateClears, TerminateEvents, TerminateTriggers,
       ProgressWakes, ProgressEvents, ProgressTriggers, Tick, Stopped

(* A run that is done has left the loop.                                   *)
LEMMA LeftStep ==
    ASSUME TypeInv, TodoInv, LeftInv, [Next]_vars
    PROVE  LeftInv'
<1> SUFFICES ASSUME outcome' = "done"
             PROVE  Job' = "leave" /\ Len(todo') = 1
  BY DEF LeftInv
<1>1. CASE Leave
  <2>1. todo # <<>> /\ Head(todo).do = "leave" /\ todo' = todo
    BY <1>1 DEF Leave, Doing, Ends, main
  <2>2. Job = "leave" /\ Len(todo) = 1
    BY <2>1, DoOf DEF DoFacts
  <2>3. QED
    BY <2>1, <2>2 DEF Job
<1>2. CASE UNCHANGED vars
  BY <1>2 DEF LeftInv, vars, main, Job
<1>3. CASE \/ BadArguments \/ NoSuchColumn \/ ExitOnRow \/ HungUp \/ NoStart \/ NotMonotonic
           \/ outcome = "" /\ outcome' = ""
  BY <1>3 DEF BadArguments, NoSuchColumn, ExitOnRow, HungUp, NoStart, NotMonotonic, Ends
<1>4. QED
  BY <1>1, <1>2, <1>3, OutcomeStepsAre DEF OutcomeSteps

(* The event driven manager panics on a row only.                          *)
LEMMA PanicSteps ==
    ASSUME [Next]_vars, edm' = "panicked"
    PROVE  edm = "panicked" \/ PanicOnRow
BY DEF Next, vars, source, main, display, Configure, Setup, ReadRow, Reads, Ends,
       BadArguments, NoSuchColumn, ExitOnRow, HungUp, NoStart, NotMonotonic, Leave,
       EndOfFile, Receive, Doing, Rest, Running, ReceiveStart, Prints, CountEvent,
       EvalEvent, Trigger, TerminateClears, TerminateEvents, TerminateTriggers,
       ProgressWakes, ProgressEvents, ProgressTriggers, Tick, Stopped

(* Offline is what the arguments say.                                      *)
LEMMA OfflineLine ==
    ASSUME TypeInv, config # <<>>, Offline
    PROVE  ~line.online
BY LineTypes DEF TypeInv, Offline

(***************************************************************************)
(* Each way to stop early has its reason in the arguments or the file.     *)
(***************************************************************************)
LEMMA StopIsAtFault ==
    ASSUME TypeInv, UnstartedInv, ReaderInv, TimerInv, TodoInv, StartInv, EarlyInv, OrderInv,
           FaultInv, NEW h \in 0..reader.rows, QueueInv(h), [Next]_vars,
           \/ PanicOnRow \/ BadArguments \/ NoSuchColumn \/ ExitOnRow \/ HungUp \/ NoStart
           \/ NotMonotonic
    PROVE  AtFault
<1>1. CASE BadArguments
  BY <1>1 DEF BadArguments, AtFault
<1>2. CASE NoSuchColumn
  <2>1. PICK i \in DOMAIN Inputs : ColumnOf(file.header)[i] = 0
    BY <1>2 DEF NoSuchColumn
  <2>2. QED
    BY <2>1, MissingColumnIsAtFault DEF TypeInv
<1>3. CASE ExitOnRow \/ PanicOnRow
  <2>1. Reads /\ (Failure("exit") \/ Failure("panic"))
    BY <1>3 DEF ExitOnRow, PanicOnRow
  <2>2. Mapped
    BY <2>1, MappedNow DEF Reads
  <2>3. QED
    BY <2>1, <2>2, FailureIsAtFault
<1>4. CASE HungUp
  BY <1>4 DEF HungUp, FaultInv
<1>5. CASE NoStart
  <2>1. todo # <<>> /\ Head(todo).do = "start" /\ slot = <<>> /\ config # <<>>
        /\ edm \in {"ended", "panicked"}
    BY <1>5 DEF NoStart, Doing, Running
  <2>2. Job = "start" /\ Offline
    BY <2>1, DoOf, HeadOf DEF DoFacts, HeadFacts
  <2>3. reader.rows = 0
    BY <2>1, <2>2 DEF StartInv
  <2>4. CASE edm = "panicked"
    BY <2>4 DEF FaultInv
  <2>5. CASE edm = "ended"
    <3>1. NumRows = 0
      BY <2>3, <2>5 DEF ReaderInv
    <3>2. file.rows = <<>>
      BY <3>1, FileTypes, EmptySeq DEF TypeInv, NumRows
    <3>3. ~line.online
      BY <2>1, <2>2, OfflineLine
    <3>4. QED
      BY <3>2, <3>3, Zenon DEF AtFault
  <2>6. QED
    BY <2>1, <2>4, <2>5
<1>6. CASE NotMonotonic
  <2>1. todo # <<>> /\ Head(todo).do = "evaluate" /\ Offline /\ lastTime > Head(todo).item.time
    BY <1>6 DEF NotMonotonic, Doing, Offline
  <2>2. Job = "evaluate" /\ Head(todo).item = Pending
    BY <2>1, DoOf DEF DoFacts
  <2>3. edm # "setup"
    BY <2>2 DEF EarlyInv
  <2>4. Pending.time \in Nat /\ lastTime \in Nat
    <3>1. Pending \in EventItems
      BY <2>2 DEF QueueInv, IsRow
    <3>2. QED
      BY <3>1 DEF EventItems, TypeInv
  <2>5. ~(lastTime <= Pending.time)
    BY <2>1, <2>2, <2>4
  <2>6. QED
    BY <2>1, <2>2, <2>3, <2>5, Zenon DEF OrderInv, Newest
<1>7. QED
  BY <1>1, <1>2, <1>3, <1>4, <1>5, <1>6

(* Every step keeps that only a fault stops the run.                       *)
LEMMA FaultStep ==
    ASSUME TypeInv, UnstartedInv, ReaderInv, TimerInv, TodoInv, StartInv, EarlyInv, OrderInv,
           FaultInv, NEW h \in 0..reader.rows, QueueInv(h), [Next]_vars
    PROVE  FaultInv'
<1> SUFFICES ASSUME edm' = "panicked" \/ outcome' \in {"exit", "panic"}
             PROVE  AtFault'
  BY DEF FaultInv
<1>1. CASE Configure
  BY <1>1 DEF Configure, UnstartedInv, source
<1>2. CASE config' = config
  <2>1. AtFault' <=> AtFault
    BY <1>2, FileStays, FrozenFault
  <2>2. SUFFICES AtFault
    BY <2>1
  <2>3. CASE edm' = "panicked"
    BY <2>3, PanicSteps, StopIsAtFault DEF FaultInv
  <2>4. CASE outcome' \in {"exit", "panic"}
    <3>1. ~Leave
      BY <2>4 DEF Leave, Ends
    <3>2. CASE UNCHANGED vars
      BY <2>4, <3>2 DEF vars, FaultInv
    <3>3. CASE \/ BadArguments \/ NoSuchColumn \/ ExitOnRow \/ HungUp \/ NoStart
               \/ NotMonotonic
      BY <3>3, StopIsAtFault
    <3>4. QED
      BY <2>4, <3>1, <3>2, <3>3, OutcomeStepsAre DEF OutcomeSteps
  <2>5. QED
    BY <2>3, <2>4
<1>3. QED
  BY <1>1, <1>2, ConfigStays

-----------------------------------------------------------------------------
(* The times do not decrease.                                              *)

LEMMA DelayedNext ==
    ASSUME NEW n \in Nat, NEW d \in Nat
    PROVE  n * d \in Nat /\ (n + 1) * d \in Nat /\ n * d <= (n + 1) * d
OBVIOUS

(***************************************************************************)
(* The latest time is a time, and the next row is not before it.           *)
(***************************************************************************)
LEMMA LatestType ==
    ASSUME TypeInv, UnstartedInv, ReaderInv, TimerInv, edm # "setup", Offline
    PROVE  LatestTime \in Nat
<1>1. Mapped
  BY MappedNow
<1>2. reader.rows \in Nat /\ clock \in Nat /\ NumRows \in Nat /\ reader.rows <= NumRows
  BY FileTypes DEF TypeInv, ReaderInv
<1>3. config.timer \in {"RealTime", "FromFile", "Delayed"}
      /\ (config.timer = "Delayed" => config.delay[1] \in Nat)
  BY <1>1, LineTypes DEF Mapped
<1>4. CASE config.timer = "Delayed"
  BY <1>2, <1>3, <1>4, DelayedNext DEF LatestTime
<1>5. CASE config.timer = "FromFile"
  <2>1. CASE reader.rows = 0
    BY <1>5, <2>1 DEF LatestTime
  <2>2. CASE reader.rows # 0
    <3>1. 1 \in 1..reader.rows /\ reader.rows \in 1..reader.rows
          /\ 1 \in 1..NumRows /\ reader.rows \in 1..NumRows
      BY <1>2, <2>2
    <3>2. HasTime(1) /\ HasTime(reader.rows) /\ MeantTime(1) <= MeantTime(reader.rows)
      BY <1>5, <3>1, Zenon DEF TimerInv
    <3>3. MeantTime(1) \in Nat /\ MeantTime(reader.rows) \in Nat
      BY <1>1, <3>1, <3>2, HasTimeIsNat
    <3>4. LatestTime = MeantTime(reader.rows) - MeantTime(1)
      BY <1>5, <2>2, <3>2 DEF LatestTime, Since, StartOf
    <3>5. QED
      BY <3>2, <3>3, <3>4
  <2>3. QED
    BY <2>1, <2>2
<1>6. CASE config.timer = "RealTime"
  BY <1>2, <1>6 DEF LatestTime
<1>7. QED
  BY <1>3, <1>4, <1>5, <1>6

(* The time of the next row is the latest then.                            *)
LEMMA LatestNext ==
    ASSUME TypeInv, UnstartedInv, ReaderInv, TimerInv, Offline, ~AtFault, Reads,
           ~Unparsable(NextRow), GetTime(NextRow).k = "time",
           reader'.rows = reader.rows + 1, UNCHANGED <<file, config, clock>>
    PROVE  /\ LatestTime' = GetTime(NextRow).t
           /\ LatestTime' \in Nat
           /\ LatestTime <= LatestTime'
<1>1. edm = "reads" /\ edm # "setup"
  BY DEF Reads
<1>2. Mapped
  BY <1>1, MappedNow
<1> DEFINE n == reader.rows r == n + 1 got == GetTime(NextRow)
<1>3. n \in Nat /\ n \in 0..NumRows - 1 /\ r \in 1..NumRows /\ NumRows \in Nat
      /\ NextRow = Row(r) /\ clock \in Nat
  BY <1>2, NextRowIs DEF TypeInv
<1>4. TimeGot(r)
  BY <1>1, <1>2, <1>3, GetTimeIs
<1>5. /\ got.t \in Nat
      /\ config.timer = "RealTime" => got.t = clock
      /\ config.timer = "Delayed" => got.t = r * config.delay[1]
      /\ config.timer = "FromFile" => HasTime(1) /\ HasTime(r) /\ got.t = Since(r)
  BY <1>3, <1>4 DEF TimeGot
<1>6. config.timer \in {"RealTime", "FromFile", "Delayed"}
      /\ (config.timer = "Delayed" => config.delay[1] \in Nat)
  BY <1>2, LineTypes DEF Mapped
<1>7. \A i : Since(i)' = Since(i)
  BY FrozenTimes
<1>8. LatestTime \in Nat
  BY <1>1, LatestType
<1>9. CASE config.timer = "RealTime"
  BY <1>3, <1>5, <1>9 DEF LatestTime
<1>10. CASE config.timer = "Delayed"
  <2> DEFINE d == config.delay[1]
  <2>1. d \in Nat
    BY <1>6, <1>10
  <2>2. LatestTime' = r * d /\ LatestTime = n * d /\ got.t = r * d
    BY <1>5, <1>10 DEF LatestTime
  <2> HIDE DEF n, d, got
  <2>3. n * d <= r * d
    BY <1>3, <2>1, DelayedNext
  <2>4. QED
    BY <1>5, <2>2, <2>3 DEF got
<1>11. CASE config.timer = "FromFile"
  <2>1. LatestTime' = Since(r)
    <3>1. r # 0
      BY <1>3
    <3>2. config'.timer = "FromFile" /\ reader'.rows = r
      BY <1>11
    <3>3. ASSUME NEW k, k = reader'.rows, k # 0
          PROVE  LatestTime' = Since(k)
      <4>1. LatestTime' = Since(k)'
        BY <3>2, <3>3, SMT DEF LatestTime
      <4>2. QED
        BY <1>7, <4>1, Zenon
    <3>4. QED
      BY <3>1, <3>2, <3>3, Zenon
  <2>2. HasTime(1) /\ HasTime(r) /\ got.t = Since(r)
    BY <1>5, <1>11
  <2>3. CASE n = 0
    <3>1. LatestTime = 0
      BY <1>11, <2>3 DEF LatestTime
    <3>2. QED
      BY <1>5, <2>1, <2>2, <3>1
  <2>4. CASE n # 0
    <3>1. n \in 1..n /\ n \in 1..NumRows /\ 1 \in 1..NumRows /\ r > 1 /\ r - 1 = n
      BY <1>3, <2>4
    <3>2. HasTime(n)
      BY <1>1, <1>11, <3>1, Zenon DEF TimerInv
    <3>3. MeantTime(1) \in Nat /\ MeantTime(n) \in Nat /\ MeantTime(r) \in Nat
      BY <1>2, <1>3, <2>2, <3>1, <3>2, HasTimeIsNat
    <3>4. ~(MeantTime(r) < MeantTime(n))
      <4>1. ~Decreasing
        BY <1>11, Zenon DEF AtFault
      <4>2. r \in DOMAIN file.rows
        <5>1. file.rows \in Seq(Seq(Cells))
          BY FileTypes DEF TypeInv
        <5>2. QED
          BY <1>3, <5>1, LenProperties, Zenon DEF NumRows
      <4>3. ~(MeantTime(r) < MeantTime(r - 1))
        BY <3>1, <4>1, <4>2, Zenon DEF Decreasing
      <4>4. QED
        BY <3>1, <4>3
    <3>5. LatestTime = MeantTime(n) - MeantTime(1) /\ Since(r) = MeantTime(r) - MeantTime(1)
      BY <1>11, <2>2, <2>4 DEF LatestTime, Since, StartOf
    <3>6. LatestTime <= Since(r)
      BY <3>3, <3>4, <3>5
    <3>7. QED
      BY <1>5, <2>1, <2>2, <3>6
  <2>5. QED
    BY <2>3, <2>4
<1>12. QED
  BY <1>6, <1>9, <1>10, <1>11

(* Without a new row the latest time does not go back.                     *)
LEMMA LatestStays ==
    ASSUME TypeInv, UnstartedInv, ReaderInv, TimerInv, edm # "setup", Offline,
           file' = file, config' = config, reader'.rows = reader.rows,
           clock' = clock \/ clock' = clock + 1
    PROVE  LatestTime' \in Nat /\ LatestTime <= LatestTime'
<1>1. LatestTime \in Nat
  BY LatestType
<1>2. \A i : Since(i)' = Since(i)
  BY FrozenTimes
<1>3. CASE config.timer = "RealTime"
  <2>1. LatestTime = clock /\ LatestTime' = clock' /\ clock \in Nat
    BY <1>3 DEF LatestTime, TypeInv
  <2>2. QED
    BY <2>1
<1>4. config.timer \in {"RealTime", "FromFile", "Delayed"}
  BY MappedNow, LineTypes DEF Mapped
<1>5. CASE config.timer = "Delayed"
  <2>1. LatestTime' = LatestTime
    BY <1>5 DEF LatestTime
  <2>2. QED
    BY <1>1, <2>1
<1>6. CASE config.timer = "FromFile"
  <2> DEFINE n == reader.rows
  <2>1. LatestTime' = LatestTime
    <3>1. config'.timer = "FromFile" /\ reader'.rows = n
      BY <1>6
    <3>2. LatestTime = IF n = 0 THEN 0 ELSE Since(n)
      BY <1>6 DEF LatestTime
    <3>3. LatestTime' = IF n = 0 THEN 0 ELSE Since(n)'
      BY <3>1, SMT DEF LatestTime
    <3>4. QED
      BY <1>2, <3>2, <3>3, Zenon
  <2>2. QED
    BY <1>1, <2>1
<1>7. QED
  BY <1>3, <1>4, <1>5, <1>6

(***************************************************************************)
(* Items in order stay so.                                                 *)
(***************************************************************************)
LEMMA InOrderNothing ==
    ASSUME NEW items, NEW low, NEW high
    PROVE  InOrder(items, 0, low, high)
BY DEF InOrder

(* Bounds may be wider.                                                    *)
LEMMA InOrderWider ==
    ASSUME NEW n \in Nat, NEW items, \A i \in 1..n : items[i].time \in Nat,
           NEW low \in Nat, NEW high \in Nat, InOrder(items, n, low, high),
           NEW lower \in Nat, NEW higher \in Nat, lower <= low, high <= higher,
           NEW others, \A i \in 1..n : others[i] = items[i]
    PROVE  InOrder(others, n, lower, higher)
<1> SUFFICES ASSUME NEW i \in 1..n
             PROVE  /\ lower <= others[i].time /\ others[i].time <= higher
                    /\ \A j \in 1..i : others[j].time <= others[i].time
  BY DEF InOrder
<1>1. /\ low <= items[i].time /\ items[i].time <= high
      /\ \A j \in 1..i : items[j].time <= items[i].time
  BY DEF InOrder
<1>2. items[i].time \in Nat /\ others[i] = items[i]
  OBVIOUS
<1>3. lower <= others[i].time /\ others[i].time <= higher
  BY <1>1, <1>2
<1>4. ASSUME NEW j \in 1..i PROVE others[j].time <= others[i].time
  <2>1. j \in 1..n
    OBVIOUS
  <2>2. others[j] = items[j]
    BY <2>1
  <2>3. QED
    BY <1>1, <1>2, <2>2, Zenon
<1>5. QED
  BY <1>3, <1>4

(* A later item may be appended.                                           *)
LEMMA InOrderOneMore ==
    ASSUME NEW n \in Nat, NEW items, \A i \in 1..n : items[i].time \in Nat,
           NEW low \in Nat, NEW high \in Nat, low <= high, InOrder(items, n, low, high),
           NEW others, \A i \in 1..n : others[i] = items[i],
           NEW time \in Nat, high <= time, others[n + 1].time = time
    PROVE  InOrder(others, n + 1, low, time)
<1>1. InOrder(others, n, low, time)
  <2>1. low <= low
    OBVIOUS
  <2>2. QED
    BY <2>1, InOrderWider
<1>2. ASSUME NEW i \in 1..n + 1
      PROVE  /\ low <= others[i].time /\ others[i].time <= time
             /\ \A j \in 1..i : others[j].time <= others[i].time
  <2>1. CASE i \in 1..n
    BY <1>1, <2>1, Zenon DEF InOrder
  <2>2. CASE i \notin 1..n
    <3>1. i = n + 1
      BY <2>2
    <3>2. low <= time /\ time <= time
      OBVIOUS
    <3>3. ASSUME NEW j \in 1..n + 1 PROVE others[j].time <= time
      <4>1. CASE j \in 1..n
        BY <1>1, <4>1, Zenon DEF InOrder
      <4>2. CASE j \notin 1..n
        <5>1. j = n + 1
          BY <4>2
        <5>2. QED
          BY <3>2, <5>1, Zenon
      <4>3. QED
        BY <4>1, <4>2
    <3>4. QED
      BY <3>1, <3>2, <3>3, Zenon
  <2>3. QED
    BY <2>1, <2>2
<1>3. QED
  BY <1>2, Zenon DEF InOrder

(* The first item may be taken off.                                        *)
LEMMA InOrderOneLess ==
    ASSUME NEW n \in Nat, NEW items, NEW low, NEW high,
           InOrder(items, n + 1, low, high),
           NEW others, \A i \in 1..n : others[i] = items[i + 1]
    PROVE  InOrder(others, n, items[1].time, high)
<1> SUFFICES ASSUME NEW i \in 1..n
             PROVE  /\ items[1].time <= others[i].time /\ others[i].time <= high
                    /\ \A j \in 1..i : others[j].time <= others[i].time
  BY DEF InOrder
<1>1. i + 1 \in 1..n + 1 /\ 1 \in 1..i + 1
  OBVIOUS
<1>2. others[i] = items[i + 1]
  OBVIOUS
<1>3. /\ items[i + 1].time <= high
      /\ \A j \in 1..i + 1 : items[j].time <= items[i + 1].time
  BY <1>1, Zenon DEF InOrder
<1>4. ASSUME NEW j \in 1..i PROVE others[j].time <= others[i].time
  <2>1. j + 1 \in 1..i + 1 /\ j \in 1..n
    OBVIOUS
  <2>2. others[j] = items[j + 1]
    BY <2>1
  <2>3. QED
    BY <1>2, <1>3, <2>1, <2>2, Zenon
<1>5. QED
  BY <1>1, <1>2, <1>3, <1>4, Zenon

LEMMA OrderNext ==
    ASSUME edm' # "setup" /\ Offline' /\ ~AtFault' =>
               /\ lastTime' <= Newest' /\ Newest' <= LatestTime'
               /\ InOrder(queue, NumQueued, Newest, LatestTime)'
    PROVE  OrderInv'
BY Zenon DEF OrderInv

LEMMA InOrderPrime ==
    ASSUME NEW n, NEW low, NEW high, InOrder(queue', n, low, high),
           NumQueued' = n, Newest' = low, LatestTime' = high
    PROVE  InOrder(queue, NumQueued, Newest, LatestTime)'
<1>1. InOrder(queue', NumQueued', Newest', LatestTime')
  BY Zenon
<1>2. QED
  BY <1>1, Zenon DEF InOrder

(* The newest time that was evaluated, or is being evaluated.              *)
LEMMA NewestIs ==
    ASSUME TypeInv, NEW h \in 0..reader.rows, QueueInv(h)
    PROVE  /\ Newest \in Nat
           /\ Job = "evaluate" => Newest = Pending.time
           /\ Job # "evaluate" => Newest = lastTime
           /\ \A n \in 1..NumQueued : queue[n].time \in Nat
           /\ NumQueued \in Nat
<1>1. ASSUME NEW item, NEW r, IsRow(item, r) PROVE item.time \in Nat
  BY <1>1 DEF IsRow, EventItems
<1>2. \A n \in 1..NumQueued : queue[n].time \in Nat
  BY <1>1, Zenon DEF QueueInv
<1>3. Job = "evaluate" => Pending.time \in Nat
  BY <1>1, Zenon DEF QueueInv
<1>4. lastTime \in Nat
  BY DEF TypeInv
<1>5. Newest \in Nat
  BY <1>3, <1>4, Zenon DEF Newest
<1>6. NumQueued \in Nat
  <2>1. queue \in Seq(EventItems \cup {EndItem})
    BY DEF TypeInv
  <2>2. Len(queue) \in Nat /\ (queue # <<>> => Len(queue) # 0)
    BY <2>1, EmptySeq
  <2>3. EndQueued => queue # <<>>
    BY Zenon DEF QueueInv
  <2>4. QED
    BY <2>2, <2>3 DEF NumQueued
<1>7. QED
  BY <1>2, <1>5, <1>6, Zenon DEF Newest

(* The steps that change the times.                                        *)
LEMMA TimeSteps ==
    ASSUME [Next]_vars
    PROVE  /\ lastTime' = lastTime \/ EvalEvent
           /\ clock' = clock \/ (clock' = clock + 1 /\ UNCHANGED <<file, config, reader, edm>>)
BY DEF Next, vars, source, main, display, Ends, BadArguments, Configure, Setup, ReadRow,
       PanicOnRow, EndOfFile, NoSuchColumn, ExitOnRow, Receive, HungUp, Doing, Rest,
       ReceiveStart, NoStart, Prints, CountEvent, EvalEvent, NotMonotonic, Trigger,
       TerminateClears, TerminateEvents, TerminateTriggers, Leave, ProgressWakes,
       ProgressEvents, ProgressTriggers, Tick, Stopped

(***************************************************************************)
(* A step that does not receive makes the newest time no later.            *)
(***************************************************************************)
NewestStays == lastTime' <= Newest' /\ Newest' <= Newest /\ Newest' \in Nat
LEMMA NewestRest ==
    ASSUME TypeInv, UnstartedInv, ReaderInv, TodoInv, StartInv,
           NEW h \in 0..reader.rows, QueueInv(h), [Next]_vars, config # <<>>, ~Receive,
           Offline, lastTime <= Newest
    PROVE  NewestStays
<1>1. Newest \in Nat /\ lastTime \in Nat
  BY NewestIs DEF TypeInv
<1>2. JobRest
  BY JobRestIs
<1>3. CASE lastTime' = lastTime
  <2>1. CASE Job' = "evaluate"
    <3>1. Newest' = Newest
      BY <1>2, <2>1, Zenon DEF JobRest, Newest
    <3>2. QED
      BY <1>1, <1>3, <3>1 DEF NewestStays
  <2>2. CASE Job' # "evaluate"
    <3>1. Newest' = lastTime
      BY <1>3, <2>2, Zenon DEF Newest
    <3>2. QED
      BY <1>1, <1>3, <3>1 DEF NewestStays
  <2>3. QED
    BY <2>1, <2>2
<1>4. CASE EvalEvent
  <2>1. Job = "evaluate" /\ todo' \in Seq(WorkSteps) /\ lastTime' = Pending.time
    BY <1>4, EvaluationIs DEF EvaluationOf
  <2>2. Job' \in {"idle", "trigger", "message"}
    BY <2>1, WorkJob
  <2>3. Newest' = Newest /\ lastTime' = Newest
    <3>1. Job' # "evaluate"
      BY <2>2
    <3>2. QED
      BY <2>1, <3>1, Zenon DEF Newest
  <2>4. QED
    BY <1>1, <2>3 DEF NewestStays
<1>5. QED
  BY <1>3, <1>4, TimeSteps

(* A step that does not receive keeps the order.                           *)
LEMMA OrderRest ==
    ASSUME TypeInv, UnstartedInv, ReaderInv, TimerInv, TodoInv, StartInv, EarlyInv, OrderInv,
           FaultInv, NEW h \in 0..reader.rows, QueueInv(h), [Next]_vars, config # <<>>,
           ~Receive, edm # "setup", Offline, ~AtFault, ~AtFault'
    PROVE  OrderInv'
<1> USE DEF source, main, display
<1>1. /\ lastTime <= Newest /\ Newest <= LatestTime
      /\ InOrder(queue, NumQueued, Newest, LatestTime)
  BY Zenon DEF OrderInv
<1>2. file' = file /\ config' = config
  BY FileStays, ConfigStays DEF Configure
<1>3. NewestStays
  BY <1>1, NewestRest
<1>4. Newest \in Nat /\ NumQueued \in Nat /\ \A n \in 1..NumQueued : queue[n].time \in Nat
  BY NewestIs
<1>5. LatestTime \in Nat
  BY LatestType
<1>6. queue \in Seq(EventItems \cup {EndItem})
  BY DEF TypeInv
<1>7. JobRest
  BY JobRestIs
<1>8. CASE ReadRow
  <2> DEFINE item == [event |-> ReadEvent(NextRow), time |-> GetTime(NextRow).t]
  <2>1. Reads /\ edm = "reads" /\ edm' = "reads" /\ queue' = Append(queue, item)
        /\ reader'.rows = reader.rows + 1 /\ clock' = clock
        /\ ~Unparsable(NextRow) /\ GetTime(NextRow).k = "time"
    BY <1>8 DEF ReadRow, Reads, TypeInv
  <2>2. /\ LatestTime' = item.time /\ LatestTime' \in Nat /\ LatestTime <= LatestTime'
    BY <1>2, <2>1, LatestNext
  <2>3. item \in EventItems
    <3>1. IsRow(item, reader.rows + 1)
      BY <2>1, MappedNow, RowItemIs
    <3>2. QED
      BY <3>1 DEF IsRow
  <2> HIDE DEF item
  <2>4. Len(queue') = Len(queue) + 1 /\ queue'[Len(queue) + 1] = item
        /\ \A n \in 1..Len(queue) : queue'[n] = queue[n]
    BY <1>6, <2>1, <2>3, AppendProperties
  <2>5. NumQueued' = NumQueued + 1 /\ NumQueued = Len(queue)
    BY <2>1, <2>4 DEF EndQueued, NumQueued
  <2>6. InOrder(queue', NumQueued + 1, Newest, LatestTime')
    <3>1. /\ \A n \in 1..NumQueued : queue'[n] = queue[n]
          /\ queue'[NumQueued + 1].time = LatestTime'
      BY <2>2, <2>4, <2>5, Zenon
    <3>2. QED
      BY <1>1, <1>4, <1>5, <2>2, <3>1, InOrderOneMore
  <2>7. InOrder(queue', NumQueued + 1, Newest', LatestTime')
    <3>1. NumQueued + 1 \in Nat /\ \A n \in 1..NumQueued + 1 : queue'[n].time \in Nat
      <4>1. item.time \in Nat
        BY <2>2
      <4>2. \A n \in 1..NumQueued + 1 : n \in 1..NumQueued \/ n = NumQueued + 1
        BY <1>4
      <4>3. \A n \in 1..NumQueued + 1 : queue'[n].time \in Nat
        BY <1>4, <2>4, <2>5, <4>1, <4>2, Zenon
      <4>4. QED
        BY <1>4, <4>3
    <3>2. LatestTime' <= LatestTime'
      BY <2>2
    <3>3. QED
      BY <1>3, <1>4, <2>2, <2>6, <3>1, <3>2, InOrderWider DEF NewestStays
  <2>8. InOrder(queue, NumQueued, Newest, LatestTime)'
    BY <2>5, <2>7, InOrderPrime
  <2>9. Newest' <= LatestTime'
    BY <1>1, <1>3, <1>4, <1>5, <2>2 DEF NewestStays
  <2>10. QED
    BY <1>3, <2>8, <2>9, OrderNext DEF NewestStays
<1>9. ASSUME reader'.rows = reader.rows, NumQueued' = NumQueued,
             \A n \in 1..NumQueued : queue'[n] = queue[n]
      PROVE  OrderInv'
  <2>1. LatestTime' \in Nat /\ LatestTime <= LatestTime'
    BY <1>2, <1>9, LatestStays, TimeSteps
  <2>2. InOrder(queue', NumQueued, Newest', LatestTime')
    BY <1>1, <1>3, <1>4, <1>5, <1>9, <2>1, InOrderWider DEF NewestStays
  <2>3. InOrder(queue, NumQueued, Newest, LatestTime)'
    BY <1>9, <2>2, InOrderPrime
  <2>4. Newest' <= LatestTime'
    BY <1>1, <1>3, <1>4, <1>5, <2>1 DEF NewestStays
  <2>5. QED
    BY <1>3, <2>3, <2>4, OrderNext DEF NewestStays
<1>10. CASE PanicOnRow
  <2>1. AtFault
    BY <1>10, StopIsAtFault
  <2>2. QED
    BY <2>1
<1>11. CASE EndOfFile
  <2>1. edm = "reads" /\ edm' = "ended" /\ reader' = reader /\ queue' = Append(queue, EndItem)
    BY <1>11 DEF EndOfFile, EndItem
  <2>2. Job' # "leave"
    <3>1. Job # "leave"
      BY <2>1, Zenon DEF QueueInv
    <3>2. QED
      BY <1>7, <3>1 DEF JobRest
  <2>3. Len(queue') = Len(queue) + 1 /\ \A n \in 1..Len(queue) : queue'[n] = queue[n]
    BY <1>6, <2>1, AppendProperties
  <2>4. NumQueued' = NumQueued /\ NumQueued = Len(queue)
    BY <1>6, <2>1, <2>2, <2>3 DEF EndQueued, NumQueued
  <2>5. QED
    BY <1>9, <2>1, <2>3, <2>4
<1>12. CASE UNCHANGED <<config, edm, reader>> /\ queue' = queue
  <2>1. NumQueued' = NumQueued
    BY <1>7, <1>12 DEF NumQueued, EndQueued, JobRest
  <2>2. QED
    BY <1>9, <1>12, <2>1
<1>13. CASE Setup
  BY <1>13 DEF Setup
<1>14. QED
  BY <1>8, <1>10, <1>11, <1>12, <1>13, ReadingSteps DEF Configure

(* Receiving keeps it.                                                     *)
LEMMA OrderReceive ==
    ASSUME TypeInv, UnstartedInv, ReaderInv, TimerInv, OrderInv,
           NEW h \in 0..reader.rows, QueueInv(h), Receive, [Next]_vars,
           edm # "setup", Offline, ~AtFault
    PROVE  OrderInv'
<1> USE DEF source, main, display
<1>1. /\ lastTime <= Newest /\ Newest <= LatestTime
      /\ InOrder(queue, NumQueued, Newest, LatestTime)
  BY Zenon DEF OrderInv
<1>2. /\ queue' = Tail(queue) /\ queue # <<>> /\ todo = <<>> /\ lastTime' = lastTime
      /\ UNCHANGED <<file, config, edm, reader, clock>> /\ Job = "idle"
  BY DEF Receive, Job, JobOf
<1>3. Newest = lastTime /\ Newest \in Nat /\ NumQueued \in Nat
      /\ \A n \in 1..NumQueued : queue[n].time \in Nat
  BY <1>2, NewestIs
<1>4. LatestTime \in Nat /\ LatestTime' \in Nat /\ LatestTime <= LatestTime'
  BY <1>2, LatestType, LatestStays
<1>5. queue \in Seq(EventItems \cup {EndItem})
  BY DEF TypeInv
<1>6. CASE ReceivedEnd(h)
  <2>1. Job' = "leave" /\ edm = "ended" /\ QueueInv(h)'
    BY <1>6 DEF ReceivedEnd, ReceivesEnd
  <2>2. queue' = <<>>
    BY <2>1, Zenon DEF QueueInv
  <2>3. NumQueued' = 0
    BY <2>1, <2>2 DEF NumQueued, EndQueued
  <2>4. Newest' = lastTime
    BY <1>2, <2>1 DEF Newest
  <2>5. InOrder(queue, NumQueued, Newest, LatestTime)'
    BY <2>3, InOrderNothing, InOrderPrime
  <2>6. lastTime' <= Newest' /\ Newest' <= LatestTime'
    BY <1>1, <1>2, <1>3, <1>4, <2>4
  <2>7. QED
    BY <2>5, <2>6, OrderNext
<1>7. CASE ReceivedEvent(h)
  <2>1. Job' = "evaluate" /\ Pending' = Head(queue)
    BY <1>7 DEF ReceivedEvent, ReceivesEvent
  <2>2. Head(queue) = queue[1] /\ Len(queue) \in Nat \ {0} /\ Len(queue') = Len(queue) - 1
        /\ \A n \in 1..Len(queue) - 1 : queue'[n] = queue[n + 1]
    BY <1>2, <1>5, EmptySeq
  <2>3. Newest' = queue[1].time
    BY <2>1, <2>2 DEF Newest
  <2>4. NumQueued' = NumQueued - 1 /\ NumQueued <= Len(queue)
    BY <1>2, <2>1, <2>2 DEF NumQueued, EndQueued
  <2>5. NumQueued # 0
    <3>1. QueueInv(h + 1)' /\ reader' = reader /\ edm' = edm
      BY <1>2, <1>7 DEF ReceivedEvent
    <3>2. edm = "ended" => queue' # <<>>
      BY <1>2, <2>1, <3>1, Zenon DEF QueueInv, EndQueued
    <3>3. edm = "ended" => Len(queue') # 0
      BY <1>2, <1>5, <3>2, EmptySeq
    <3>4. QED
      BY <1>2, <2>2, <3>3 DEF NumQueued, EndQueued
  <2> DEFINE n == NumQueued - 1
  <2>6. n \in Nat /\ NumQueued = n + 1 /\ 1 \in 1..NumQueued /\ n <= Len(queue) - 1
    BY <1>3, <2>4, <2>5
  <2>7. NumQueued' = n
    BY <2>4
  <2> HIDE DEF n
  <2>8. queue[1].time \in Nat /\ Newest <= queue[1].time /\ queue[1].time <= LatestTime
    BY <1>1, <1>3, <2>6, Zenon DEF InOrder
  <2>9. InOrder(queue, n + 1, Newest, LatestTime)
    BY <1>1, <2>6, Zenon
  <2>10. \A i \in 1..n : queue'[i] = queue[i + 1] /\ i + 1 \in 1..NumQueued
    BY <2>2, <2>6
  <2>11. InOrder(queue', n, queue[1].time, LatestTime)
    BY <2>6, <2>9, <2>10, InOrderOneLess
  <2>12. \A i \in 1..n : queue'[i].time \in Nat
    BY <1>3, <2>10, Zenon
  <2>13. InOrder(queue', n, queue[1].time, LatestTime')
    <3>1. queue[1].time <= queue[1].time
      BY <2>8
    <3>2. QED
      BY <1>4, <2>6, <2>8, <2>11, <2>12, <3>1, InOrderWider
  <2>14. InOrder(queue, NumQueued, Newest, LatestTime)'
    BY <2>3, <2>7, <2>13, InOrderPrime
  <2>15. lastTime' <= Newest' /\ Newest' <= LatestTime'
    BY <1>2, <1>3, <1>4, <2>3, <2>8
  <2>16. QED
    BY <2>14, <2>15, OrderNext
<1>8. QED
  BY <1>6, <1>7, QueueReceive

(* It holds after setup.                                                   *)
LEMMA OrderSetup ==
    ASSUME TypeInv, UnstartedInv, ReaderInv, TodoInv, StartInv, EarlyInv,
           NEW h \in 0..reader.rows, QueueInv(h), [Next]_vars, Setup
    PROVE  OrderInv'
<1> USE DEF source, main, display
<1>1. /\ edm = "setup" /\ reader'.rows = 0 /\ lastTime' = lastTime /\ config # <<>>
      /\ UNCHANGED <<config, queue, todo, clock>> /\ queue = <<>>
  BY DEF Setup, Running, ReaderInv
<1>2. lastTime = 0 /\ Job \in {"idle", "start"} /\ Job' = Job
  BY <1>1, FrozenTodo DEF EarlyInv, Job
<1>3. Newest' = 0
  BY <1>1, <1>2 DEF Newest
<1>4. NumQueued' = 0
  <2>1. edm' = "reads"
    BY DEF Setup
  <2>2. QED
    BY <1>1, <2>1 DEF NumQueued, EndQueued
<1>5. InOrder(queue, NumQueued, Newest, LatestTime)'
  BY <1>4, InOrderNothing, InOrderPrime
<1>6. LatestTime' \in Nat
  <2>1. config.timer \in {"RealTime", "FromFile", "Delayed"}
        /\ (config.timer = "Delayed" => config.delay[1] \in Nat)
    BY <1>1, LineTypes DEF TypeInv
  <2>2. CASE config.timer = "RealTime"
    BY <1>1, <2>2 DEF LatestTime, TypeInv
  <2>3. CASE config.timer = "Delayed"
    <3>1. LatestTime' = 0 * config.delay[1]
      BY <1>1, <2>3 DEF LatestTime
    <3>2. QED
      BY <2>1, <2>3, <3>1
  <2>4. CASE config.timer = "FromFile"
    BY <1>1, <2>4 DEF LatestTime
  <2>5. QED
    BY <2>1, <2>2, <2>3, <2>4
<1>7. lastTime' <= Newest' /\ Newest' <= LatestTime'
  BY <1>1, <1>2, <1>3, <1>6
<1>8. QED
  BY <1>5, <1>7, OrderNext

(* Every step keeps the order.                                             *)
LEMMA OrderStep ==
    ASSUME TypeInv, UnstartedInv, ReaderInv, TimerInv, TodoInv, StartInv, EarlyInv, OrderInv,
           FaultInv, NEW h \in 0..reader.rows, QueueInv(h), [Next]_vars
    PROVE  OrderInv'
<1>1. CASE Configure
  <2>1. edm' = "setup"
    BY <1>1 DEF Configure, UnstartedInv, source
  <2>2. QED
    BY <2>1 DEF OrderInv
<1>2. CASE config' = config
  <2>1. CASE config = <<>>
    <3>1. UnstartedInv'
      BY UnstartedStep
    <3>2. edm' = "setup"
      BY <1>2, <2>1, <3>1 DEF UnstartedInv
    <3>3. QED
      BY <3>2 DEF OrderInv
  <2>2. CASE config # <<>>
    <3>1. (Offline' <=> Offline) /\ (AtFault' <=> AtFault)
      BY <1>2, FileStays, FrozenSteps, FrozenFault
    <3>2. CASE Setup
      BY <3>2, OrderSetup
    <3>3. CASE ~Setup
      <4>1. SUFFICES ASSUME edm' # "setup", Offline', ~AtFault' PROVE OrderInv'
        BY DEF OrderInv
      <4>2. edm # "setup"
        BY <3>3, <4>1, ReadingSteps
            DEF ReadRow, PanicOnRow, EndOfFile, Configure, Reads, UnstartedInv, source
      <4>3. Offline /\ ~AtFault
        BY <3>1, <4>1
      <4>4. CASE Receive
        BY <4>2, <4>3, <4>4, OrderReceive
      <4>5. CASE ~Receive
        BY <2>2, <4>1, <4>2, <4>3, <4>5, OrderRest
      <4>6. QED
        BY <4>4, <4>5
    <3>4. QED
      BY <3>2, <3>3
  <2>3. QED
    BY <2>1, <2>2
<1>3. QED
  BY <1>1, <1>2, ConfigStays

-----------------------------------------------------------------------------
(* The invariant.                                                          *)

ReceivedSome == \E h \in 0..reader.rows : Received(h)

(* The invariant by its parts.                                             *)
LEMMA InvParts ==
    IInv <=> /\ TypeInv /\ UnstartedInv /\ ReaderInv /\ TimerInv
             /\ TodoInv /\ StartInv /\ ReceivedSome
             /\ ScreenInv /\ TurnInv /\ OrderInv /\ EarlyInv /\ FaultInv /\ LeftInv
BY Zenon DEF IInv, ReceivedSome, Received

LEMMA InvNext ==
    ASSUME TypeInv', UnstartedInv', ReaderInv', TimerInv', TodoInv', StartInv',
           \E h \in 0..reader'.rows : Received(h)',
           ScreenInv', TurnInv', OrderInv', EarlyInv', FaultInv', LeftInv'
    PROVE  IInv'
BY Zenon DEF IInv, Received

(* The invariant holds initially.                                          *)
LEMMA InvInit == ASSUME Init PROVE IInv
<1>1. TypeInv /\ UnstartedInv
  BY InitTypes
<1>2. /\ config = <<>> /\ edm = "setup" /\ queue = <<>> /\ todo = <<>>
      /\ lastTime = 0 /\ outcome \notin {"done", "exit", "panic"} /\ Job = "idle"
  BY DEF Init, Job, JobOf
<1>3. reader.rows = 0
  BY DEF Init
<1>4. ReaderInv
  <2>1. NumRows \in Nat
    BY <1>1, FileTypes DEF TypeInv
  <2>2. 1..reader.rows = {} /\ reader.rows <= NumRows
    BY <1>3, <2>1
  <2>3. QED
    BY <1>2, <1>3, <2>2, Zenon DEF ReaderInv
<1>5. TimerInv /\ StartInv /\ ScreenInv /\ TurnInv
  BY <1>2 DEF TimerInv, StartInv, ScreenInv, TurnInv
<1>6. TodoInv
  <2>1. Len(<<>>) = 0 /\ \A n \in 1..0 : FALSE
    OBVIOUS
  <2>2. \A n \in 1..Len(todo) : FALSE
    BY <1>2, <2>1, Zenon
  <2>3. QED
    BY <1>2, <2>2 DEF TodoInv
<1>7. Received(0)
  <2>1. ~EndQueued /\ NumQueued = 0
    BY <1>2 DEF EndQueued, NumQueued
  <2>2. \A n \in 1..NumQueued : FALSE
    BY <2>1
  <2>3. 0 + NumQueued = reader.rows /\ 0 + NumQueued <= reader.rows
    BY <1>3, <2>1
  <2>4. QueueInv(0)
    BY <1>2, <2>1, <2>2, <2>3 DEF QueueInv
  <2>5. QED
    BY <1>2, <2>4 DEF Received, ReportInv, CountsInv
<1>8. ReceivedSome
  <2>1. 0 \in 0..reader.rows
    BY <1>3
  <2>2. QED
    BY <1>7, <2>1, Zenon DEF ReceivedSome
<1>9. OrderInv /\ EarlyInv /\ FaultInv /\ LeftInv
  BY <1>2 DEF OrderInv, EarlyInv, FaultInv, LeftInv
<1>10. QED
  BY <1>1, <1>4, <1>5, <1>6, <1>8, <1>9, InvParts

(* Every step keeps the invariant.                                         *)
LEMMA InvStep == ASSUME IInv, [Next]_vars PROVE IInv'
<1>1. /\ TypeInv /\ UnstartedInv /\ ReaderInv /\ TimerInv
      /\ TodoInv /\ StartInv /\ ReceivedSome
      /\ ScreenInv /\ TurnInv /\ OrderInv /\ EarlyInv /\ FaultInv /\ LeftInv
  BY InvParts
<1>2. PICK h \in 0..reader.rows : Received(h)
  BY <1>1, Zenon DEF ReceivedSome
<1>3. QueueInv(h) /\ CountsInv(h)
  BY <1>2 DEF Received
<1>4. TypeInv'
  BY <1>1, <1>3, TypeStep
<1>5. UnstartedInv'
  BY <1>1, UnstartedStep
<1>6. ReaderInv'
  BY <1>1, ReaderStep
<1>7. TimerInv'
  BY <1>1, TimerStep
<1>8. TodoInv'
  BY <1>1, <1>3, TodoStep
<1>9. StartInv'
  BY <1>1, <1>3, StartStep
<1>10. \E g \in 0..reader'.rows : Received(g)'
  BY <1>1, <1>2, ReceivedStep
<1>11. ScreenInv'
  BY <1>1, <1>3, ScreenStep
<1>12. TurnInv'
  BY <1>1, <1>3, TurnStep
<1>13. OrderInv'
  BY <1>1, <1>3, OrderStep
<1>14. EarlyInv'
  BY <1>1, <1>3, EarlyStep
<1>15. FaultInv'
  BY <1>1, <1>3, FaultStep
<1>16. LeftInv'
  BY <1>1, LeftStep
<1>17. QED
  BY <1>4, <1>5, <1>6, <1>7, <1>8, <1>9, <1>10, <1>11, <1>12, <1>13, <1>14, <1>15, <1>16,
     InvNext

(***************************************************************************)
(* The invariant holds in every state of every run of the interpreter.     *)
(***************************************************************************)
THEOREM Invariant == Spec => []IInv
<1>1. Init => IInv
  BY InvInit
<1>2. IInv /\ [Next]_vars => IInv'
  BY InvStep
<1>3. QED
  BY <1>1, <1>2, PTL DEF Spec

-----------------------------------------------------------------------------
(* What follows.                                                           *)

LEMMA TypeHolds == ASSUME IInv PROVE TypeInv
BY DEF IInv

(***************************************************************************)
(* The triggers that are on the screen.                                    *)
(***************************************************************************)
LEMMA TriggersAreReported == ASSUME IInv PROVE TriggersReported
<1> SUFFICES ASSUME config # <<>>
             PROVE  IF ~Shown THEN TriggerLines = <<>>
                    ELSE /\ Len(TriggerLines) <= Len(Firing)
                         /\ \A i \in DOMAIN TriggerLines : Reports(TriggerLines[i], Firing[i])
                         /\ outcome = "done" => Len(TriggerLines) = Len(Firing)
                         /\ \A n \in DOMAIN screen : screen[n].k \notin {"events", "triggers"}
  BY DEF TriggersReported, Shown
<1>1. TypeInv /\ ReaderInv /\ TodoInv /\ LeftInv /\ ReceivedSome
  BY InvParts
<1>2. PICK h \in 0..reader.rows : Received(h)
  BY <1>1, Zenon DEF ReceivedSome
<1>3. QueueInv(h) /\ ReportInv(h)
  BY <1>2 DEF Received
<1>4. reader.rows \in Nat /\ NumRows \in Nat /\ reader.rows <= NumRows
  BY <1>1, FileTypes DEF TypeInv, ReaderInv
<1>5. screen \in Seq(LineSet) /\ todo \in Seq(StepSet) /\ file \in Files /\ reader.rows \in Nat
  BY <1>1 DEF TypeInv
<1>6. TriggerLines = TriggersOf(screen)
  BY DEF TriggerLines, TriggersOf
<1>7. CASE ~Shown
  <2>1. \A n \in 1..Len(screen) : screen[n].k # "trigger"
    BY <1>3, <1>7, ReportNow
  <2>2. TriggerLines = <<>>
    BY <1>5, <1>6, <2>1, TriggersNothing, Zenon
  <2>3. QED
    BY <1>7, <2>2
<1>8. CASE Shown
  <2> DEFINE seen == TriggerLines pending == PendingLines(todo) e == Evaluated(h)
             some == FiringUpTo(e)
  <2>1. Matches(seen \o pending, some)
        /\ \A n \in 1..Len(screen) : screen[n].k \in {"message", "trigger"}
    BY <1>3, <1>6, <1>8, ReportNow
  <2>2. seen \in Seq(LineSet) /\ pending \in Seq(AllLines)
    BY <1>5, <1>6, TriggersType, PendingType
  <2>3. NumRows \in Nat /\ e \in 0..NumRows
    <3>1. h \in 0..NumRows
      BY <1>4
    <3>2. Job = "evaluate" => h > 0
      BY <1>3, Zenon DEF QueueInv
    <3>3. e = IF Job = "evaluate" THEN h - 1 ELSE h
      BY Zenon DEF Evaluated
    <3> HIDE DEF e
    <3>4. e \in 0..NumRows
      BY <1>4, <3>1, <3>2, <3>3
    <3>5. QED
      BY <1>4, <3>4
  <2>4. Starts(some, Firing)
    BY <1>5, <2>3, FiringPrefix, FiringIsAll
  <2>5. some \in Seq(FiringSet)
    BY <2>3, FiringUpToType
  <2> HIDE DEF seen, pending, e, some
  <2>6. Len(seen) \in Nat /\ Len(pending) \in Nat /\ DOMAIN seen = 1..Len(seen)
    BY <2>2, LenProperties, Zenon
  <2>7. Len(seen \o pending) = Len(seen) + Len(pending)
        /\ \A i \in 1..Len(seen) : (seen \o pending)[i] = seen[i]
    <3> DEFINE S == LineSet \cup AllLines
    <3>1. \A A, B : \A s \in Seq(A) : s \in Seq(A \cup B) /\ s \in Seq(B \cup A)
      OBVIOUS
    <3>2. seen \in Seq(S) /\ pending \in Seq(S)
      BY <2>2, <3>1, Zenon
    <3> HIDE DEF S
    <3>3. QED
      BY <3>2, ConcatProperties
  <2>8. Len(some) = Len(seen) + Len(pending)
        /\ \A i \in 1..Len(seen) + Len(pending) : Reports((seen \o pending)[i], some[i])
    BY <2>1, <2>7, Zenon DEF Matches
  <2>9. Len(some) <= Len(Firing) /\ \A i \in 1..Len(some) : some[i] = Firing[i]
    BY <2>4 DEF Starts
  <2>10. Len(Firing) \in Nat
    <3>1. NumRows \in 0..NumRows
      BY <1>4
    <3>2. Firing \in Seq(FiringSet)
      BY <1>5, <1>4, <3>1, FiringUpToType, FiringIsAll, Zenon
    <3>3. QED
      BY <3>2, LenProperties, Zenon
  <2> DEFINE m == Len(seen) k == Len(pending) all == Len(Firing) l == Len(some)
  <2>11. m \in Nat /\ k \in Nat /\ all \in Nat /\ l = m + k /\ l <= all
    BY <2>6, <2>8, <2>9, <2>10, Zenon
  <2> HIDE DEF m, k, all, l
  <2>12. m <= all /\ (k = 0 => l = m) /\ \A i \in 1..m : i \in 1..m + k /\ i \in 1..l
    BY <2>11
  <2>13. Len(seen) <= Len(Firing)
    BY <2>12 DEF m, all
  <2>14. ASSUME NEW i \in DOMAIN seen PROVE Reports(seen[i], Firing[i])
    <3>1. i \in 1..Len(seen) /\ i \in 1..Len(seen) + Len(pending) /\ i \in 1..Len(some)
      BY <2>6, <2>12, Zenon DEF m, k, l
    <3>2. QED
      BY <2>7, <2>8, <2>9, <3>1, Zenon
  <2>15. outcome = "done" => Len(seen) = Len(Firing)
    <3> SUFFICES ASSUME outcome = "done" PROVE Len(seen) = Len(Firing)
      OBVIOUS
    <3>1. Job = "leave"
      BY <1>1 DEF LeftInv
    <3>2. h = NumRows /\ e = h /\ pending = <<>>
      BY <1>1, <1>3, <3>1, EndPending DEF e, pending
    <3>3. some = Firing
      BY <1>5, <3>2, FiringIsAll, Zenon DEF some
    <3>4. Len(pending) = 0
      <4>1. Len(<<>>) = 0
        OBVIOUS
      <4>2. QED
        BY <3>2, <4>1, Zenon
    <3>5. Len(some) = Len(seen)
      BY <2>12, <3>4, Zenon DEF m, k, l
    <3>6. QED
      BY <3>3, <3>5, Zenon
  <2>16. \A n \in DOMAIN screen : screen[n].k \notin {"events", "triggers"}
    <3>1. DOMAIN screen = 1..Len(screen)
      BY <1>5, LenProperties
    <3>2. QED
      BY <2>1, <3>1
  <2>17. QED
    BY <1>8, <2>13, <2>14, <2>15, <2>16 DEF seen
<1>9. QED
  BY <1>7, <1>8

(***************************************************************************)
(* In every state, the triggers on the screen are the first of those of    *)
(* the file, each with its time, and at the end they are all of them       *)
(* (evaluator.rs, eval_stream; io_handler.rs, trigger and time_info;       *)
(* csv_input.rs, get_event and read_time).                                 *)
(***************************************************************************)
THEOREM TriggersAlwaysReported == Spec => []TriggersReported
<1>1. IInv => TriggersReported
  BY TriggersAreReported
<1>2. QED
  BY <1>1, Invariant, PTL

(***************************************************************************)
(* Once done is set, the screen has the numbers of the whole file, and     *)
(* keeps them: no interleaving with the progress thread repeats or erases  *)
(* a line (Statistics::terminate, start_print_progress).                   *)
(***************************************************************************)
THEOREM FinalReportStays == Spec => []FinalReport
<1>1. IInv => FinalReport
  <2> SUFFICES ASSUME IInv, done
               PROVE  screen = FinalLines
    BY DEF FinalReport, FinalLines, NumRows
  <2>1. TypeInv /\ UnstartedInv /\ ScreenInv
    BY DEF IInv
  <2>2. config # <<>>
    BY <2>1 DEF UnstartedInv
  <2>3. QED
    BY <2>1, <2>2, ScreenIs
<1>2. QED
  BY <1>1, Invariant, PTL

(***************************************************************************)
(* Whatever the threads do, a run only exits early or panics when the      *)
(* arguments or the file are at fault (csv_input.rs, get_time;             *)
(* controller.rs, time_rx.recv; evaluator.rs, prepare_evaluation).         *)
(***************************************************************************)
THEOREM OnlyBadInputStops == Spec => []StopsOnlyOnBadInput
<1>1. IInv => StopsOnlyOnBadInput
  BY DEF IInv, FaultInv, StopsOnlyOnBadInput
<1>2. QED
  BY <1>1, Invariant, PTL

(***************************************************************************)
(* The variables have their types.                                         *)
(***************************************************************************)
THEOREM TypeCorrect == Spec => []TypeInv
<1>1. IInv => TypeInv
  BY TypeHolds
<1>2. QED
  BY <1>1, Invariant, PTL
=============================================================================

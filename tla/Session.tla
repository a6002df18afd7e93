------------------------------- MODULE Session -------------------------------
(***************************************************************************)
(* One run of the interpreter from the command line to the screen:         *)
(* Config::new (interpreter/src/lib.rs), the CSV event source              *)
(* (basics/csv_input.rs), the event driven manager, the controller, and    *)
(* the output handler with its progress thread (basics/io_handler.rs).     *)
(*                                                                         *)
(* The specification has a Boolean input for every name of Inputs and a    *)
(* trigger on each of them, no stream is time driven (OfflineController    *)
(* and OnlineController have those).  The channel between the threads is   *)
(* a queue of items: the batches and the capacity of the offline channel   *)
(* (OfflineController) only delay what the queue hands over at once.       *)
(* A duration is a number of nanoseconds, a second has 10^Digits of them.  *)
(* What is written to stdout and stderr is seen on one terminal, in lines. *)
(***************************************************************************)
EXTENDS Integers, Sequences, SequencesExt

CONSTANTS
    Inputs,       \* the names of the input streams, in order
    TimeNames,    \* the names whose lower case is time, ts or timestamp
    Files,        \* the CSV files: [header, rows]
    CommandLines, \* the arguments of the runs
    Digits,       \* the decimals of a second, 9 in the code
    Boot,         \* the wall clock when the process starts
    MaxClock      \* bound: the time that passes during a run

(***************************************************************************)
(* A cell is what is written between two commas: nothing, a Boolean, a     *)
(* number, anything else.  A number has a part before the first point and, *)
(* if there is one, decimals behind it; "more" if a second point follows.  *)
(***************************************************************************)
Cells == [k : {"None", "Text"}] \cup [k : {"Bool"}, v : BOOLEAN]
    \cup [k : {"Time"}, whole : Nat, point : BOOLEAN, fraction : Seq(0..9), more : BOOLEAN]

ASSUME InputsAssumption == Inputs \in Seq(STRING) /\ Inputs # <<>>
ASSUME FilesAssumption == Files \subseteq [header : Seq(STRING), rows : Seq(Seq(Cells))]
ASSUME DigitsAssumption == Digits \in Nat
ASSUME ClockAssumption == Boot \in Nat /\ MaxClock \in Nat

VARIABLES
    file,      \* the file that is read
    line,      \* the command line
    config,    \* the EvalConfig, <<>> before the arguments are read
    reader,    \* the event source: columns, time column, rows read, timer
    edm,       \* the event driven manager: "setup", "reads", "ended", "panicked"
    slot,      \* the channel that carries the start time: a sequence
    queue,     \* the work queue
    todo,      \* what the main thread does before it receives again
    startTime, \* OutputHandler.start_time
    lastTime,  \* time_last_event of the evaluator
    counts,    \* num_events and num_triggers (their sum)
    screen,    \* the lines on the terminal
    lock,      \* who holds the mutex of done
    done,      \* StatisticsData.done
    progress,  \* the progress thread: "off", "sleeps", "events", "triggers"
    clock,     \* the time since the process started
    outcome    \* "", or how the process ended: "done", "exit", "panic"

source == <<edm, reader>>
main == <<todo, startTime, lastTime, counts>>
display == <<screen, lock, done, progress>>
vars == <<file, line, config, source, slot, queue, main, display, clock, outcome>>

-----------------------------------------------------------------------------
(* The command line.                                                       *)

Verbosities == <<"Silent", "Progress", "WarningsOnly", "Triggers", "Outputs", "Debug">>
Level(verbosity) == CHOOSE i \in DOMAIN Verbosities : Verbosities[i] = verbosity

VerbosityOf ==
    [debug |-> "Debug", outputs |-> "Outputs", triggers |-> "Triggers",
     warnings |-> "WarningsOnly", progress |-> "Progress",
     silent |-> "Silent", quiet |-> "Silent"]

Text == -1 \* an argument that is no number

ASSUME LinesAssumption ==
    \A l \in CommandLines :
        /\ l.csvIn \in BOOLEAN /\ l.online \in BOOLEAN
        /\ l.column \in Seq(Nat \cup {Text}) /\ Len(l.column) <= 1
        /\ l.delay \in Seq(Nat \cup {Text}) /\ Len(l.delay) <= 1
        /\ l.verbosity \in DOMAIN VerbosityOf
        /\ l.time \in {"Hide", "Relative", "Absolute"}

Unreadable(l) == l.delay = <<Text>> \/ l.column \in {<<Text>>, <<0>>}

Config(l) ==
    [timer     |-> IF ~l.csvIn THEN "RealTime"
                   ELSE IF l.delay = <<>> THEN "FromFile" ELSE "Delayed",
     delay     |-> l.delay,
     column    |-> l.column,
     verbosity |-> VerbosityOf[l.verbosity],
     mode      |-> IF l.online THEN "Online" ELSE "Offline",
     time      |-> l.time]

-----------------------------------------------------------------------------
(* The output handler and the progress thread.                             *)

Note(kind) == [do |-> "message", kind |-> kind]
Message(kind) == [k |-> "message", kind |-> kind]
EventsLine == [k |-> "events", n |-> counts.events]
TriggersLine == [k |-> "triggers", n |-> counts.triggers]

Emits(kind) == Level(kind) <= Level(config.verbosity)
Emit(kind, text) == screen' = IF Emits(kind) THEN Append(screen, text) ELSE screen

Counts == config.verbosity = "Progress"
Cleared(lines) == SubSeq(lines, 1, Len(lines) - 2)

TimeInfo(time) ==
    CASE config.time = "Hide" -> <<>>
      [] config.time = "Relative" -> <<time>>
      [] config.time = "Absolute" -> <<startTime + time>>

Running == outcome = "" /\ config # <<>>
ByTheClock == config.timer = "RealTime" \/ config.mode = "Online"

(***************************************************************************)
(* The progress thread holds the lock from the look at done to the end of  *)
(* the report.                                                             *)
(***************************************************************************)
ProgressWakesUnlocked == \* a wrong variant: the guard is dropped at the look
    /\ Running /\ progress = "sleeps" /\ lock = "free"
    /\ IF done THEN progress' = "off" /\ UNCHANGED screen
       ELSE progress' = "events" /\ screen' = Cleared(screen)
    /\ UNCHANGED <<file, line, config, source, slot, queue, main, lock, done, clock, outcome>>

ProgressWakes ==
    /\ Running /\ progress = "sleeps" /\ lock = "free"
    /\ IF done THEN progress' = "off" /\ UNCHANGED <<screen, lock>>
       ELSE /\ progress' = "events"
            /\ screen' = Cleared(screen)
            /\ lock' = "progress"
    /\ UNCHANGED <<file, line, config, source, slot, queue, main, done, clock, outcome>>

ProgressEvents ==
    /\ Running /\ progress = "events"
    /\ screen' = Append(screen, EventsLine)
    /\ progress' = "triggers"
    /\ UNCHANGED <<file, line, config, source, slot, queue, main, lock, done, clock, outcome>>

ProgressTriggers ==
    /\ Running /\ progress = "triggers"
    /\ screen' = Append(screen, TriggersLine)
    /\ progress' = "sleeps"
    /\ lock' = "free"
    /\ UNCHANGED <<file, line, config, source, slot, queue, main, done, clock, outcome>>

-----------------------------------------------------------------------------
(* The event source.                                                       *)

NoTime == 0 \* no column has the times
Position(header, names) == SelectInSeq(header, LAMBDA name : name \in names)

ColumnOf(header) == [i \in DOMAIN Inputs |-> Position(header, {Inputs[i]})]
TimeColumnFromZero(header) == \* a wrong variant: the option counts from zero
    IF config.column # <<>> /\ config.timer # "RealTime" THEN config.column[1] + 1
    ELSE Position(header, TimeNames)

TimeColumn(header) ==
    IF config.column # <<>> /\ config.timer # "RealTime" THEN config.column[1]
    ELSE Position(header, TimeNames)

Tens[i \in 0..Digits] == IF i = 0 THEN 1 ELSE 10 * Tens[i - 1]
Second == Tens[Digits]

(***************************************************************************)
(* The decimals are read up to the ninth, a missing one as a zero, and so  *)
(* one that is no digit.                                                   *)
(***************************************************************************)
NanosAsWritten(fraction) == \* a wrong variant: stops where the decimals end
    LET upTo[i \in 0..Digits] ==
            IF i = 0 THEN 0
            ELSE IF i > Len(fraction) THEN upTo[i - 1]
            ELSE upTo[i - 1] * 10 + fraction[i]
    IN  upTo[Digits]

Decimal(fraction, i) == IF i <= Len(fraction) THEN fraction[i] ELSE 0
Nanos(fraction) ==
    LET upTo[i \in 0..Digits] ==
            IF i = 0 THEN 0 ELSE upTo[i - 1] * 10 + Decimal(fraction, i)
    IN  upTo[Digits]

(***************************************************************************)
(* The time of a row, none if there is no column of times; what is no      *)
(* number ends the process.  A number without a point is one of            *)
(* nanoseconds.                                                            *)
(***************************************************************************)
ReadTime(row) ==
    LET cell == row[reader.time]
    IN  IF reader.time = NoTime THEN [k |-> "none"]
        ELSE IF reader.time \notin DOMAIN row THEN [k |-> "panic"]
        ELSE IF cell.k # "Time" THEN [k |-> "exit"]
        ELSE IF ~cell.point THEN [k |-> "time", t |-> cell.whole]
        ELSE IF cell.more THEN [k |-> "panic"]
        ELSE [k |-> "time", t |-> cell.whole * Second + Nanos(cell.fraction)]

(***************************************************************************)
(* get_time: the time of the event, and the timer after it.                *)
(***************************************************************************)
Timed(time, timer) == [k |-> "time", t |-> time, timer |-> timer]
GetTime(row) ==
    LET now == ReadTime(row)
    IN  CASE config.timer = "RealTime" -> Timed(clock, reader.timer)
          [] config.timer = "Delayed" ->
                 Timed(reader.timer[1] + config.delay[1], <<reader.timer[1] + config.delay[1]>>)
          [] config.timer = "FromFile" ->
                 IF now.k = "none" THEN [k |-> "panic"]
                 ELSE IF now.k # "time" THEN now
                 ELSE IF reader.timer = <<>> THEN Timed(0, <<now.t>>)
                 ELSE IF now.t < reader.timer[1] THEN [k |-> "panic"]
                 ELSE Timed(now.t - reader.timer[1], reader.timer)

(***************************************************************************)
(* A row is refused unless it has a cell for every column; then the cells  *)
(* of the inputs are parsed.                                               *)
(***************************************************************************)
Unparsable(row) ==
    Len(row) = Len(file.header) =>
        \E i \in DOMAIN Inputs : row[reader.columns[i]].k \notin {"None", "Bool"}
ReadEvent(row) == [i \in DOMAIN Inputs |-> row[reader.columns[i]]]

-----------------------------------------------------------------------------
(* The threads.                                                            *)

Ends(how) ==
    /\ outcome' = how
    /\ UNCHANGED <<file, line, config, source, slot, queue, main, display, clock>>

Init ==
    /\ file \in Files /\ line \in CommandLines
    /\ config = <<>>
    /\ reader = [columns |-> <<>>, time |-> NoTime, rows |-> 0, timer |-> <<>>]
    /\ edm = "setup" /\ slot = <<>> /\ queue = <<>> /\ todo = <<>>
    /\ startTime = Boot /\ lastTime = 0 /\ counts = [events |-> 0, triggers |-> 0]
    /\ screen = <<>> /\ lock = "free" /\ done = FALSE /\ progress = "off"
    /\ clock = 0 /\ outcome = ""

(***************************************************************************)
(* Config::new, Controller::new and OutputHandler::new; the main thread    *)
(* then waits, offline for the start time.                                 *)
(***************************************************************************)
BadArguments == outcome = "" /\ config = <<>> /\ Unreadable(line) /\ Ends("exit")

Configure ==
    /\ outcome = "" /\ config = <<>> /\ ~Unreadable(line)
    /\ config' = Config(line)
    /\ todo' = IF line.online THEN <<>> ELSE <<[do |-> "start"]>>
    /\ IF config'.verbosity = "Progress"
       THEN screen' = <<EventsLine, TriggersLine>> /\ progress' = "sleeps"
       ELSE UNCHANGED <<screen, progress>>
    /\ UNCHANGED <<file, line, source, slot, queue, startTime, lastTime, counts,
                   lock, done, clock, outcome>>

(***************************************************************************)
(* EventDrivenManager::setup: the header is mapped to the inputs.          *)
(***************************************************************************)
Setup ==
    /\ Running /\ edm = "setup"
    /\ \A i \in DOMAIN Inputs : ColumnOf(file.header)[i] # 0
    /\ reader' = [columns |-> ColumnOf(file.header), time |-> TimeColumn(file.header),
                  rows    |-> 0, timer |-> IF config.timer = "Delayed" THEN <<0>> ELSE <<>>]
    /\ edm' = "reads"
    /\ UNCHANGED <<file, line, config, slot, queue, main, display, clock, outcome>>

NoSuchColumn ==
    /\ Running /\ edm = "setup"
    /\ \E i \in DOMAIN Inputs : ColumnOf(file.header)[i] = 0
    /\ Ends("exit")

(***************************************************************************)
(* The event driven manager reads a row; offline, the time of the first    *)
(* one is sent ahead.                                                      *)
(***************************************************************************)
NextRow == file.rows[reader.rows + 1]
Reads == Running /\ edm = "reads" /\ reader.rows < Len(file.rows)
First == config.mode = "Offline" /\ reader.rows = 0

ReadRow ==
    /\ Reads /\ ~Unparsable(NextRow)
    /\ LET time == GetTime(NextRow)
           start == ReadTime(NextRow)
       IN  /\ time.k = "time"
           /\ First => start.k \in {"time", "none"}
           /\ slot' = IF ~First THEN slot
                      ELSE <<IF start.k = "time" THEN start.t ELSE 0>>
           /\ queue' = Append(queue, [event |-> ReadEvent(NextRow), time |-> time.t])
           /\ reader' = [reader EXCEPT !.rows = @ + 1, !.timer = time.timer]
    /\ UNCHANGED <<file, line, config, edm, main, display, clock, outcome>>

(***************************************************************************)
(* What cannot be read ends the process, or the thread panics: offline the *)
(* rows of the batch that was not sent yet are lost with it.               *)
(***************************************************************************)
Failure(how) ==
    \/ how = "exit" /\ Unparsable(NextRow)
    \/ /\ ~Unparsable(NextRow)
       /\ \/ GetTime(NextRow).k = how
          \/ GetTime(NextRow).k = "time" /\ First /\ ReadTime(NextRow).k = how

ExitOnRow == Reads /\ Failure("exit") /\ Ends("exit")

PanicOnRow ==
    /\ Reads /\ Failure("panic")
    /\ edm' = "panicked"
    /\ \E sent \in 0..Len(queue) :
           /\ config.mode = "Online" => sent = Len(queue)
           /\ queue' = SubSeq(queue, 1, sent)
    /\ UNCHANGED <<file, line, config, reader, slot, main, display, clock, outcome>>

EndOfFile ==
    /\ Running /\ edm = "reads" /\ reader.rows = Len(file.rows)
    /\ edm' = "ended"
    /\ queue' = Append(queue, [event |-> <<>>])
    /\ UNCHANGED <<file, line, config, reader, slot, main, display, clock, outcome>>

(***************************************************************************)
(* The main thread.  What an event makes it do: the controller counts it,  *)
(* the evaluator accepts the inputs, then evaluates the triggers of those  *)
(* that are there.                                                         *)
(***************************************************************************)
Fires(cell) == cell.k = "Bool" /\ cell.v
EventSteps(item) ==
    <<Note("Debug")>>
    \o (IF config.mode = "Offline" THEN <<Note("Debug")>> ELSE <<>>)
    \o <<[do |-> "count"], [do |-> "evaluate", item |-> item]>>

EvaluationSteps(event, time) ==
    LET accepted ==
            [i \in DOMAIN Inputs |->
                IF event[i].k = "None" THEN <<>> ELSE <<Note("Debug")>>]
        evaluated ==
            [i \in DOMAIN Inputs |->
                IF event[i].k = "None" THEN <<>>
                ELSE IF ~Fires(event[i]) THEN <<Note("Debug")>>
                ELSE <<Note("Debug"), [do |-> "trigger", trigger |-> i, time |-> time]>>]
    IN  FlattenSeq(accepted) \o FlattenSeq(evaluated)

EndSteps ==
    <<Note("Debug"), Note("Outputs")>>
    \o (IF config.mode = "Offline" /\ Counts
        THEN <<[do |-> "clear"], [do |-> "events"], [do |-> "triggers"]>> ELSE <<>>)
    \o <<[do |-> "leave"]>>

Receive ==
    /\ Running /\ todo = <<>> /\ queue # <<>>
    /\ todo' = IF Head(queue).event = <<>> THEN EndSteps ELSE EventSteps(Head(queue))
    /\ queue' = Tail(queue)
    /\ UNCHANGED <<file, line, config, source, slot, startTime, lastTime, counts, display,
                   clock, outcome>>

HungUp == Running /\ todo = <<>> /\ queue = <<>> /\ edm = "panicked" /\ Ends("panic")

Doing(do) == Running /\ todo # <<>> /\ Head(todo).do = do
Rest == todo' = Tail(todo)

ReceiveStart ==
    /\ Doing("start") /\ slot # <<>>
    /\ startTime' = slot[1] /\ slot' = <<>> /\ Rest
    /\ UNCHANGED <<file, line, config, source, queue, lastTime, counts, display, clock, outcome>>

NoStart == Doing("start") /\ slot = <<>> /\ edm \in {"ended", "panicked"} /\ Ends("panic")

Prints ==
    /\ Doing("message") /\ Rest
    /\ Emit(Head(todo).kind, Message(Head(todo).kind))
    /\ UNCHANGED <<file, line, config, source, slot, queue, startTime, lastTime, counts,
                   lock, done, progress, clock, outcome>>

CountEvent ==
    /\ Doing("count") /\ Rest
    /\ counts' = IF Counts THEN [counts EXCEPT !.events = @ + 1] ELSE counts
    /\ UNCHANGED <<file, line, config, source, slot, queue, startTime, lastTime, display,
                   clock, outcome>>

EvalEvent ==
    /\ Doing("evaluate")
    /\ LET item == Head(todo).item
           time == IF config.mode = "Offline" THEN item.time ELSE clock
       IN  /\ config.mode = "Offline" => lastTime <= item.time
           /\ lastTime' = IF config.mode = "Offline" THEN item.time ELSE lastTime
           /\ todo' = EvaluationSteps(item.event, time) \o Tail(todo)
    /\ UNCHANGED <<file, line, config, source, slot, queue, startTime, counts, display,
                   clock, outcome>>

NotMonotonic ==
    /\ Doing("evaluate") /\ config.mode = "Offline"
    /\ lastTime > Head(todo).item.time
    /\ Ends("panic")

Trigger ==
    /\ Doing("trigger") /\ Rest
    /\ Emit("Triggers", [k |-> "trigger", trigger |-> Head(todo).trigger,
                         time |-> TimeInfo(Head(todo).time)])
    /\ counts' = IF Counts THEN [counts EXCEPT !.triggers = @ + 1] ELSE counts
    /\ UNCHANGED <<file, line, config, source, slot, queue, startTime, lastTime, lock, done,
                   progress, clock, outcome>>

(***************************************************************************)
(* Statistics::terminate, under the lock.                                  *)
(***************************************************************************)
TerminateClears ==
    /\ Doing("clear") /\ lock = "free" /\ Rest
    /\ lock' = "main"
    /\ screen' = Cleared(screen)
    /\ UNCHANGED <<file, line, config, source, slot, queue, startTime, lastTime, counts, done,
                   progress, clock, outcome>>

TerminateEvents ==
    /\ Doing("events") /\ Rest
    /\ screen' = Append(screen, EventsLine)
    /\ UNCHANGED <<file, line, config, source, slot, queue, startTime, lastTime, counts, lock,
                   done, progress, clock, outcome>>

TerminateTriggers ==
    /\ Doing("triggers") /\ Rest
    /\ screen' = Append(screen, TriggersLine)
    /\ done' = TRUE
    /\ lock' = "free"
    /\ UNCHANGED <<file, line, config, source, slot, queue, startTime, lastTime, counts,
                   progress, clock, outcome>>

Leave == Doing("leave") /\ Ends("done")

Stopped == outcome # "" /\ UNCHANGED vars

Tick ==
    /\ Running /\ clock < MaxClock
    /\ ByTheClock
    /\ clock' = clock + 1
    /\ UNCHANGED <<file, line, config, source, slot, queue, main, display, outcome>>

Next ==
    \/ BadArguments \/ Configure
    \/ Setup \/ NoSuchColumn \/ ReadRow \/ ExitOnRow \/ PanicOnRow \/ EndOfFile
    \/ Receive \/ HungUp \/ ReceiveStart \/ NoStart \/ Prints \/ CountEvent
    \/ EvalEvent \/ NotMonotonic \/ Trigger
    \/ TerminateClears \/ TerminateEvents \/ TerminateTriggers \/ Leave
    \/ ProgressWakes \/ ProgressEvents \/ ProgressTriggers
    \/ Tick \/ Stopped

Spec == Init /\ [][Next]_vars

-----------------------------------------------------------------------------
(* What the file says, and what of it is to be seen.                       *)

Columns(names) == \* the first column that has one of the names, if there is one
    {c \in DOMAIN file.header :
        /\ file.header[c] \in names
        /\ \A d \in 1..c - 1 : file.header[d] \notin names}
CellsOf(r, i) ==
    {file.rows[r][c] : c \in Columns({Inputs[i]}) \cap DOMAIN file.rows[r]}
FiringOf(r) == \* the triggers of a row, in order: [row, trigger]
    FlattenSeq([i \in DOMAIN Inputs |->
        IF \E cell \in CellsOf(r, i) : Fires(cell) THEN <<[row |-> r, trigger |-> i]>>
        ELSE <<>>])
Firing == FlattenSeq([r \in DOMAIN file.rows |-> FiringOf(r)])

(***************************************************************************)
(* The column of the times: the one that is asked for, or the first that   *)
(* has the name.  The time that is meant: the decimals are tenths,         *)
(* hundredths...                                                           *)
(***************************************************************************)
TimeCells ==
    IF config.timer # "RealTime" /\ config.column # <<>> THEN {config.column[1]}
    ELSE Columns(TimeNames)
HasTime(r) ==
    \E c \in TimeCells :
        /\ c \in DOMAIN file.rows[r]
        /\ file.rows[r][c].k = "Time"
        /\ ~file.rows[r][c].point \/ ~file.rows[r][c].more
Share(fraction) ==
    LET upTo[i \in 0..Digits] ==
            IF i = 0 THEN 0 ELSE upTo[i - 1] + Decimal(fraction, i) * Tens[Digits - i]
    IN  upTo[Digits]
MeantTime(r) ==
    LET cell == file.rows[r][CHOOSE c \in TimeCells : TRUE]
    IN  IF ~cell.point THEN cell.whole ELSE cell.whole * Second + Share(cell.fraction)

StartOf == IF HasTime(1) THEN MeantTime(1) ELSE 0
Since(r) == IF config.timer = "Delayed" THEN r * config.delay[1] ELSE MeantTime(r) - StartOf

MeantInfo(r) ==
    CASE config.time = "Hide" -> <<>>
      [] config.time = "Relative" -> <<Since(r)>>
      [] config.time = "Absolute" -> <<StartOf + Since(r)>>
Reports(l, firing) ==
    /\ l.trigger = firing.trigger
    /\ ByTheClock \/ l.time = MeantInfo(firing.row)

TriggerLines ==
    FlattenSeq([n \in DOMAIN screen |->
        IF screen[n].k = "trigger" THEN <<screen[n]>> ELSE <<>>])

(***************************************************************************)
(* The triggers on the screen are those of the rows, in the order of the   *)
(* rows, with the time the row has in the file; at the end none misses.    *)
(* Nothing that is printed is ever erased by a report of progress.         *)
(* evaluator.rs, eval_stream; io_handler.rs, trigger and time_info;        *)
(* csv_input.rs, get_event and read_time.                                  *)
(***************************************************************************)
TriggersReported ==
    (config # <<>> /\ outcome \in {"", "done"}) =>
        LET seen == TriggerLines
            report == config.verbosity \in {"Triggers", "Outputs", "Debug"}
        IN  IF ~report THEN seen = <<>>
            ELSE /\ Len(seen) <= Len(Firing)
                 /\ \A i \in DOMAIN seen : Reports(seen[i], Firing[i])
                 /\ outcome = "done" => Len(seen) = Len(Firing)
                 /\ \A n \in DOMAIN screen : screen[n].k \notin {"events", "triggers"}

(***************************************************************************)
(* Once done is set the screen has the numbers of the whole file, and no   *)
(* more: the progress thread neither repeats nor erases them               *)
(* (Statistics::terminate against the loop of start_print_progress).       *)
(***************************************************************************)
FinalReport ==
    done => screen = <<[k |-> "events", n |-> Len(file.rows)],
                       [k |-> "triggers", n |-> Len(Firing)]>>

(***************************************************************************)
(* The process only exits early or panics for arguments or a file that are *)
(* at fault: a column that is missing, a cell or a time that cannot be     *)
(* read, times that decrease, and offline a file without rows              *)
(* (csv_input.rs, get_time; controller.rs, time_rx.recv).                  *)
(***************************************************************************)
Decreasing == \E r \in DOMAIN file.rows : r > 1 /\ MeantTime(r) < MeantTime(r - 1)
AtFault ==
    \/ Unreadable(line)
    \/ \E i \in DOMAIN Inputs : \A c \in DOMAIN file.header : file.header[c] # Inputs[i]
    \/ \E r \in DOMAIN file.rows : Len(file.rows[r]) # Len(file.header)
    \/ \E r \in DOMAIN file.rows : \E i \in DOMAIN Inputs :
           \E cell \in CellsOf(r, i) : cell.k \notin {"None", "Bool"}
    \/ ~line.online /\ file.rows = <<>>
    \/ ~line.online /\ TimeCells # {} /\ ~HasTime(1)
    \/ config.timer = "FromFile" /\ \E r \in DOMAIN file.rows : ~HasTime(r)
    \/ config.timer = "FromFile" /\ Decreasing
StopsOnlyOnBadInput == outcome \in {"exit", "panic"} => AtFault
=============================================================================

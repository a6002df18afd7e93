# RTLola in TLA+

TLA+ models of RTLola, a stream-based runtime monitor: what the interpreter
does with events and time, and what the frontend makes of a specification before
that. TLC checks the models on small instances, TLAPS proves the central
results for every value of the constants. `PROJECT.json` lists the components,
runs, mutants, findings, hazards and theorems, and maps every definition that
models code to the lines it stands for. Paths below are relative to the
repository.

    tlc -config MCOfflineController.cfg MCOfflineController     # a run
    tlapm OfflineController_proofs.tla                          # the proofs


## 1. The system

A specification in the Lola language declares input streams, output streams
and triggers. The **frontend** (`frontend/`) parses, names, types and analyses
it and lowers it to the intermediate representation `RTLolaIR`. The
**interpreter** (`interpreter/`) evaluates the IR over the events of an input
file or interface, offline with the time stamps of the events, online with the
system clock, or as a library behind the API `Monitor`. **input-analyzer** is a
separate tool that computes statistics of traces.

### Inventory

| component | state | operations | hard behaviour | what makes it correct |
|---|---|---|---|---|
| Controller, offline (`coordination/controller.rs`) | next deadline, position in the schedule, time of the latest event | receive the start time, set up the schedule, receive a batch, evaluate deadlines and events, join the reader | second thread, two channels, panics and `process::exit` on either side; ties between deadlines and events; the end of the input | cycles in the order of their times, none lost or repeated, complete at the end, no thread waits for ever |
| EventDrivenManager (EDM, `event_driven_manager.rs`) | local queue, cycle counter | read, hand over a batch, end | full channel, dropped receiver, failing source | batches in order; bounded read-ahead |
| Controller, online; TimeDrivenManager (TDM, `time_driven_manager.rs`) | due time, position; unbounded channel | send the streams at time 0, sleep, send, evaluate, end | three threads and the clock; late threads; dying threads | never early, never lost, lateness does not add up |
| Monitor (`monitor.rs`) | current time, evaluator | `accept_event`, `accept_time` | the loop over the deadlines starts at time 0 in every call | which deadlines a call evaluates, sees and returns |
| Schedule (`frontend/src/ir/schedule.rs`) | grid cells, deadlines | gcd and lcm of the periods, fill, repeat, condense, sort | rational arithmetic, cutting to whole nanoseconds, internal assertions | each stream due once per period, in the order of the layers |
| Sliding windows (`storage/window.rs`) | ring of 64 buckets, index of the latest bucket | update, accept a value, get the value | lazy moving, float division, wrap-around of the index | each bucket holds the values of its stretch of time |
| Aggregations (`storage/window_aggregations.rs`) | intermediate values | convert, add, neutral element, result | mixed value types, empty buckets, time order of the integral | folding the buckets gives the aggregation of the values |
| Evaluator (`evaluator.rs`) | fresh streams, trigger states, stores, windows | event cycle, timed cycle | order of layers, offsets, freshness | a cycle sees the values the semantics gives it |
| Expressions (`closuregen.rs`, `evaluator.rs`, `storage/value.rs`) | none | compile, evaluate, convert | two engines; overflow; conversions | both engines agree; a value has its type |
| Instance stores (`storage/stores.rs`) | bounded deque per stream | push, get at an offset | a bound that is too small | a bounded buffer answers like the whole history |
| CSV source (`basics/csv_input.rs`) | open record, columns, timer | header, read_event, get_time | column order, time formats, malformed records | times and values of the columns |
| Output, statistics (`basics/io_handler.rs`) | counters, `done` | emit, count, print progress, terminate | progress thread | what is printed is complete and not erased |
| Configuration (`interpreter/src/lib.rs`, `config.rs`) | `EvalConfig` | read the arguments | combinations of options | the source, times and verbosity asked for |
| Front-end driver (`frontend/src/lib.rs`, `analysis.rs`) | results of the phases | parse, verify, name, type, graph, lower | phases that rely on checks of earlier ones | an accepted specification can be lowered and evaluated |
| Parser, AST (`parse.rs`, `ast.rs`, `ast/`) | the tree | build, verify, print | precedence with prefixes, methods, offsets | what is printed reads back |
| Naming (`analysis/naming.rs`) | scopes, table | declare, resolve, report | nested scopes, parameters, `self`, imports | a name is bound to its declaration |
| Type checker (`ty/check.rs`, `unifier.rs`, `ty.rs`) | unification tables | infer, unify, check | bounded variables, order of declaration, normalisation | no stream is active without what it reads; no operation gets a value of another kind |
| Dependency graph, evaluation order, memory bounds (`analysis/graph_based_analysis/`) | graph | build, find cycles, order, bound | missed cycles, orders that do not terminate | no zero-weight cycle, layers respect reads, enough memory |
| Lowering (`ir/lowering.rs`, `ir.rs`) | the IR | translate | conversions, offsets, windows in triggers | the IR means what the specification means |
| PCAP source, reporting, tools | | | | not modelled, section 6 |

### Interaction

The EDM owns the event source. Offline it sends `Vec<WorkItem>` through a
bounded channel (`CAP_WORK_QUEUE`) and the time of the first event through a
channel of capacity 1; the controller owns the evaluator and interleaves
deadlines itself. Online EDM and TDM send single work items through one
unbounded channel to the main thread, which owns the evaluator. The evaluator
updates the sliding windows at the start of each cycle and adds the values of
the streams it evaluates to the windows over them; it asserts that cycles have
non-decreasing times. Controller, TDM and Monitor read the schedule the
frontend computes, as a cycle of deadlines.

Within the frontend there are no threads; its parts interact through what each
leaves to the next. The lowering unwraps what the checker inferred, the
evaluator unwraps what the layers and the activation conditions promise, and
the layering loop ends only if the cycle check has found every cycle. The output
handler is shared by the main thread, which counts and prints, and the progress
thread, which erases and prints every 100 ms.


## 2. Modules

| module | models | composition |
|---|---|---|
| `Deadlines` | the schedule as a cycle of pauses (`get_deadline_cycle`), which may be zero, and what it means: the time of the j-th deadline | used by the four modules below |
| `EvaluationTimeline` | **abstract specification** of an offline run: one sequence of cycles in the order of their times | extends `Deadlines` |
| `OfflineController` | `evaluate_offline` and `start_offline`, both channels, every panic and exit | extends `Deadlines`, instantiates `EvaluationTimeline` |
| `OnlineController` | `evaluate_online`, `start_online` of TDM and EDM, the clock | extends `Deadlines` |
| `Monitor` | `accept_event`, `accept_time` | extends `Deadlines` |
| `Schedule` | `Schedule::from`, stage by stage | |
| `LolaSpec` | what the interpreter needs to know of a specification, the check of its accesses and cycles, memory bounds and links of windows | used by the four modules below |
| `StreamSemantics` | **abstract specification** of an evaluation: a log of cycles, and what each access means over the whole history | extends `LolaSpec` |
| `EvaluationOrder` | the compute graph and the layering loop | extends `LolaSpec` |
| `InstanceStore` | the bounded buffer of a stream | |
| `Evaluator` | event cycles and timed cycles, output by output: freshness, activation conditions, lookups, stores, windows | extends `EvaluationOrder`, `InstanceStore`; instantiates `StreamSemantics` |
| `SlidingWindow` | the ring of buckets, generic in the aggregation | |
| `WindowAggregations` | conversion, addition, neutral elements and results | extends `SlidingWindow`: each bucket of its ring has an intermediate value |
| `Ast` | syntax trees, literals, durations, traversal (`ast.rs`, `ast/conversion.rs`) | used by all modules of the frontend |
| `Parser` | from the pairs of the grammar to the tree, and printing | extends `Ast` |
| `Naming` | verification, scopes, binding of names, imports | extends `Ast` |
| `PacingTypes` | activation conditions and frequencies: annotation, inference, normalisation, check | extends `Ast` |
| `ValueTypes` | types, constraints, the unifier, signatures, inference rules | extends `Ast` |
| `Dependencies` | the graph, its cycles, layers, future dependencies, required inputs, buffers, worst-case memory | extends `Ast` |
| `Lowering` | streams, expressions, conversions, windows, triggers of the IR | extends `Dependencies`, `ValueTypes` |
| `Expressions` | values and both engines | extends `Ast` |
| `Frontend` | all phases in their order, one declaration at a time, then the values of the expressions | extends or reaches the eight above |
| `Session` | one run from the arguments and a CSV file to the terminal | |
| `*_proofs` | theorems about the module they are named after | |
| `MC*` | the constants of the small instances | |

Definitions marked *wrong variant* in the modules are used by no
specification. Each is a plausible mistake in the definition it stands next to
(a dropped guard, a swapped order); `PROJECT.json` pairs it with the property
that fails if it takes that definition's place.

### Correspondence

**OfflineController.** A work item is its position in the input; the values of
events do not matter to coordination. `edm` and `ctl` are the program counters
of the two threads. One step of the EDM is one round of the inner loop of
`start_offline` (`ReadEvent`, `ReadEnd`) or one `send` (`SendLocalQueue`, which
blocks while the channel is full and fails at once without a receiver). One step
of the controller is one receive, one deadline or one event; both conditions
under which a deadline goes first, the one before an event and the one at the
end of the input, are `DeadlineFirst`. A panicking thread drops what it owns, so
that the other one sees a closed channel: `ReceiverAlive`, `SenderAlive`,
`timeSlot = "closed"`. `process::exit` in the source stops everything. `events`
and `deadlines` are history. `ScheduleTimed` ends in a panic where the pause to
the next deadline is zero, as `controller.rs:199` asserts: the frontend cuts
pauses to whole nanoseconds (`schedule.rs:150`), so a schedule may have one.

**OnlineController.** `clock` is the time since the start and passes
independently of the threads (`Tick`). `CheckClock` advances the due time by the
next pause and computes the sleep; `SendDeadline` sends when the sleep is over.
The evaluator uses the time at which it evaluates, which `last.at` records.

**Monitor.** A call cannot be interrupted (`&mut self`); it is cut into the
iterations of its loop. `timed` is the vector the call returns, `evaluated`
remembers for every evaluation how many events had gone before. `NextPause` is
the pause of the next deadline, which is asserted not to be zero.

**Schedule.** Each stage of `Schedule::from` is an action; `Rational64` is a
reduced pair of integers without a bound on their size. `TimeOf` is the time of a
deadline as the consumers of the schedule read it, the pause of a deadline lying
before it; `DocumentedTime` is that of the comments, the pause lying behind it.

**LolaSpec.** A specification is a record of pacings and accesses. The
accesses are those the interpreter implements: `x`, `x.hold()`, `x.get()`,
`x.offset(by: -k)`, `x.aggregate(...)`. `CheckAccess` is
`check_output_clock_expression` one access at a time. An edge of the dependency
graph is an access; an elementary cycle is a minimal set of edges whose sources
are its targets. The search of the code, depth-first from the first node of each
strongly connected component and with an extra loop for self-loops, is
`FoundPaths`.

**EvaluationOrder.** `remaining` is the compute graph that is left;
`PruneLayer` is one iteration of the loop in `get_compute_order`, and `layer`
the table lowering makes of it (`order_to_table` keeps the last layer of a
stream's four steps). The graphs of event-driven and periodic streams share no
edge and are treated in the same rounds.

**Evaluator.** A value is the number of the cycle that produced it, so that
reading too early, too late or from the wrong place in the buffer is visible. A
step evaluates one output; which output of the current layer comes first is
left open. `FinishCycle` ends a cycle and records it in `log`, which is
history. Time is left out but for the order of the timed cycles, so that event
cycles and timed cycles interleave in every way. A window is the set of values
it was handed: when they leave it is the subject of `SlidingWindow`. The closure
evaluator and the interpreting one make the same lookups.

**SlidingWindow.** A bucket is the sequence of positions of the values added to
it. `OverallIx` is the floor of an `f64` quotient, which may reach a whole number
some ticks after the exact quotient does, or before: `Slips` says where and by
how much, in either direction. No slip exceeds `Precision`, which is at most a
bucket: the error of the quotient is below 2^-50 of the time.

**Frontend.** `at` is the phase and the declaration that is next, `outcome` how
it ends: `"rejected"` with errors reported, `"exit"` by the parser, `"panic"` is an `unwrap`, `expect` or
`unreachable!` of the code, `"hangs"` is the layering loop when no node without
dependencies is left. Everything a phase reads from another one is a variable:
the tree, the table of names, the unification, the clocks, the results of the
graph. A node is identified by its path in the tree instead of a number. The
unification table gives every variable its class and every class its type or
bound. The phase `graph` computes graph, cycles, layers and buffers in one step, as `analyze` does.
`value` is the result of an expression in both engines, for an environment
chosen from few values per type.

**Dependencies, LolaSpec, EvaluationOrder.** Both model the cycle check and the
layers. `LolaSpec` and `EvaluationOrder` abstract a specification to pacings and
accesses, so that all of them can be enumerated, run through the evaluator and
proved about; `Dependencies` starts from the tree and has every kind of
expression, annotation, offset and edge.

**Expressions.** A panic is a value with a reason: `"kind"` for the catch-all
arms of `value.rs`, which types should exclude, `"arithmetic"` for an overflow or
a division by zero. Integers have `Bits[64]` bits and panic on overflow, as
debug builds do. Floats are rationals; what `sqrt`, `sin` or an infinite float
leads to is one value.

**Session.** `todo` is what the main thread still does for the item it received,
so that the progress thread comes between any two lines; `lock` is the mutex
around `done`. Clearing two lines is dropping the last two of `screen`. The
channel is a queue without batches: `OfflineController` shows what those do, and
that a panicking reader may lose any part of what it has not sent (`PanicOnRow`).

**WindowAggregations.** The buckets of the code are `ivs`: one intermediate value
each. The positions that `SlidingWindow` keeps in its buckets are history here,
as is `values`: they say what the intermediate values should stand for, and
nothing the code does depends on them. `WindowNext` is one call of `update` or of
`accept_value`, each with the step of the ring and that of the intermediate
values (`Renewed` is `invalidate_n`); `WindowValue` is `get_value`. Time is
counted in ticks, `Second` of them are a second. `Horizon` and `MaxNumbers`
bound time and number of values for the windows that look at their values; only
a count goes up to `MaxTime` and `MaxValues`.

**Parser.** A pair has a parameter list or none. The code looks at the first
parameter of a list also where parameters are not allowed, so an empty list is a
panic there (`ParsePanics`).


## 3. What is checked

Deadlock is checked in every run but those of `Monitor`, `Schedule`,
`Evaluator` and `Frontend`, where the model really stops: after the last call,
after the last stage, after the last cycle, and after the last expression or an
error.

| run | question | bounds |
|---|---|---|
| `offline` | does every interleaving of the threads, whichever side fails, implement `EvaluationTimeline`, end, and complete? is reading ahead bounded? is every panic one with a cause? | all inputs of up to 4 events with times from {0,2,3,5,7}, decreasing ones included, and two of 8 events; periods 2 and 5.5, so that one pause is cut to zero; batches of 2, channel of 1; the source panics or exits at any event; the schedule is refused |
| `online` | are deadlines in order, never early, eventually evaluated, also when the source or the TDM dies? | clock up to 7, beyond one hyper-period; two events |
| `monitor` | what do up to three calls evaluate and return? | times up to 9, more than one hyper-period, in any order |
| `monitor_not_seen` | *violation* of the comment on `accept_event` | the same |
| `schedule` | is each stream due once per period, and do the pauses fill the hyper-period? | three streams with any of nine periods, 10/3 and 5/2 among them |
| `schedule_comment` | *violation* of the comments on `Deadline` and on the deadlines of a schedule | the same |
| `evaluator` | does every accepted specification get its layers, and read what it means? | two inputs, two outputs, a trigger; 14 hand-picked specifications and all 1200 combinations of some pacings and expressions, of which 148 are accepted; 4 cycles of any kind |
| `trigger_window` | *violation*: a trigger whose window stays empty | one specification |
| `window` | does the ring hold the right values? is the value of a window the aggregation of the values accepted in the time of its buckets, and does no addition meet its assertion? | 3 buckets over 10 ticks; the quotient is a tick late at 6 and 21 and a tick early at 12; the window waits. A count: clock up to 24, 4 values. The other combinations of operation and type: clock up to 12, 3 values of {-3, 2} |
| `integral_area` | *violation* in the integral | one window of the same size that does not wait, clock up to 9, 2 values |
| `frontend` | see below | eleven families of small specifications, 2591 in all, of up to seven declarations; i64 and u64 of 6 bits, i16 offsets from -16 |
| `session` | see below | 16 files of up to 3 rows, 11 of which are at fault, rows of uneven length among them; 32 command lines; seconds of 100 ns; the clock ticks once |

The properties of `frontend`:

 - `RoundTrip`: what the printer writes for an expression is parsed to the same
   expression, whatever the precedence climber and the moving of prefix
   operators do. (Fractional offsets in real time are excepted.)
 - `NamesResolve`: every name of an accepted specification is bound as its text
   says, where the reference looks a name up in the whole specification and
   `naming.rs` in nested scopes that change from declaration to declaration.
 - `ActivationSound`: the activation condition the evaluator gets holds for the
   same sets of inputs as the annotations and the inference mean, and whatever a
   stream reads synchronously is active, or due, with it.
 - `ReadsAreBelow`: everything read in the same cycle is in a lower layer.
 - `LayeringEnds`: the layering loop ends for what the cycle check accepts.
 - `OffsetsFit`: every discrete offset finds its value in the buffer.
 - `TypesSound`: no operation meets a value of another kind, and a stream gets
   values of its type.
 - `EnginesAgree`: closures and interpreter compute the same value, panics
   included.

Where the code falls short of one of these, the property excepts exactly that
case, and its comment and section 4 say which. The properties of `session`:
`TriggersReported` (each trigger of each row once, in order, with the time
written in the file), `FinalReport` (once `done` is set the screen shows the
numbers of the whole file, and stays so), `StopsOnlyOnBadInput`.

Why the bounds are enough. A tie, a gap without deadlines, a deadline between
two events and two deadlines between two events all occur with the times 0 to 7
and the deadlines 0, 2, 4, 5, 5, 7, the second 5 behind a pause of zero; a batch that is full, partly filled, empty
but for `End`, and a full channel all occur with up to four events in batches of
two; eight events fill the channel and a batch on each side of it. What happens after
a hyper-period repeats: online and with the Monitor the clock passes one of 6.
Offline no run gets past a pause of zero, so that a schedule with one ends in its
first round; that later rounds go on as the first is proved. Three buckets are the
least for which first, middle and last bucket differ, and 24 ticks are more than
two rounds of them, so that the index wraps twice; 10 is no multiple of 3. Two outputs that
may read each other, a trigger that reads both and four cycles are the least for
which a stream can skip a cycle, fill a buffer of three values and be read with
an offset afterwards; three outputs that read each other are in `frontend`. Its families vary what a
phase decides by: two operators of different levels below a prefix, all pairs of
types below an operator, every function with arguments of five types, every
annotation against every read in both orders of declaration, self, mutual and
nested cycles of positive, negative and zero weight. A type of 3 bits, one of 6
and literals on both sides of their bounds are enough for the conversions and
overflows, which compare widths and never use their size. In `session` the times
of the files have none, one, two and three decimals against the two that a
second has, in ascending and descending order, and the progress thread may wake
between any two steps. What these
bounds could miss in the two controllers, the Monitor, the schedule, the
evaluator, the windows, the aggregations and a session is covered, but for
liveness, by the proofs of section 5, which have no bounds. The frontend has its
bounds only.

**Fairness.** Offline, weak fairness of each of the two threads: both are
ordinary operating-system threads, and the operations they block on (`send`,
`recv`, `join`) wake them when they can go on. `Terminates` needs no more. The
faults need no fairness: they may happen, they need not. Online, weak fairness
of time, the TDM and the main thread; the EDM has none, since a source may keep
it waiting for the next event for ever. No strong fairness is used.


## 4. Findings

Four runs end in a violation, each of a sentence of the repository.

| run | what the code does |
|---|---|
| `monitor_not_seen` | Each call starts again at time 0, so the second call evaluates the deadlines before the first event again, which now see it (`monitor.rs:54`, `:77`). |
| `schedule_comment` | `condense_deadlines` stores the pause before a deadline, and the first deadline lies one pause after the start; the comments say the opposite of both (`schedule.rs:15`, `:47`, `:150`). The consumers of the schedule follow the code, and so does `TimeOf` in `DueOncePerPeriod`. |
| `trigger_window` | `link_windows` runs before the triggers are lowered, so a window in a trigger is never handed a value (`lowering.rs:82`, `:86`). |
| `integral_area` | The nanoseconds beyond whole seconds are divided by 10^8 instead of 10^9 (`window_aggregations.rs:206`). |

Observations without a run of their own. *(excepted)* marks those that a
property names as an exception, so that TLC would report them without it.

Coordination, schedule, windows:

 - An empty input makes the EDM drop the sender of the start time, and the
   controller reaches `unreachable!` (`controller.rs:118`; excepted in
   `PanicsOnlyForCause` and `StopsOnlyOnBadInput`).
 - `accept_time` loops while `ts > next_deadline`, so a deadline exactly at `ts`
   is left to a later call; the documentation says "up through the new
   timestamp" (`monitor.rs:52`, `:73`). `ReturnsTheDeadlines` admits both
   readings, and both a loop that starts at time 0 and one that goes on where the
   call before ended.
 - Deadlines less than a nanosecond apart get a pause of zero (`schedule.rs:150`),
   which controller and Monitor assert away in the middle of a run
   (`controller.rs:199`, `monitor.rs:95`): with streams at 2 MHz and 2.001 MHz the
   run ends in a panic. `PanicsOnlyForCause` names it as a cause (`MetZeroPause`).
 - `Update::timed` of the Monitor never contains a value, since the evaluator
   clears its fresh streams before they are looked up (`FreshAfterDeadline`).
 - Online, a schedule that is refused kills only the TDM thread, so that the run
   goes on without its periodic streams (`online`).
 - Pauses are cut to whole nanoseconds: those of a 3 Hz stream do not fill the
   hyper-period, and its deadlines drift (`schedule.rs:151`). The property
   `PausesFillHyperPeriod` is restricted to grids of whole nanoseconds.

Naming and types:

 - With parameters disabled, as in the interpreter, an empty parameter list
   indexes the first element of an empty vector (`parse.rs:150`, `:195`;
   `ParsePanics`).
 - A parameter named like a stream is neither declared nor reported, so that its
   uses are bound to the stream (`naming.rs:131`; `Meaning` in `NamesResolve`).
 - Activation conditions: an output mentioned a second time on the way to the
   inputs is left as it is and lowered to `True` (`check.rs:1513`), as are streams
   that only read constants; a `True` inside a conjunction reaches the
   `unreachable!` of `evaluator.rs:676` (excepted in `ActivationSound`).
 - An output without annotation that reads event-driven and periodic streams
   reaches `unreachable!` (`check.rs:478`); so do several accesses to constants
   with `hold`, `get` or an offset (`check.rs:537`, `dependency_graph.rs:285`).
   The model ends in `"panic"`.
 - Accepted and without an operation at run time: unary minus and `abs` on
   unsigned integers, comparisons of Bool and Bytes (`Undefined`, excepted in
   `TypesSound`), `at` and `matches` on Bytes in the interpreting engine
   (`NotInterpreted`, excepted in `EnginesAgree`).
 - A sum or product over a Bool window makes the inference panic.

Graph and lowering:

 - The search for cycles starts only at the first node of each strongly connected
   component. With `x := a + y[-1]`, `y := x + t`, `t := y` it misses the cycle of
   `y` and `t`, and `get_compute_order` adds empty layers for ever
   (`dependency_graph.rs:81`). The same happens for a cycle through an annotation
   with a negative offset. Both are excepted in `LayeringEnds`.
 - Of a projection `(a, y).0` the graph follows only the chosen element, the
   evaluation computes all of them: `y` may be read before it is evaluated, which
   the `debug_assert` on freshness rules out (`dependency_graph.rs:317`; excepted
   in `ReadsAreBelow`).
 - Buffers have no room for offsets in real time (excepted in `OffsetsFit`).
 - `x.offset(by: 0)` is refused by the verification; a positive offset passes it
   and is lowered to an offset into the future, which both engines answer with
   `unimplemented!()` (`lowering.rs:703`, `closuregen.rs:119`).
 - A cycle check on a component with positive and negative cycles ends in
   `unimplemented!()` (`dependency_graph.rs:533`).

Input and output:

 - A time without a point is a number of nanoseconds, one with a point a number of
   seconds: `1` lies before `0.5` (`csv_input.rs:270`; `MeantTime` follows).
 - Online, a run ends without the final report (`EndSteps`).
 - `cfg!(debug_assertion)` lacks an s and is never set (`csv_input.rs:140`).
 - A time column behind the last one makes the reader panic (`ReadTime`).


## 5. What is proved

The constants are constrained only by the named assumptions of the modules.

**SlidingWindow_proofs** (for every number of buckets, every duration of at
least that many nanoseconds, all slips of the quotient up to a bucket in either
direction): `TypeCorrect`,
`NeverPanics`, `ContentsCorrect`, `NeverStale`, `NeverShort`. The inductive
invariant `IInv` adds `Tracks`: the remembered index is that of the latest call
and nothing was accepted in the future. `BucketsSinceCounts` reduces
`buckets_since` on pairs of period and index to a difference of overall
indices, and `OverallIxMonotone` shows that slips do not break monotonicity; both
are needed because the code compares pairs of indices and not times.
`ReachesNear` bounds where a bucket begins, from which `NeverStale` and
`NeverShort` get their margin of two slips. `ShiftedContents` is the heart: dropping n buckets moves the
contents of all others by n.

`AlwaysFoldsASuffix` is about the order of the values over all buckets, not the
contents of each. Its invariant `Consecutive` says that there is a cut:
positions in the history of accepted values that do not increase from one bucket
to the next older one, the first at the end of the history, so that each bucket
holds the stretch between two of them. Dropping buckets shifts the cut
(`ShiftedCut`), an accepted value lengthens the newest stretch, and flattening
consecutive stretches gives the stretch from the oldest position to the end.

Its second half is about `WindowAggregations`, under the further assumptions of
that module: windows the type inference lets pass, any set of integers, a
second of at least one tick. `AlwaysAggregates` is what makes the ring of
buckets legitimate at all: for each of the eight operations, what `get_value`
adds up is the aggregation of all values accepted in the time of the buckets,
whatever went to which bucket.
 - `Holds` says of each operation what an intermediate value tells about the
   values it stands for: their number, sum, smallest, the area below their graph
   with its first and last point, or nothing at all.
 - `DefaultHolds`, `SingleHolds` and `AddHolds` are the three facts a fold needs:
   a neutral element stands for no value, a converted value for itself, and an
   addition for the values of its left operand followed by those of its right.
   The last is easy for a count and hard for the integral (`VolumeConcat`: the
   area of two pieces and of the gap between them) and the minimum
   (`ExtremeJoined`). `ResultIs` reads the expected result off `Holds`.
 - Every step is one of `SlidingWindow` (`AggregatingIsSliding`), so its invariant
   holds, the cuts included. To it come `Logged` (the times of what was accepted
   ascend) and `EachHolds` (each intermediate value stands for the values at the
   positions of its bucket).
 - From these, `FoldHolds`: the fold over the k oldest buckets stands for the
   values between two cuts, and over all buckets for those after the oldest one;
   `RetainedAre`: these are exactly the values accepted in the time of the buckets,
   which the property selects by their times and not by the ring.
 - The integral asserts that times do not decrease. A value is no older than what
   the front bucket stands for, and older buckets stand for older values
   (`MonotoneIfOlder`, `FoldsAreMonotone`).

**Schedule_proofs** (for every number of streams, all rational periods, every
bound on the number of cells and all layers): `AssertionsHold`,
`AlwaysDueOncePerPeriod`, `AlwaysPausesFillHyperPeriod`.
 - The arithmetic comes first. `RationalGcdDivides` and `RationalLcmIsMultiple`
   are those of two fractions; by induction along the recursive functions the
   grid divides all periods (`ExtendPeriodDivides`) and the hyper-period is a
   multiple of all (`HyperPeriodIsMultiple`). So all quotients the code asserts to
   be integers are (`GridIsWhole`), and the number of cells is the cell of a
   stream times the number of its periods.
 - `IInv` says what each stage has reached: each stream in the cell of its first
   period (`HoldFirst`), then in all multiples of it (`HoldAll`), then a deadline
   for each filled cell with its streams and its pause (`DeadlinesFollow`), then
   their order by layers (`DueSorted`).
 - The last cell is filled because every stream divides it
   (`LastCellIsFilled`), which is what the last assertion of the code needs.
 - `DeadlinesAtCells` adds up the pauses: each truncation loses less than one
   nanosecond, and nothing if the grid is whole. `MultiplesInOrder` then finds
   the k-th deadline of a stream at k times its first cell.

Flattening sequences and the recursive functions are induction over data. Where
the proofs above need it, it is done by hand on sets of numbers: `LeastNumber`
rests on the well-foundedness of the natural numbers, `Induction` says that a set
with 1 and every successor holds all numbers up to a bound, and `Recursion` that
a function defined from its value one before exists. `SlidingWindow_proofs` and
`Session_proofs` have the same for 0 up to a bound, and with it `SeqInduction`,
that a set with the empty sequence and every extension of its members has all
sequences.

**Deadlines_proofs**: `CycleFollowsSchedule`, that adding up the pauses around
the cycle, as controller, TDM and Monitor do, yields the time and the position
of the j-th deadline, and `DeadlinesOrdered`, that deadlines do not go back in time,
across hyper-periods too. The rest is division with remainder. The assumption
`DeadlinesAssumption` is that the due times of a hyper-period do not decrease: the
pauses are whole numbers and some may be zero, as those of the frontend.

**OfflineController_proofs** (for every set of inputs, every schedule and every
capacity): `TypeCorrect`, `NoUnexpectedPanic`, `DoneMeansComplete`,
`ReadAheadBounded` and `Implementation`, that the two threads implement
`EvaluationTimeline`. `NoUnexpectedPanic` lists the causes: an empty input, times that
decrease, a source or a schedule that fails, or a pause of zero once the controller
has come to it. None of the properties is inductive: nothing in them says
that the items still to come are the right ones. `IInv` adds
 - `InOrder`: batch, channel and local queue, read in this order, number the
   items from the one after the last evaluated, and all queues in the channel
   but the last are full;
 - `Accounted`: how many items are under way equals how far the EDM has read;
 - `Clock`: `nextDeadline` and `due` are those of the next deadline, nothing
   evaluated lies behind it, and no event evaluated lies behind the next one;
 - `Started`, `Phases`: what the start channel and the program counters tell
   about the rest.

One lemma per action shows that it preserves `IInv`. For `Implementation` the
refinement mapping is the identity on `input`, `events`, `deadlines`, `last`,
and `finished` is `ctl = "done"`, or past the last item; only `ScheduleTimed`,
`HandleEvent` and `HandleEnd` map to steps, one lemma each, and every other
action is a stutter (`QuietStep`).

**Evaluator_proofs** (for every set of streams, every set of specifications and
every bound): `LayersRespectReads` and `SynchronousReadsAreFresh`. They tie
three parts of the program together: the type checker accepts an access, the
lowering orders the streams, and the evaluator relies on both when it unwraps a
value that must be there. `IInv` has two parts.
 - `LayerInv`: the loop places all `invoke` steps first, all `extend` and
   `terminate` steps second, and evaluations from then on; a stream it has
   placed lies above everything it reads with weight 0, which is placed too.
   `LaterFront` says why: a node in the front has no neighbour left.
 - `CycleInv`: cycles start only once everything is ordered; in a cycle, each
   stream that is active and no longer to do is fresh.

The step from there to freshness (`InvariantFresh`) is what the pacing check of
the front end is for: `CompatibleEvent` uses `ImpliesValidSound`, that
`implies_valid` on two activation conditions really means implication for every
set of fresh inputs; `CompatibleTimed` uses `DividesTransitive`, that a stream
is due whenever one with a multiple of its period is. The assumptions are
`StreamAssumption` and `SpecificationAssumption`.

**OnlineController_proofs** (for every schedule, number of events and clock, and
every fault): `DeadlinesAlwaysInOrder`, `NothingIsEarly`, `ExitsWhenComplete`.
The channel has no bound and three threads share it, so `IInv` counts instead of
listing what is in it.
 - `DeadlineSide`: the deadlines evaluated and those in the channel are together
   as many as the TDM has sent; `due` and `dueTime` are position and time of the
   next one; the k-th in the channel has the streams of its number and its time
   has come.
 - `EventSide`: the same for the events, and `End` is in the channel only behind
   all of them, once.

`CountAppended` and `CountTail` say what an append and a receive do to the
number of items of a kind ahead of a position; with them each action touches one
side only. `NeverEarly` needs `DeadlinesOrdered`.

**Monitor_proofs** (for every schedule, any times, any number of calls):
`CallersPanicForCause` (calls that go back in time, or a pause of zero that the
loop has come to), `CallsReturnTheDeadlines`, `NoDeadlineIsLate`.
`IInv` adds that the latest cycle happened at the time of some call
(`CallsRecorded`), that the loop of a call is at the deadline whose number is the length of what it
will return (`LoopFollowsSchedule`), and that a deadline evaluated for the first
time is not late (`DeadlinesOnTime`). The last is not obvious because each call
starts again at time 0 and evaluates all deadlines once more: what counts is that
the first evaluation of each stays in the record.

**Evaluator_proofs**, the refinement: `BuffersHoldTheLatest`,
`WindowsGetEveryValue` and `EvaluatorImplements`, that the evaluator with its layers, bounded buffers, windows and fresh flags
implements `StreamSemantics`, in which an access is defined over the whole
history of cycles. Two more invariants are needed.
 - `HistoryInv` relates the state to `log`: in a cycle, the outputs that have read
   are the active ones no longer to do, and those with a value are the fresh ones;
   each buffer holds the newest values of its stream (`StoresHoldLatest`), newest
   first; each window has every value of its stream.
 - `SemanticsInv`: what the cycle under way has read is what the accesses mean
   (`ReadsInv`), and what it has still to do is what its kind of cycle asks for
   (`TickInv`).

The heart is `LookupMeans`, one case per kind of access. An offset counts from
the front of the buffer and skips the value of this cycle if the stream is fresh:
`KthIsIndex` shows that the k-th value of a buffer is the k-th largest cycle that
produced one, and `BoundIsAboveOffsets` that the buffer is long enough, which is
what the memory bounds of the frontend are for; `PushKeeps` shows that dropping
the oldest value loses nothing else. A synchronous access rests on
`InvariantFresh`. `FinishCycle` maps to the one step of
`StreamSemantics`, the other actions are stutters.

The last two theorems have the hypothesis `NoTriggerWindows`: no accepted
specification has a window in a trigger. The run `trigger_window` shows that the
code is wrong without it, and that one specification with such a window is enough;
`BuffersHoldTheLatest` does not need it. That the sets of expressions are finite,
which `IsSpecification` states, is needed for the largest offset to exist.

**Session_proofs** (for every header, every set of files and command lines,
every number of decimals of a second, every clock): `TriggersAlwaysReported`,
`FinalReportStays`, `OnlyBadInputStops`, `TypeCorrect`, and the lemma
`NanosAreShare`, that the decimals of a time, read one by one, are the fraction
of a second they stand for. The assumptions say what a file is: a header of
names and rows of cells, of any number and length (`FilesAssumption`), at least
one input (`InputsAssumption`), and command lines whose options are present or
not (`LinesAssumption`).

`TriggersReported` compares the screen with a sequence computed from the file,
`FinalReport` the counters with its rows. Between the two lie a reader that is
rows ahead, a channel, and a main thread that prints a row line by line while the
progress thread erases and prints. `IInv` connects them by one number: there is
an h such that the first h rows are those the main thread has received. Then
 - `QueueInv`: the channel holds the rows from h+1 to where the reader is, with
   the times of the file, and behind them the end if the reader has met it (a
   reader that panicked took the newest rows with it);
 - `ReportInv`: the triggers on the screen and those still to print are together
   those of the first h rows, in their order;
 - `CountsInv`: the counters, and what is still to be counted, are those of the
   first h rows;
 - `TodoInv`: what the main thread has still to do for its item is the rest of
   what that item asks for;
 - `ReaderInv`, `TimerInv`, `StartInv`: the reader's columns are those of the
   header, its timer has counted the rows, and the start time is the one of the
   first row or of the clock;
 - `ScreenInv`, `TurnInv`: where progress is shown, who holds the lock tells how
   many of the two lines are on the screen; once `done` is set, with nothing but
   leaving to do, they are the final ones;
 - `OrderInv`, `EarlyInv`, `FaultInv`, `LeftInv`: the times received so far
   do not decrease unless the file is at fault, which is why the assertion of
   the evaluator cannot fail; a thread that died did so because of a fault; the
   process leaves with nothing to do.

What a run prints is selected and flattened from sequences of rows and of
outputs. The sections before the invariant's steps prove what is needed of these
by induction over sequences: flattening distributes over concatenation, and what
is selected from a prefix is a prefix of what is selected.

### What is only model-checked

 - Liveness (`Terminates`, `DeadlinesEvaluated`, `EventsEvaluated`): out of the
   prover's reach.
 - `Frontend`: its expressions are trees, types are terms, and both need
   recursive operators, which take the SMT solver from every module that reaches
   them. The check of accesses, the order of the layers and the bounds of buffers
   are proved for `LolaSpec` and `EvaluationOrder`, which abstract from trees.
 - The four violations, which are counterexamples.


## 6. What is not modelled

 - The grammar (`lola.pest`) and its library: `Parser` starts from the pairs. Type
   declarations, which are parsed and then never looked up, and the `invoke` part
   of templates.
 - `lola_version.rs` and `id_assignment.rs`: `analysis.rs` does not compile them.
 - Evaluation of streams with parameters: the lowering does not support them, and
   the model ends in the same panic.
 - 64-bit overflow of rational numbers in the schedule, and of aggregations; the
   models use integers. Floating-point rounding, but for the buckets of windows.
   Overflow in release builds, where integers wrap.
 - Errors of a time's `f64` quotient beyond a bucket (`Precision`): windows of a few
   microseconds with absolute Unix times.
 - Windows shorter than 64 ns, whose buckets have length zero
   (`DurationAssumption`).
 - PCAP dissection, done by a library field by field. To the coordination it is
   an event source like the CSV one.
 - Reached by no run: the panic on an empty parameter list, since `frontend` allows
   parameters, and the one of the Monitor on a pause of zero, since the schedule
   of `monitor` has none. `CallersPanicForCause` covers the second.
 - Reporting (`reporting.rs`, `ir/print.rs`): formatting. The tools of the frontend
   and the input analyzer.
 - The file channel of the output handler, which no argument selects, and the
   spinner.


## 7. Plan

1. *Done*: coordination offline, online and through the API; schedule; windows
   and aggregations; proofs about the offline controller and the windows.
2. *Done*: specifications with the check of accesses and cycles, evaluation
   order, instance stores, and the evaluator against `StreamSemantics`; proofs
   about the layers and the freshness of synchronous accesses.
3. *Done*: the frontend from the parser to the IR, both engines, and a session
   from the command line to the terminal.
4. *Done*: proofs about the online controller and the Monitor, the refinement of
   `StreamSemantics` by the evaluator, the order of the values in the windows, and
   the whole schedule.
5. *Done*: proofs about a session and about the aggregations, both after their
   sequences were described by recursive functions instead of operators.
6. Left: the properties of `Frontend`. Bounded trees, as functions from paths to
   nodes, would make its recursions functions too.

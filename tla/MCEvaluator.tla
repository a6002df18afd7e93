----------------------------- MODULE MCEvaluator -----------------------------
(* Small instances of Evaluator: two inputs, two outputs x and y and a     *)
(* trigger t.                                                              *)
EXTENDS Evaluator, TLC

CONSTANTS a, b, x, y, t

Sync(s) == [to |-> s, kind |-> "sync", by |-> 0]
Hold(s) == [to |-> s, kind |-> "hold", by |-> 0]
Get(s) == [to |-> s, kind |-> "get", by |-> 0]
Offset(s, k) == [to |-> s, kind |-> "offset", by |-> k]
Window(s) == [to |-> s, kind |-> "window", by |-> 0]

Event(c) == [period |-> 0, ac |-> [conj |-> FALSE, clauses |-> c]]
Conjunction(c) == [period |-> 0, ac |-> [conj |-> TRUE, clauses |-> c]]
Every(n) == [period |-> n, ac |-> True]

OnA == Event({{a}})
OnBoth == Conjunction({{a}, {b}})
OnEither == Event({{a, b}})
Always == Event({})

Out(pacing, accesses) == [pacing |-> pacing, accesses |-> accesses]
Combine(ox, oy, ot) ==
    LET output == x :> ox @@ y :> oy @@ t :> ot
    IN  [period |-> [o \in {x, y, t} |-> output[o].pacing.period],
         ac     |-> [o \in {x, y, t} |-> output[o].pacing.ac],
         reads  |-> [o \in {x, y, t} |-> output[o].accesses]]

(* Event-driven outputs; the last three specifications are not accepted.   *)
EventSpecifications == {
    Combine(Out(OnA, {Sync(a), Offset(x, 1)}),
            Out(OnBoth, {Sync(x), Offset(a, 2)}),
            Out(OnBoth, {Sync(y), Hold(x)})),
    Combine(Out(OnEither, {Hold(a), Get(b)}),
            Out(OnA, {Hold(x), Offset(a, 1)}),
            Out(Always, {Get(y), Hold(x)})),
    Combine(Out(OnA, {Sync(a), Offset(y, 1)}),
            Out(OnA, {Sync(x)}),
            Out(OnEither, {Hold(y), Get(x)})),
    Combine(Out(OnBoth, {Offset(y, 2), Get(a)}),
            Out(OnBoth, {Offset(x, 1), Offset(x, 2)}),
            Out(OnA, {Hold(y)})),
    Combine(Out(Always, {}),
            Out(Always, {Sync(x), Offset(y, 1)}),
            Out(OnBoth, {Sync(a), Hold(y)})),
    Combine(Out(OnBoth, {Sync(a)}),
            Out(OnA, {Sync(x)}),
            Out(OnA, {Sync(y)})),
    Combine(Out(OnA, {Sync(a), Hold(y)}),
            Out(OnA, {Sync(x)}),
            Out(OnA, {Hold(x)})),
    Combine(Out(OnA, {Window(a)}),
            Out(OnA, {Sync(x)}),
            Out(OnA, {Hold(x)}))}

(* Periodic outputs, and both kinds; the last two are not accepted.        *)
PeriodicSpecifications == {
    Combine(Out(Every(1), {Window(a), Offset(x, 1)}),
            Out(OnA, {Hold(x)}),
            Out(Every(2), {Sync(x), Hold(y)})),
    Combine(Out(Every(1), {Hold(a)}),
            Out(Every(2), {Sync(x), Window(x), Offset(x, 1)}),
            Out(Every(2), {Get(x), Offset(y, 1)})),
    Combine(Out(Every(2), {Get(y), Hold(b)}),
            Out(Every(3), {Offset(y, 2), Hold(a)}),
            Out(Every(2), {Sync(x), Hold(y)})),
    Combine(Out(OnEither, {Hold(b)}),
            Out(Every(1), {Window(x), Window(b)}),
            Out(Every(1), {Sync(y)})),
    Combine(Out(Every(2), {Hold(a)}),
            Out(Every(1), {Sync(x)}),
            Out(Every(1), {Sync(y)})),
    Combine(Out(Every(1), {Window(y), Hold(a)}),
            Out(Every(1), {Offset(x, 1)}),
            Out(Every(1), {Sync(y)}))}

(* All combinations of some outputs; most are not accepted.                *)
Families ==
    {Combine(Out(px, rx), Out(py, ry), Out(pt, rt)) :
        px \in {OnA, OnEither, Always, Every(1)},
        py \in {OnA, OnBoth, Every(2)},
        pt \in {OnBoth, Every(2)},
        rx \in {{Sync(a), Offset(x, 1)}, {Hold(a), Offset(x, 2)},
                {Get(y), Hold(b)}, {Window(a)}, {}},
        ry \in {{Sync(x), Offset(a, 2)}, {Hold(x), Offset(y, 1)},
                {Get(x), Sync(a)}, {Offset(x, 1)}, {Window(x), Sync(x)}},
        rt \in {{Sync(y), Hold(x)}, {Get(y), Offset(y, 1)}}}

MCSpecifications ==
    EventSpecifications \cup PeriodicSpecifications \cup Families

(* A trigger with a window.                                                *)
TriggerWindow == {
    Combine(Out(Every(1), {Hold(a)}),
            Out(OnA, {Sync(a)}),
            Out(Every(2), {Window(a), Sync(x)}))}

Position == x :> 1 @@ y :> 2 @@ t :> 3
=============================================================================

---------------------------- MODULE Dependencies ----------------------------
(***************************************************************************)
(* The dependency graph of a syntax tree (analysis/graph_based_analysis):  *)
(* its edges, its cycles, the order of evaluation, and how much is to be   *)
(* stored.                                                                 *)
(*                                                                         *)
(* The nodes are the declarations of streams and triggers.  ast is the     *)
(* tree, decls what the names in it are bound to, tys the pacing types,    *)
(* types the value types of its nodes.  An edge is the access it stands    *)
(* for, so the edges between two nodes are told apart by id.               *)
(***************************************************************************)
EXTENDS Ast, FiniteSets, FiniteSetsExt

-----------------------------------------------------------------------------
(* Nodes and edges.                                                        *)

InputNodes(ast) == {InputId(i) : i \in DOMAIN ast.inputs}
OutputNodes(ast) == {OutputId(i) : i \in DOMAIN ast.outputs}
TriggerNodes(ast) == {TriggerId(i) : i \in DOMAIN ast.triggers}
StreamNodes(ast) == InputNodes(ast) \cup OutputNodes(ast) \cup TriggerNodes(ast)

NoStream == <<"none", 0>>
TargetOf(decl) == IF decl.k \in {"In", "Out"} THEN decl.id ELSE NoStream

SlidingWindow == [k |-> "SlidingWindow"]
TranslateOffset(off) ==
    IF off.k = "Discrete" THEN off
    ELSE [k |-> IF off.r[1] < 0 THEN "UpToNow" ELSE "Future",
          r |-> <<Abs(OffsetSeconds(off)[1]), OffsetSeconds(off)[2]>>]

(***************************************************************************)
(* Of a tuple of which an element is taken, only that element is followed. *)
(***************************************************************************)
RECURSIVE EdgesForExpression(_, _, _, _, _)
EdgesForExpression(decls, from, location, e, id) ==
    LET Edge(node, off) == {[from |-> from, to |-> TargetOf(decls[node]),
                             location |-> location, off |-> off, id |-> node]}
        Kid(f, path) == EdgesForExpression(decls, from, location, f, id \o path)
    IN  CASE e.k = "Ident" ->
                 IF decls[id].k \in {"In", "Out"} THEN Edge(id, Discrete(0)) ELSE {}
          [] e.k = "Offset" -> Edge(Append(id, 1), TranslateOffset(e.off))
          [] e.k = "Window" -> Edge(Append(id, 1), SlidingWindow)
          [] e.k = "Field" /\ e.kids[1].k = "Tuple" ->
                 Kid(e.kids[1].kids[e.index + 1], <<1, e.index + 1>>)
          [] OTHER -> UNION {Kid(e.kids[i], <<i>>) : i \in DOMAIN e.kids}

OutputEdges(decls, output, node) ==
    LET Edges(location, e, id) ==
            IF e = None THEN {} ELSE EdgesForExpression(decls, node, location, e, id)
    IN  Edges("Expression", output.expr, ExpressionId(node)) \cup
        Edges("Extend", output.extend, ExtendId(node)) \cup
        Edges("Terminate", output.termination, TerminationId(node))
EdgesOf(ast, decls) ==
    UNION {OutputEdges(decls, ast.outputs[i], OutputId(i)) : i \in DOMAIN ast.outputs}
    \cup UNION {EdgesForExpression(decls, TriggerId(i), "Expression",
                                   ast.triggers[i].expr, ExpressionId(TriggerId(i))) :
                i \in DOMAIN ast.triggers}

(***************************************************************************)
(* An offset into, or a window over, what is no stream.                    *)
(***************************************************************************)
NotAStream(edges) == \E e \in edges : e.to = NoStream

-----------------------------------------------------------------------------
(* Cycles.                                                                 *)

RECURSIVE Reached(_, _)
Reached(edges, nodes) ==
    LET next == nodes \cup {e.to : e \in {f \in edges : f.from \in nodes}}
    IN  IF next = nodes THEN nodes ELSE Reached(edges, next)
Component(edges, node) ==
    {m \in Reached(edges, {node}) : node \in Reached(edges, {m})}
StartingNode(edges, node) == \A m \in Component(edges, node) : node[2] <= m[2]

RECURSIVE Closing(_, _)
Closing(edges, path) == \* the cycles that begin with this path
    IF Last(path).to = path[1].from THEN {path}
    ELSE UNION {Closing(edges, Append(path, e)) :
                   e \in {f \in edges : /\ f.from = Last(path).to /\ f.to # f.from
                                        /\ \A i \in 2..Len(path) : f.to # path[i].from}}
CyclicPathsFrom(edges, node) ==
    UNION {Closing(edges, <<e>>) : e \in {f \in edges : f.from = node}}

(***************************************************************************)
(* All self-loops, but of the longer ones only those through the first     *)
(* node of a component.                                                    *)
(***************************************************************************)
CyclicPaths(edges, nodes) == UNION {CyclicPathsFrom(edges, n) : n \in nodes}
SelfLoops(edges, nodes) == {p \in CyclicPaths(edges, nodes) : Len(p) = 1} \* wrong variant
FoundPaths(edges, nodes) ==
    {p \in CyclicPaths(edges, nodes) :
        Len(p) = 1 \/ StartingNode(edges, p[1].from)}

HasRealTime(path) == \E i \in DOMAIN path : path[i].off.k # "Discrete"
CycleWeight(path) == FoldLeft(LAMBDA sum, e : sum + e.off.n, 0, path)

CycleErrors(found) ==
    (IF \E p \in found : HasRealTime(p) THEN {"cycle with periodic stream"} ELSE {}) \cup
    (IF \E p \in found : ~HasRealTime(p) /\ CycleWeight(p) = 0
     THEN {"zero-weight cycle"} ELSE {})
MixedCycles(found) ==
    \E p, q \in {c \in found : ~HasRealTime(c)} :
        /\ CycleWeight(p) < 0 /\ CycleWeight(q) > 0
        /\ {e.from : e \in ToSet(p)} \cap {e.from : e \in ToSet(q)} # {}

-----------------------------------------------------------------------------
(* The order of evaluation.                                                *)

(***************************************************************************)
(* What the step of a node waits for.  Accesses between event-driven and   *)
(* periodic streams are in neither of both graphs.                         *)
(***************************************************************************)
ComputeSteps == {"invoke", "extend", "evaluate", "terminate"}
StepOf == [Expression |-> "evaluate", Extend |-> "extend", Terminate |-> "terminate"]
NowIsPast(e) == \* wrong variant: what is read now is taken for what is stored
    IF e.off.k # "Discrete" \/ e.off.n > 0 THEN {}
    ELSE {<<<<e.from, StepOf[e.location]>>, <<e.to, "extend">>>>}
AccessEdge(e) ==
    CASE e.off.k = "Discrete" ->
             IF e.off.n > 0 THEN {}
             ELSE {<<<<e.from, StepOf[e.location]>>,
                     <<e.to, IF e.off.n = 0 THEN "evaluate" ELSE "extend">>>>}
      [] e.off.k = "UpToNow" -> {<<<<e.from, "evaluate">>, <<e.to, "evaluate">>>>}
      [] e.off.k = "Future" -> {}
      [] e.off.k = "SlidingWindow" ->
             IF e.from = e.to THEN {}
             ELSE {<<<<e.from, "evaluate">>, <<e.to, "evaluate">>>>}
StepEdges(n) == {<<<<n, "extend">>, <<n, "invoke">>>>,
                 <<<<n, "terminate">>, <<n, "invoke">>>>,
                 <<<<n, "evaluate">>, <<n, "extend">>>>}
BuildComputeGraph(edges, nodes) ==
    UNION {StepEdges(n) : n \in nodes} \cup
    UNION {AccessEdge(e) : e \in {f \in edges : {f.from, f.to} \subseteq nodes}}

(***************************************************************************)
(* The layers, up to the first that is empty: then, the loop never ends.   *)
(***************************************************************************)
RECURSIVE GetComputeOrder(_, _)
GetComputeOrder(graph, remaining) ==
    LET front == {s \in remaining : ~\E d \in graph : d[1] = s /\ d[2] \in remaining}
    IN  IF remaining = {} \/ front = {} THEN <<>>
        ELSE <<front>> \o GetComputeOrder(graph, remaining \ front)
ComputeOrder(edges, nodes) ==
    GetComputeOrder(BuildComputeGraph(edges, nodes), nodes \X ComputeSteps)
Ends(order, nodes) == UNION ToSet(order) = nodes \X ComputeSteps

LayerIn(order, node) ==
    Max({i \in DOMAIN order : \E s \in order[i] : s[1] = node}) - 1
PeriodicNodes(ast, tys) ==
    {n \in StreamNodes(ast) \ InputNodes(ast) : tys[n].k = "RealTime"}
Classes(ast, tys) ==
    {StreamNodes(ast) \ PeriodicNodes(ast, tys), PeriodicNodes(ast, tys)}
OrderTable(ast, tys, edges) ==
    [n \in StreamNodes(ast) |->
        LET class == CHOOSE c \in Classes(ast, tys) : n \in c
        IN  LayerIn(ComputeOrder(edges, class), n)]
OrderEnds(ast, tys, edges) ==
    \A class \in Classes(ast, tys) : Ends(ComputeOrder(edges, class), class)

-----------------------------------------------------------------------------
(* What is to be stored.                                                   *)

IntoFuture(e) == e.off.k = "Future" \/ (e.off.k = "Discrete" /\ e.off.n > 0)
FutureDependent(ast, edges) ==
    {n \in StreamNodes(ast) :
        \E e \in edges : IntoFuture(e) /\ e.from \in Reached(edges, {n})}

(***************************************************************************)
(* The room for an offset into the past; offsets in real time are not      *)
(* counted.                                                                *)
(***************************************************************************)
RoomBehind(o) == Abs(o) \* wrong variant: without the value of now
Room(o) == 1 + Abs(o)
BufferSize(ast, edges) ==
    LET future == FutureDependent(ast, edges)
        offsets(n) == {e.off.n : e \in {f \in edges : f.to = n /\ f.off.k = "Discrete"}}
        storeAll == \E e \in edges : /\ e.to \in future /\ IntoFuture(e)
                                     /\ e.location # "Expression"
    IN  [n \in StreamNodes(ast) |->
            IF storeAll /\ n \in InputNodes(ast) THEN [k |-> "Unbounded"]
            ELSE [k |-> IF n \in future THEN "FutureRef" ELSE "Finite",
                  n |-> Max({1} \cup {Room(o) : o \in {p \in offsets(n) : p <= 0}})]]

(***************************************************************************)
(* The tracking requirements of a node.  Only periodic streams have real-  *)
(* time offsets, into periodic ones.  The time is divided by the           *)
(* frequency, not by the period.                                           *)
(***************************************************************************)
Ceiling(q) == -((-q[1]) \div q[2])
Floor(q) == q[1] \div q[2]
TrackingOf(tys, edges, n) ==
    {[to |-> e.to, id |-> e.id,
      n |-> Ceiling(Times(e.off.r, Reciprocal(tys[n].f)))] :
        e \in {f \in edges : /\ f.from = n /\ f.location = "Expression"
                             /\ f.off.k = "UpToNow"}}

(***************************************************************************)
(* An assertion forbids to track a stream that depends on a future value,  *)
(* and there is no room for more than 65535 values.                        *)
(***************************************************************************)
TracksTheFuture(ast, edges) ==
    \E e \in edges : /\ e.location = "Expression" /\ e.off.k \in {"UpToNow", "Future"}
                    /\ e.to \in FutureDependent(ast, edges)
TracksTooMuch(ast, tys, edges) ==
    \E n \in StreamNodes(ast) : \E t \in TrackingOf(tys, edges, n) : t.n > 65535

RECURSIVE BfsColor(_, _)
BfsColor(edges, nodes) ==
    LET next == nodes \cup {e.from : e \in {f \in edges : f.to \in nodes}}
    IN  IF next = nodes THEN nodes ELSE BfsColor(edges, next)
RequiredInputs(ast, edges) ==
    [n \in StreamNodes(ast) |->
        {i \in InputNodes(ast) : n \in BfsColor(edges, {i})}]

-----------------------------------------------------------------------------
(* The memory that is needed: a number of bytes, unbounded, or unknown.    *)

NoMemory == [k |-> "Bounded", n |-> 0]
Plus(bound, other) ==
    IF "Unbounded" \in {bound.k, other.k} THEN [k |-> "Unbounded"]
    ELSE IF "Unknown" \in {bound.k, other.k} THEN [k |-> "Unknown"]
    ELSE [k |-> "Bounded", n |-> bound.n + other.n]
Total(bounds) == FoldLeft(Plus, NoMemory, bounds)
Scale(bound, times, extra) ==
    IF bound.k # "Bounded" THEN bound
    ELSE [k |-> "Bounded", n |-> bound.n * times + extra]

RECURSIVE GetByteSize(_)
GetByteSize(ty) ==
    CASE ty.k = "Bool" -> [k |-> "Bounded", n |-> 1]
      [] ty.k \in {"Int", "UInt", "Float"} -> [k |-> "Bounded", n |-> ty.w \div 8]
      [] ty.k \in {"String", "Bytes"} -> [k |-> "Unbounded"]
      [] ty.k \in {"Tuple", "Option"} ->
             Total([i \in DOMAIN ty.a |-> GetByteSize(ty.a[i])])
      [] ty.k = "Error" -> [k |-> "Unknown"]

Panes == 64
NeededWindowMemory(size, panes, op) ==
    CASE op = "Count" -> Scale(size, 0, panes * 8)
      [] op = "Average" -> Scale(size, panes, panes * 8)
      [] op = "Integral" -> Scale(size, 0, panes * 41)
      [] OTHER -> Scale(size, panes, 0)
WindowPanes(ty, duration) ==
    IF ty.k = "Event" THEN Panes
    ELSE Min({Panes, Floor(Times(duration.r, Reciprocal(ty.f)))})

RECURSIVE AddSlidingWindows(_, _, _, _, _)
AddSlidingWindows(decls, tys, types, e, id) ==
    LET Kid(f, path) == AddSlidingWindows(decls, tys, types, f, id \o path)
        target == decls[Append(id, 1)].id
    IN  CASE e.k = "Window" ->
                 NeededWindowMemory(GetByteSize(types[target]),
                     WindowPanes(tys[target], ParseDuration(e.kids[2])), e.agg)
          [] e.k = "Field" /\ e.kids[1].k = "Tuple" ->
                 Kid(e.kids[1].kids[e.index + 1], <<1, e.index + 1>>)
          [] OTHER -> Total([i \in DOMAIN e.kids |-> Kid(e.kids[i], <<i>>)])

(***************************************************************************)
(* The worst case: a fixed amount and, for every stream, what its buffer,  *)
(* the values it tracks and its windows need.                              *)
(***************************************************************************)
MemoryConsumption(ast, decls, tys, types, edges) ==
    LET buffers == BufferSize(ast, edges)
        Buffer(n) == IF buffers[n].k = "Unbounded" THEN [k |-> "Unbounded"]
                     ELSE Scale(GetByteSize(types[n]),
                                IF buffers[n].k = "FutureRef" THEN 0 ELSE buffers[n].n, 0)
        Tracked(n) == MapThenFoldSet(Plus, NoMemory,
                          LAMBDA t : Scale(GetByteSize(types[t.to]), t.n, 0),
                          LAMBDA S : CHOOSE t \in S : TRUE, TrackingOf(tys, edges, n))
        Windows(n, e) == AddSlidingWindows(decls, tys, types, e, ExpressionId(n))
        Fixed(n) == [k |-> "Bounded", n |-> n]
        InputMemory(i) == Plus(Buffer(InputId(i)), Fixed(100))
        OutputMemory(i) == Total(<<Buffer(OutputId(i)), Tracked(OutputId(i)),
                                   Windows(OutputId(i), ast.outputs[i].expr), Fixed(500)>>)
        TriggerMemory(i) == Total(<<Tracked(TriggerId(i)),
                                    Windows(TriggerId(i), ast.triggers[i].expr), Fixed(500)>>)
    IN  Total(<<Fixed(10000)>> \o [i \in DOMAIN ast.inputs |-> InputMemory(i)]
              \o [i \in DOMAIN ast.outputs |-> OutputMemory(i)]
              \o [i \in DOMAIN ast.triggers |-> TriggerMemory(i)])
=============================================================================

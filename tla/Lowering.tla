------------------------------ MODULE Lowering ------------------------------
(***************************************************************************)
(* From the syntax tree and the results of the analyses to the             *)
(* intermediate representation (frontend/src/ir.rs, ir/lowering.rs).       *)
(*                                                                         *)
(* A reference to a stream is the identity of its declaration, and one to  *)
(* a window that of its node; positions in the vectors of the IR are left  *)
(* out.  r is the result of the analyses: the table decls of bindings, the *)
(* pacing types tys, the activation conditions acs, the table of value     *)
(* types, and the results of the graph analyses.                           *)
(***************************************************************************)
EXTENDS Dependencies, ValueTypes

-----------------------------------------------------------------------------
(* Expressions of the IR: a kind, a type, the arguments, and data.  Where  *)
(* the code would panic, the expression says so.                           *)

IrExpr(kind, ty, args, data) == [k |-> kind, ty |-> ty, args |-> args, data |-> data]
Unlowerable(why) == IrExpr("Panic", Error, <<>>, why)
FunctionTy(params, ret) == [params |-> params, ret |-> ret]

RECURSIVE IrNodes(_)
IrNodes(x) == {x} \cup UNION {IrNodes(x.args[i]) : i \in DOMAIN x.args}
CannotLower(x) == \E n \in IrNodes(x) : n.k = "Panic"

(***************************************************************************)
(* A type that is not known, or still a constraint, has none in the IR.    *)
(***************************************************************************)
RECURSIVE IsIrType(_)
IsIrType(ty) ==
    IF ty.k \in {"Tuple", "Option"} THEN \A i \in DOMAIN ty.a : IsIrType(ty.a[i])
    ELSE IsPrimitive(ty)

NoConversion(x, from, to) == x \* wrong variant: the types are not compared
Convert(x, from, to) ==
    IF from = to THEN x ELSE IrExpr("Convert", to, <<x>>, [from |-> from, to |-> to])

-----------------------------------------------------------------------------
(* References, offsets, literals.                                          *)

(***************************************************************************)
(* Constants and parameters are not streams, and the reference of one is   *)
(* not implemented.                                                        *)
(***************************************************************************)
GetRefForIdent(r, id) == TargetOf(r.decls[id])

(***************************************************************************)
(* An offset in real time is one of as many periods of its target.         *)
(***************************************************************************)
LowerOffset(r, target, off) ==
    IF off.k = "Discrete"
    THEN [k |-> IF off.n < 0 THEN "PastDiscrete" ELSE "FutureDiscrete", n |-> Abs(off.n)]
    ELSE [k |-> "PastDiscrete",
          n |-> Floor(Times(<<Abs(OffsetSeconds(off)[1]), OffsetSeconds(off)[2]>>,
                            r.tys[target].f))]

(***************************************************************************)
(* A numeric literal is read as its type demands: a negative or a          *)
(* fractional number, or one with an exponent, is no integer.              *)
(***************************************************************************)
ParseNumeric(l, ty) ==
    CASE ty.k = "Float" -> [v |-> "Float", x |-> Reduce(l.n * 10^Max({l.exp, 0}),
                                10^(l.decimals + Max({-l.exp, 0})))]
      [] ty.k = "Int" -> [v |-> "Signed", n |-> l.n]
      [] ty.k = "UInt" -> [v |-> "Unsigned", n |-> l.n]
ParsesAs(l, ty) ==
    \/ ty.k = "Float"
    \/ ty.k \in {"Int", "UInt"} /\ ~l.point /\ ~l.hasExp
          /\ (IF ty.k = "Int" THEN Fits(l.n, IntTy(64)) ELSE Fits(l.n, UIntTy(64)))
LowerLiteral(r, l, id) ==
    LET ty == r.table.types[id]
    IN  CASE l.lit = "Str" -> IrExpr("LoadConstant", ty, <<>>, [v |-> "Str", s |-> l.s])
          [] l.lit = "Bool" -> IrExpr("LoadConstant", ty, <<>>, [v |-> "Bool", b |-> l.b])
          [] l.lit = "Num" /\ ~ParsesAs(l, ty) -> Unlowerable("literal")
          [] l.lit = "Num" /\ ParsesAs(l, ty) ->
                 IrExpr("LoadConstant", ty, <<>>, ParseNumeric(l, ty))

-----------------------------------------------------------------------------
(* Expressions.                                                            *)

(***************************************************************************)
(* The parameters of the function that an operator is, its generics being  *)
(* resolved.                                                               *)
(***************************************************************************)
Resolve(tys, generics) == [i \in DOMAIN tys |-> ReplaceParams(tys[i], generics)]

(***************************************************************************)
(* Arguments are converted to the types of the parameters; nothing else    *)
(* is, but what an identifier stands for, a result of a function and the   *)
(* whole expression.  The value of a parenthesis has the type of what is   *)
(* inside.                                                                 *)
(***************************************************************************)
RECURSIVE LowerKind(_, _, _), LowerExpression(_, _, _)
HandleFuncArgs(r, tys, es, ids) ==
    [i \in DOMAIN tys |->
        Convert(LowerExpression(r, es[i], ids[i]), r.table.types[ids[i]], tys[i])]

LowerArithLog(r, e, id, decl) ==
    LET ids == [i \in DOMAIN e.kids |-> Append(id, i)]
        params == Resolve(decl.parameters, r.table.funs[id])
        ty == r.table.types[id]
    IN  IrExpr("ArithLog", ty, HandleFuncArgs(r, params, e.kids, ids),
               [op |-> e.op, fun |-> FunctionTy(params, ty)])

(***************************************************************************)
(* cast is its argument, and the conversion to the type of the node.       *)
(***************************************************************************)
LowerFunction(r, e, id, decl) ==
    LET generics == r.table.funs[id]
        params == Resolve(decl.parameters, generics)
        ret == ReplaceParams(decl.ret, generics)
        args == HandleFuncArgs(r, params, e.kids, [i \in DOMAIN e.kids |-> Append(id, i)])
        cast == e.k = "Function" /\ e.fn.name = "cast"
        applied == IrExpr("Function", ret, args,
                          [fn |-> e.fn.name, fun |-> FunctionTy(params, ret)])
    IN  IF cast THEN Convert(args[1], params[1], r.table.types[id])
        ELSE Convert(applied, ret, r.table.types[id])

LowerIdent(r, id) ==
    LET decl == r.decls[id]
        ty == r.table.types[decl.id]
        source == CASE decl.k \in {"In", "Out"} ->
                           IrExpr("StreamAccess", ty, <<>>, [target |-> decl.id, kind |-> "Sync"])
                    [] decl.k = "Const" -> LowerLiteral(r, r.literals[decl.id], decl.id)
                    [] OTHER -> Unlowerable("parameter")
    IN  Convert(source, ty, r.table.types[id])

LowerKind(r, e, id) ==
    LET ty == r.table.types[id]
        Kid(i) == LowerExpression(r, e.kids[i], Append(id, i))
        target == GetRefForIdent(r, Append(id, 1))
    IN  CASE e.k = "Lit" -> LowerLiteral(r, e.lit, id)
          [] e.k = "Ident" -> LowerIdent(r, id)
          [] e.k = "StreamAccess" ->
                 IrExpr("StreamAccess", r.table.types[Append(id, 1)], <<>>,
                        [target |-> target, kind |-> e.access])
          [] e.k = "Default" -> IrExpr("Default", ty, <<Kid(1), Kid(2)>>, None)
          [] e.k = "Offset" ->
                 IrExpr("OffsetLookup", ty, <<>>,
                        [target |-> target, offset |-> LowerOffset(r, target, e.off)])
          [] e.k = "Window" -> IrExpr("WindowLookup", ty, <<>>, [window |-> id])
          [] e.k = "Binary" -> LowerArithLog(r, e, id, BinOpDecl(e.op))
          [] e.k = "Unary" -> LowerArithLog(r, e, id, UnOpDecl(e.op))
          [] e.k = "Ite" ->
                 IrExpr("Ite", ty, <<Kid(1)>> \o
                        HandleFuncArgs(r, <<ty, ty>>, Tail(e.kids),
                                       <<Append(id, 2), Append(id, 3)>>), None)
          [] e.k = "Paren" -> Kid(1)
          [] e.k = "Tuple" -> IrExpr("Tuple", ty, [i \in DOMAIN e.kids |-> Kid(i)], None)
          [] e.k = "Field" -> IrExpr("TupleAccess", ty, <<Kid(1)>>, [index |-> e.index])
          [] e.k = "Method" -> LowerFunction(r, e, id, r.table.methods[id])
          [] e.k = "Function" ->
                 IF r.decls[id].k # "Func" THEN Unlowerable("parametric output")
                 ELSE LowerFunction(r, e, id, FuncDecl(e.fn.name))
          [] e.k = "Missing" -> Unlowerable("missing expression")

LowerExpression(r, e, id) ==
    IF IsIrType(r.table.types[id]) THEN LowerKind(r, e, id) ELSE Unlowerable("type")

LowerStreamExpression(r, e, id, expected) ==
    Convert(LowerExpression(r, e, id), r.table.types[id], expected)

-----------------------------------------------------------------------------
(* What a stream depends on.                                               *)

(***************************************************************************)
(* The streams that an expression accesses, except through windows, and    *)
(* at which offsets; an access without an offset has offset 0.             *)
(***************************************************************************)
RECURSIVE FindDependencies(_, _, _)
FindDependencies(r, e, id) ==
    CASE e.k = "Offset" ->
             LET target == GetRefForIdent(r, Append(id, 1))
             IN  {[stream |-> target, offset |-> LowerOffset(r, target, e.off)]}
      [] e.k = "Ident" ->
             IF r.decls[id].k \notin {"In", "Out"} THEN {}
             ELSE {[stream |-> r.decls[id].id, offset |-> [k |-> "PastDiscrete", n |-> 0]]}
      [] e.k = "Window" -> {}
      [] OTHER -> UNION {FindDependencies(r, e.kids[i], Append(id, i)) : i \in DOMAIN e.kids}

(***************************************************************************)
(* In seconds; the code cuts it to whole nanoseconds.                      *)
(***************************************************************************)
LowerDuration(e) == LET d == ParseDuration(e) IN d.r
WindowsOf(e, id) == {n \in Nodes(e, id) : n.e.k = "Window"}
LowerWindow(r, n) ==
    [target |-> GetRefForIdent(r, Append(n.id, 1)), duration |-> LowerDuration(n.e.kids[2]),
     wait |-> n.e.wait, op |-> n.e.agg, ty |-> r.table.types[n.id]]

(***************************************************************************)
(* Whom a stream has to keep values for: the rate is that of the stream    *)
(* itself, zero if it has none.                                            *)
(***************************************************************************)
LowerTracking(r, ast, id) ==
    {[trackee |-> n, num |-> t.n,
      rate |-> IF r.tys[id].k = "RealTime" THEN Reciprocal(r.tys[id].f) ELSE <<0, 1>>] :
        <<n, t>> \in UNION {{n} \X {t \in TrackingOf(r.tys, r.edges, n) : t.to = id} :
                                n \in PeriodicNodes(ast, r.tys)}}

LowerStorageReq(req) ==
    IF req.k = "Unbounded" THEN [k |-> "Unbounded"] ELSE [k |-> "Bounded", n |-> req.n]

-----------------------------------------------------------------------------
(* The IR, built in the order of lower_ast.                                *)

VARIABLE ir

EmptyIr == [streams |-> [id \in {} |-> None], timeDriven |-> <<>>, eventDriven |-> <<>>,
            windows |-> [id \in {} |-> None], triggers |-> <<>>]

CheckTimeDriven(r, ir0, id) ==
    IF r.tys[id].k = "RealTime"
    THEN [ir0 EXCEPT !.timeDriven =
             Append(@, [reference |-> id, period |-> Reciprocal(r.tys[id].f)])]
    ELSE [ir0 EXCEPT !.eventDriven = Append(@, id)]

StreamRecord(r, id, ty, memory, tracking) ==
    [ty |-> ty, layer |-> r.layers[id], memory |-> memory, tracking |-> tracking,
     dependentWindows |-> {}, ac |-> r.acs[id],
     expr |-> IrExpr("LoadConstant", Bool, <<>>, [v |-> "Str", s |-> "not yet initialized"]),
     dependencies |-> {}, inputs |-> {}]

LowerInput(r, ast, i) ==
    LET id == InputId(i)
    IN  ir' = [ir EXCEPT !.streams = @ @@ (id :>
                  StreamRecord(r, id, r.table.types[id],
                               LowerStorageReq(r.buffers[id]), LowerTracking(r, ast, id)))]

LowerOutputDeclaration(r, ast, i) ==
    LET id == OutputId(i)
        declared == [ir EXCEPT !.streams = @ @@ (id :>
                        StreamRecord(r, id, Bool, LowerStorageReq(r.buffers[id]),
                                     LowerTracking(r, ast, id)))]
    IN  ir' = CheckTimeDriven(r, declared, id)

LowerOutputExpression(r, output, i) ==
    LET id == OutputId(i)
        node == ExpressionId(id)
        ty == r.table.types[id]
        windows == WindowsOf(output.expr, node)
    IN  ir' = [ir EXCEPT
                  !.streams[id].ty = ty,
                  !.streams[id].inputs = r.inputs[id],
                  !.streams[id].dependencies = FindDependencies(r, output.expr, node),
                  !.streams[id].expr = LowerStreamExpression(r, output.expr, node, ty),
                  !.windows = @ @@ [n \in {w.id : w \in windows} |->
                     LowerWindow(r, CHOOSE w \in windows : w.id = n)]]

(***************************************************************************)
(* The windows there are now: those of triggers come later.                *)
(***************************************************************************)
LinkWindows ==
    ir' = [ir EXCEPT !.streams = [id \in DOMAIN @ |->
              [@[id] EXCEPT !.dependentWindows =
                  {w \in DOMAIN ir.windows : ir.windows[w].target = id}]]]

LowerTrigger(r, trigger, i) ==
    LET id == TriggerId(i)
        node == ExpressionId(id)
        windows == WindowsOf(trigger.expr, node)
        expr == LowerStreamExpression(r, trigger.expr, node, Bool)
        stream == [StreamRecord(r, id, Bool, [k |-> "Bounded", n |-> 0], {}) EXCEPT
                      !.expr = expr, !.inputs = r.inputs[id],
                      !.dependencies = FindDependencies(r, trigger.expr, node)]
        added == [ir EXCEPT !.streams = @ @@ (id :> stream), !.triggers = Append(@, id),
                            !.windows = @ @@ [n \in {w.id : w \in windows} |->
                               LowerWindow(r, CHOOSE w \in windows : w.id = n)]]
    IN  ir' = CheckTimeDriven(r, added, id)

LoweringPanics(lowered) ==
    \E id \in DOMAIN lowered.streams :
        \/ ~IsIrType(lowered.streams[id].ty)
        \/ CannotLower(lowered.streams[id].expr)

(***************************************************************************)
(* The layers of the event-driven outputs, those without a stream left     *)
(* out (get_event_driven_layers).                                          *)
(***************************************************************************)
GetEventDrivenLayers(lowered) ==
    LET ids == ToSet(lowered.eventDriven)
        used == {lowered.streams[id].layer : id \in ids}
    IN  [n \in 1..Cardinality(used) |->
            {id \in ids : Cardinality({l \in used : l < lowered.streams[id].layer}) = n - 1}]
=============================================================================

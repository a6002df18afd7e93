---------------------------- MODULE MCFrontend -----------------------------
(***************************************************************************)
(* Specifications for the model checker: families that vary what the       *)
(* phases of the front end decide by.                                      *)
(***************************************************************************)
EXTENDS Frontend

-----------------------------------------------------------------------------
(* Notation for pairs.                                                     *)

N(n) == <<LiteralTerm(Num(n))>>
F(n) == <<LiteralTerm(Decimal(n, 1, ""))>>
V(name) == <<IdentTerm(name)>>
U(n, unit) == <<LiteralTerm(Quantity(n, unit))>>
Op2(l, op, r) == l \o <<op>> \o r
P(pairs) == <<ParenTerm(pairs, TRUE)>>
Call(fn, labels, tys, args) == <<CallTerm(Name(fn, labels), tys, args)>>
Dot(e, fn, labels, args) == Op2(e, "Dot", Call(fn, labels, <<>>, args))
Hold(e) == Dot(e, "hold", <<>>, <<>>)
Get(e) == Dot(e, "get", <<>>, <<>>)
Defaults(e, d) == Dot(e, "defaults", <<"to">>, <<d>>)
By(e, n) == Dot(e, "offset", <<"by">>, <<N(n)>>)
ByTime(e, n, unit) == Dot(e, "offset", <<"by">>, <<U(n, unit)>>)
Over(e, d, agg) == Dot(e, "aggregate", <<"over", "using">>, <<d, V(agg)>>)
IfThen(c, t, e) == <<TernaryTerm(c, t, e)>>
Prefix(op, pairs) == <<UnaryTerm(op, pairs[1])>> \o Tail(pairs)

Ty(name) == [rule |-> "Ident", name |-> name]
In_(name, ty) == [rule |-> "InputStream", name |-> name, ty |-> Ty(ty), params |-> <<>>]
Const_(name, ty, lit) == [rule |-> "ConstantStream", name |-> name, ty |-> Ty(ty), lit |-> lit]
Import_(name) == [rule |-> "ImportStmt", name |-> name]
Full(name, ty, params, extend, termination, expr) ==
    [rule |-> "OutputStream", name |-> name, ty |-> ty, params |-> params,
     extend |-> extend, termination |-> termination, expr |-> expr]
Out(name, expr) == Full(name, None, <<>>, <<>>, <<>>, expr)
OutTy(name, ty, expr) == Full(name, Ty(ty), <<>>, <<>>, <<>>, expr)
At(name, extend, expr) == Full(name, None, <<>>, extend, <<>>, expr)
Trig(expr) == [rule |-> "Trigger", expr |-> expr]

-----------------------------------------------------------------------------
(* Precedence: two operators, and a prefix.                                *)

Mixed == {"Or", "BitOr", "Eq", "Lt", "Shl", "Sub", "Mul", "Pow"}
PrecedenceSpecs ==
    {<<In_("a", "Int64"), In_("b", "Int64"),
       Out("x", Prefix(prefix, V("a")) \o <<op1>> \o V("b") \o <<op2>> \o N(2))>> :
        prefix \in {"Neg", "BitNot"}, op1 \in Mixed, op2 \in Mixed}

-----------------------------------------------------------------------------
(* Types.                                                                  *)

TypeNames == {"Int8", "Int64", "UInt8", "Float64", "Bool", "String"}
Operators == {"Add", "Div", "Pow", "And", "Eq", "Lt", "BitAnd", "Shl"}
OperatorSpecs ==
    {<<In_("a", t1), In_("b", t2), Out("x", Op2(V("a"), op, V("b")))>> :
        t1 \in TypeNames, t2 \in TypeNames, op \in Operators}

UnarySpecs ==
    {<<In_("a", t), Out("x", Prefix(op, V("a")))>> :
        t \in TypeNames \cup {"Bytes"}, op \in {"Neg", "Not", "BitNot"}}

(***************************************************************************)
(* Functions and methods, with the libraries they come from.               *)
(***************************************************************************)
Libraries == <<Import_("math"), Import_("regex")>>
Fun(name, labels, args) == Call(name, labels, <<>>, args)
Cast(tys, e) == Call("cast", <<"_">>, tys, <<e>>)
FunctionBodies ==
    {Fun(f, <<"_">>, <<e>>) : f \in {"sqrt", "abs"}, e \in {V("a"), F(15)}} \cup
    {Fun(f, <<"_", "_">>, <<V("a"), N(1)>>) : f \in {"min", "max"}} \cup
    {Dot(V("a"), "max", <<"_">>, <<V("a")>>), Dot(V("a"), "abs", <<>>, <<>>),
     Dot(P(V("a")), "sqrt", <<>>, <<>>), Dot(N(1), "abs", <<>>, <<>>),
     Fun("matches", <<"_", "regex">>, <<V("a"), <<LiteralTerm(Text("a"))>>>>),
     Fun("matches", <<"_", "regex">>, <<V("a"), V("a")>>),
     Dot(V("a"), "matches", <<"regex">>, <<<<LiteralTerm(Text("a"))>>>>),
     Defaults(Dot(V("a"), "at", <<"index">>, <<N(0)>>), N(1)),
     Cast(<<>>, V("a")), Cast(<<Simple("Int64")>>, V("a")),
     Cast(<<Simple("Int64"), Simple("Float64")>>, V("a")), Cast(<<>>, N(2))}
FunctionSpecs ==
    {Libraries \o <<In_("a", t), IF ty = "" THEN Out("x", e) ELSE OutTy("x", ty, e)>> :
        t \in {"Int8", "UInt64", "Float64", "String", "Bytes"}, e \in FunctionBodies,
        ty \in {"", "Float64", "UInt64"}}
        \cup {<<In_("a", "Float64"), Out("x", Fun("sqrt", <<"_">>, <<V("a")>>))>>,
              <<Import_("maths"), In_("a", "Float64")>>}

(***************************************************************************)
(* Values that come from elsewhere, and what is made of them.              *)
(***************************************************************************)
Zero == N(0)
Bodies ==
    {Op2(V("a"), "Add", V("c")), Op2(V("a"), "Add", N(200)), N(-1), F(5),
     IfThen(V("b"), V("a"), Zero), IfThen(V("a"), V("a"), Zero), P(Op2(V("a"), "Mul", N(2))),
     Defaults(Hold(V("a")), Zero), Dot(V("a"), "hold", <<"or">>, <<N(1)>>),
     Defaults(Get(V("a")), V("c")), Defaults(By(V("a"), -1), V("c")), Hold(V("a")),
     Op2(<<TupleTerm(<<V("a"), V("b")>>)>>, "Dot", <<IntegerTerm(0)>>),
     Op2(<<TupleTerm(<<V("a"), V("b")>>)>>, "Dot", <<IntegerTerm(2)>>),
     Op2(V("a"), "Dot", <<IntegerTerm(0)>>), <<TupleTerm(<<V("a"), Zero>>)>>,
     Prefix("Neg", By(V("a"), -1)), Hold(V("c")), By(V("c"), -1),
     Op2(V("a"), "Bracket", <<IntegerTerm(-1)>>),
     Prefix("Neg", Op2(V("a"), "Bracket", <<IntegerTerm(-1)>>)),
     Op2(V("y"), "Add", V("a")), Op2(V("y"), "Eq", V("a"))}
ValueSpecs ==
    {<<Const_("c", "Int8", Num(1)), In_("a", t), In_("b", "Bool"), Out("y", N(3)),
       IF ty = "" THEN Out("x", e) ELSE OutTy("x", ty, e), Trig(Op2(V("x"), "Eq", V("x")))>> :
        t \in {"Int8", "UInt8", "Float64", "Bool"}, e \in Bodies,
        ty \in {"", "Int16", "Float32"}}

(***************************************************************************)
(* Windows.                                                                *)
(***************************************************************************)
Every(f) == U(f, "Hz")
WindowSpecs ==
    {<<In_("a", t), At("x", Every(1), e)>> :
        t \in {"Int8", "Float64", "Bool"},
        e \in {Over(V("a"), d, agg) :
                   d \in {U(3, "s"), U(-1, "s"), N(1)}, agg \in {"sum", "count", "avg"}}
             \cup {Defaults(Over(V("a"), U(500, "ms"), agg), Zero) :
                      agg \in {"avg", "min", "integral", "exists", "nothing"}}
             \cup {Dot(V("a"), "aggregate", <<"over_exactly", "using">>,
                       <<U(2, "s"), V("sum")>>)}}

-----------------------------------------------------------------------------
(* Names.                                                                  *)

Param_(name, ty) == [name |-> name, ty |-> IF ty = "" THEN None ELSE Ty(ty)]
NameSpecs ==
    {<<In_("a", "Int64"), Full(name, None, params, extend, close, e), Out("z", V("a"))>> :
        name \in {"x", "a", "Self"},
        params \in {<<>>, <<<<>>>>, <<<<Param_("p", "Int64")>>>>, <<<<Param_("a", "Int64")>>>>,
                    <<<<Param_("p", ""), Param_("p", "Unknown")>>>>},
        extend \in {<<>>, V("a"), V("self")}, close \in {<<>>, V("p")},
        e \in {V("a"), V("p"), V("z"), Defaults(By(V("self"), -1), V("a"))}}
    \cup {<<In_("a", "Int64"), Full("x", None, <<<<Param_("p", "Int64")>>>>, <<>>, <<>>, V("a")),
            Out("y", e), Trig(V("y"))>> :
              e \in {V("x"), Fun("x", <<"_">>, <<V("a")>>), Fun("x", <<>>, <<>>)}}

-----------------------------------------------------------------------------
(* Clocks and dependencies.                                                *)

Annotations == {<<>>, V("a"), Op2(V("a"), "And", V("b")), Op2(V("a"), "Or", V("b")),
                V("y"), Every(2), Every(3), U(1, "s")}
Reads == {V("a"), Op2(V("a"), "Add", V("b")), V("y"), Op2(V("y"), "Add", V("b")),
          Defaults(Hold(V("y")), V("a")), Defaults(By(V("y"), -1), Zero),
          Defaults(ByTime(V("y"), -2, "s"), Zero)}
ClockSpecs ==
    {<<In_("a", "Int64"), In_("b", "Int64"), At("x", ann, read),
       At("y", other, e), Trig(Op2(V("x"), "Lt", V("y")))>> :
        ann \in Annotations, read \in Reads, other \in Annotations \ {V("y")},
        e \in {V("a"), N(5), Defaults(By(V("x"), -1), Zero)}}
OrderSpecs == \* declared in either order, over three outputs
    {<<In_("a", "Int64"), In_("b", "Int64"), At("z", ann, Op2(V("x"), "Add", V("y"))),
       At("y", other, Defaults(Hold(V("x")), V("b"))), Out("x", read)>> :
        ann \in {<<>>, Op2(V("y"), "And", V("x")), Op2(V("x"), "Or", V("y"))},
        other \in {<<>>, V("b"), V("x")},
        read \in {V("a"), N(5), Defaults(By(V("y"), -2), Zero), By(V("z"), 1)}}
    \cup {<<In_("a", "Int64"), In_("b", "Int64"), At("x", V("a"), V("a")), At("y", ann, N(1)),
            At("z", Op2(V("x"), op, V("y")), read), Trig(Op2(V("z"), "Lt", V("y")))>> :
              ann \in {V("a"), V("b"), V("x"), Op2(V("x"), "Or", V("b"))}, op \in {"And", "Or"},
              read \in {N(2), V("a"), V("y")}}
CycleSpecs ==
    {<<In_("a", "Int64"), Out("x", Defaults(By(V("y"), m), V("a"))),
       Out("y", Defaults(By(V("x"), n), V("a"))), Trig(Op2(V("x"), "Eq", N(0)))>> :
        m \in {-3, -1, 1, 20}, n \in {-1, 0, 1, 2}}
    \cup {<<In_("a", "Int64"), Out("x", V("y")), Out("y", e)>> :
              e \in {V("x"), V("y"), Defaults(Hold(V("x")), V("a")), By(V("x"), -1)}}
    \cup {<<In_("a", "Int64"), Out("x", Defaults(By(V("y"), n), V("a"))),
            Out("y", Op2(V("x"), "Add", V("z"))), Out("z", e)>> :
              n \in {-1, 1}, e \in {V("y"), V("a"), Defaults(By(V("y"), -2), V("a"))}}
TupleSpecs == \* an element of a tuple, behind what another one reads
    {<<In_("a", "Int64"),
       Out("x", Op2(<<TupleTerm(<<V("a"), e>>)>>, "Dot", <<IntegerTerm(i)>>)),
       Out("y", Op2(V("a"), "Add", N(1))), Out("z", Op2(V("y"), "Add", V("x")))>> :
        e \in {V("a"), V("y"), Hold(V("y")), N(4)}, i \in {0, 1}}

MCSpecs == PrecedenceSpecs \cup OperatorSpecs \cup UnarySpecs \cup FunctionSpecs
             \cup ValueSpecs \cup WindowSpecs \cup NameSpecs \cup ClockSpecs
             \cup OrderSpecs \cup CycleSpecs \cup TupleSpecs
MCLower == "Self" :> "self"
MCSmallestInt == -16
MCBits == 8 :> 3 @@ 16 :> 4 @@ 32 :> 5 @@ 64 :> 6
=============================================================================

----------------------------- MODULE ValueTypes -----------------------------
(***************************************************************************)
(* The inference of value types: the types and constraints of              *)
(* frontend/src/ty.rs, the unifier of ty/unifier.rs, the signatures of     *)
(* stdlib.rs and the inference rules of ty/check.rs.                       *)
(***************************************************************************)
EXTENDS Ast, FiniteSets, Functions

CONSTANT Bits \* of each width, the bits the model gives it

-----------------------------------------------------------------------------
(* Types and constraints.                                                  *)

IntTy(w) == [k |-> "Int", w |-> w]
UIntTy(w) == [k |-> "UInt", w |-> w]
FloatTy(w) == [k |-> "Float", w |-> w]
Bool == [k |-> "Bool"]
String == [k |-> "String"]
Bytes == [k |-> "Bytes"]
TupleTy(tys) == [k |-> "Tuple", a |-> tys]
Option(ty) == [k |-> "Option", a |-> <<ty>>]
InferTy(var) == [k |-> "Infer", v |-> var]
Constr(c) == [k |-> "Constr", c |-> c]
Param(i) == [k |-> "Param", i |-> i]
Error == [k |-> "Error"]

IsPrimitive(ty) == ty.k \in {"Bool", "Int", "UInt", "Float", "String", "Bytes"}
PrimitiveType ==
    [Bool |-> Bool, Int8 |-> IntTy(8), Int16 |-> IntTy(16), Int32 |-> IntTy(32),
     Int64 |-> IntTy(64), UInt8 |-> UIntTy(8), UInt16 |-> UIntTy(16), UInt32 |-> UIntTy(32),
     UInt64 |-> UIntTy(64), Float16 |-> FloatTy(16), Float32 |-> FloatTy(32),
     Float64 |-> FloatTy(64), String |-> String, Bytes |-> Bytes,
     Int |-> IntTy(64), UInt |-> UIntTy(64), Float |-> FloatTy(64)]

(***************************************************************************)
(* TypeConstraint, in the order that is derived for it.                    *)
(***************************************************************************)
Constraints == <<"SignedInteger", "UnsignedInteger", "FloatingPoint", "Integer",
                 "Numeric", "Equatable", "Comparable", "Unconstrained">>
Rank(c) == CHOOSE i \in DOMAIN Constraints : Constraints[i] = c
ConjoinConstraints(c, d) ==
    LET first == IF Rank(c) <= Rank(d) THEN c ELSE d
        second == IF Rank(c) <= Rank(d) THEN d ELSE c
    IN  IF \/ c = d
           \/ Rank(second) >= Rank("Numeric")
           \/ second = "Integer" /\ first # "FloatingPoint"
        THEN Constr(first) ELSE None
Satisfies(ty, c) ==
    CASE c = "Unconstrained" -> TRUE
      [] c \in {"Comparable", "Equatable"} -> IsPrimitive(ty)
      [] c = "Numeric" -> ty.k \in {"Int", "UInt", "Float"}
      [] c = "FloatingPoint" -> ty.k = "Float"
      [] c = "Integer" -> ty.k \in {"Int", "UInt"}
      [] c = "SignedInteger" -> ty.k = "Int"
      [] c = "UnsignedInteger" -> ty.k = "UInt"
DefaultOf(c) ==
    CASE c \in {"Integer", "SignedInteger", "Numeric"} -> IntTy(64)
      [] c = "UnsignedInteger" -> UIntTy(64)
      [] c = "FloatingPoint" -> FloatTy(64)
      [] OTHER -> Error

RECURSIVE ReplaceParams(_, _)
ReplaceParams(ty, tys) ==
    CASE ty.k = "Param" -> tys[ty.i]
      [] ty.k = "Option" -> Option(ReplaceParams(ty.a[1], tys))
      [] OTHER -> ty

(***************************************************************************)
(* Only a constraint or a type variable that is the whole type has a       *)
(* default; a variable inside a type has none, and the code does not       *)
(* expect one.                                                             *)
(***************************************************************************)
RECURSIVE ReplaceConstr(_)
ReplaceConstr(ty) ==
    CASE ty.k \in {"Tuple", "Option"} ->
             [ty EXCEPT !.a = [i \in DOMAIN @ |-> ReplaceConstr(@[i])]]
      [] ty.k = "Constr" -> DefaultOf(ty.c)
      [] OTHER -> ty
RECURSIVE IsConcrete(_)
IsConcrete(ty) ==
    IF ty.k \in {"Tuple", "Option"} THEN \A part \in ToSet(ty.a) : IsConcrete(part)
    ELSE ty.k \notin {"Infer", "Infinite"}

-----------------------------------------------------------------------------
(* The unifier: a class for every variable, and a type or None for every   *)
(* class.                                                                  *)

EmptyUnifier == [rep |-> <<>>, val |-> <<>>]
AddVar(u) == [rep |-> Append(u.rep, Len(u.rep) + 1), val |-> Append(u.val, None)]
Probe(u, var) == u.val[u.rep[var]]
VarsEqual(u, l, r) == u.rep[l] = u.rep[r]
Concretize(u, vars, ty) ==
    [u EXCEPT !.val = [c \in DOMAIN @ |-> IF \E var \in vars : u.rep[var] = c
                                          THEN ty ELSE @[c]]]
Join(u, l, r) ==
    [rep |-> [v \in DOMAIN u.rep |-> IF VarsEqual(u, v, r) THEN u.rep[l] ELSE u.rep[v]],
     val |-> [u.val EXCEPT ![u.rep[l]] =
                 IF Probe(u, l) = None THEN Probe(u, r) ELSE Probe(u, l)]]

(***************************************************************************)
(* Whether var occurs in ty: the types its variables are bound to are not  *)
(* looked into.                                                            *)
(***************************************************************************)
RECURSIVE ContainsVar(_, _, _)
ContainsVar(u, ty, var) ==
    CASE ty.k = "Infer" -> VarsEqual(u, var, ty.v)
      [] ty.k \in {"Tuple", "Option"} ->
             \E part \in ToSet(ty.a) : ContainsVar(u, part, var)
      [] OTHER -> FALSE

CoercesWith(left, right) ==
    left.k = right.k /\ left.k \in {"Int", "UInt", "Float"} /\ right.w <= left.w

Composed(ty, parts) ==
    [u |-> parts.u, ty |-> IF Len(parts.tys) = Len(ty.a)
                           THEN [ty EXCEPT !.a = parts.tys] ELSE None]
Bind(eq, bound, coerces) == \* variables, to the type that unites theirs
    IF eq.ty = None THEN [u |-> eq.u, ok |-> coerces]
    ELSE [u |-> Concretize(eq.u, bound, eq.ty), ok |-> TRUE]

AddPart(tys, eq) ==
    [u |-> eq.u, tys |-> IF eq.ty = None THEN tys ELSE Append(tys, eq.ty)]

RECURSIVE UnifyVarVar(_, _, _), UnifyVarTy(_, _, _), EqualTo(_, _, _), EqualParts(_, _, _)
EqualParts(u, ls, rs) ==
    LET before == EqualParts(u, Front(ls), Front(rs))
    IN  IF ls = <<>> THEN [u |-> u, tys |-> <<>>]
        ELSE AddPart(before.tys, EqualTo(before.u, Last(ls), Last(rs)))
EqualTo(u, left, right) ==
    LET Same(ty) == [u |-> u, ty |-> ty]
        Bound(r, var) == [u |-> r.u, ty |-> IF r.ok THEN InferTy(var) ELSE None]
    IN  CASE left.k = "Infer" /\ right.k = "Infer" ->
                 IF VarsEqual(u, left.v, right.v) THEN Same(left)
                 ELSE Bound(UnifyVarVar(u, left.v, right.v), left.v)
          [] left.k = "Infer" /\ right.k # "Infer" ->
                 Bound(UnifyVarTy(u, left.v, right), left.v)
          [] left.k # "Infer" /\ right.k = "Infer" ->
                 Bound(UnifyVarTy(u, right.v, left), right.v)
          [] left.k = "Constr" /\ right.k = "Constr" -> Same(ConjoinConstraints(left.c, right.c))
          [] left.k = "Constr" /\ right.k \notin {"Constr", "Infer"} ->
                 Same(IF Satisfies(right, left.c) THEN right ELSE None)
          [] right.k = "Constr" /\ left.k \notin {"Constr", "Infer"} ->
                 Same(IF Satisfies(left, right.c) THEN left ELSE None)
          [] left.k = right.k /\ left.k \in {"Option", "Tuple"} ->
                 IF Len(left.a) # Len(right.a) THEN Same(None)
                 ELSE Composed(left, EqualParts(u, left.a, right.a))
          [] OTHER -> Same(IF left = right THEN left ELSE None)

(***************************************************************************)
(* Two variables that both have a type get the same one, but stay apart.   *)
(***************************************************************************)
UnifyVarVar(u, l, r) ==
    LET left == Probe(u, l)
        right == Probe(u, r)
    IN  IF left # None /\ right # None
        THEN Bind(EqualTo(u, left, right), {l, r}, CoercesWith(left, right))
        ELSE IF \/ left = None /\ right # None /\ ContainsVar(u, right, l)
                \/ left # None /\ right = None /\ ContainsVar(u, left, r)
        THEN [u |-> u, ok |-> FALSE]
        ELSE [u |-> Join(u, l, r), ok |-> TRUE]
UnifyVarTy(u, var, ty) ==
    IF ty.k = "Infer" THEN UnifyVarVar(u, var, ty.v)
    ELSE IF ContainsVar(u, ty, var) THEN [u |-> u, ok |-> FALSE]
    ELSE IF Probe(u, var) = None THEN [u |-> Concretize(u, {var}, ty), ok |-> TRUE]
    ELSE Bind(EqualTo(u, Probe(u, var), ty), {var}, CoercesWith(Probe(u, var), ty))

(***************************************************************************)
(* A type with the variables replaced.  A class that occurs in its own     *)
(* type has an infinite one, and the code overflows its stack.             *)
(***************************************************************************)
RECURSIVE NormalizeIn(_, _, _)
NormalizeIn(u, ty, path) ==
    CASE ty.k = "Infer" ->
             IF u.rep[ty.v] \in path THEN [k |-> "Infinite"]
             ELSE IF Probe(u, ty.v) = None THEN ty
             ELSE NormalizeIn(u, Probe(u, ty.v), path \cup {u.rep[ty.v]})
      [] ty.k \in {"Tuple", "Option"} ->
             [ty EXCEPT !.a = [i \in DOMAIN @ |-> NormalizeIn(u, @[i], path)]]
      [] OTHER -> ty
NormalizeTy(u, ty) == NormalizeIn(u, ty, {})

-----------------------------------------------------------------------------
(* Signatures.                                                             *)

Signature(generics, parameters, ret) ==
    [generics |-> generics, parameters |-> parameters, ret |-> ret]
Of(c, arity) == Signature(<<c>>, [i \in 1..arity |-> Param(1)], Param(1))

BinOpDecl(op) ==
    CASE op \in {"Add", "Sub", "Mul", "Div", "Rem", "Pow"} -> Of("Numeric", 2)
      [] op \in {"And", "Or"} -> Signature(<<>>, <<Bool, Bool>>, Bool)
      [] op \in {"Eq", "Ne"} -> [Of("Equatable", 2) EXCEPT !.ret = Bool]
      [] op \in {"Lt", "Le", "Ge", "Gt"} -> [Of("Comparable", 2) EXCEPT !.ret = Bool]
      [] op \in {"BitAnd", "BitOr", "BitXor"} -> Of("Integer", 2)
      [] op \in {"Shl", "Shr"} ->
             Signature(<<"Integer", "UnsignedInteger">>, <<Param(1), Param(2)>>, Param(1))
UnOpDecl(op) ==
    CASE op = "Not" -> Signature(<<>>, <<Bool>>, Bool)
      [] op = "Neg" -> Of("Numeric", 1)
      [] op = "BitNot" -> Of("Integer", 1)
FuncDecl(name) ==
    CASE name \in {"sqrt", "cos", "sin", "arctan"} -> Of("FloatingPoint", 1)
      [] name = "abs" -> Of("Numeric", 1)
      [] name \in {"min", "max"} -> Of("Numeric", 2)
      [] name = "cast" -> Signature(<<"Numeric", "Numeric">>, <<Param(1)>>, Param(2))
      [] name = "matches" -> Signature(<<>>, <<String, String>>, Bool)
      [] name = "at" -> Signature(<<>>, <<Bytes, UIntTy(64)>>, Option(UIntTy(8)))

(***************************************************************************)
(* The methods of a type, by the imports; the first argument is the base.  *)
(***************************************************************************)
FloatMethods == {Name(f, <<>>) : f \in {"sqrt", "cos", "sin", "abs", "arctan"}}
OrderMethods == {Name(f, <<"_">>) : f \in {"min", "max"}}
Matches == Name("matches", <<"regex">>)
MathMethods(ty) ==
    CASE ty = FloatTy(16) -> FloatMethods
      [] ty \in {FloatTy(32), FloatTy(64)} -> FloatMethods \cup OrderMethods
      [] ty.k \in {"Int", "UInt"} -> OrderMethods
      [] OTHER -> {}
MethodsOf(ty, imports) ==
    (IF ty = Bytes THEN {Name("at", <<"index">>)} ELSE {}) \cup
    (IF "math" \in imports THEN MathMethods(ty) ELSE {}) \cup
    (IF "regex" \in imports /\ ty.k \in {"String", "Bytes"} THEN {Matches} ELSE {})
MethodDecl(ty, fn) ==
    IF fn = Matches THEN Signature(<<>>, <<ty, String>>, Bool) ELSE FuncDecl(fn.name)

-----------------------------------------------------------------------------
(* The analysis: the unifier, the variable of every node, the variables of *)
(* the generics of every application, the signatures of the methods found, *)
(* and the errors.  ok tells whether the last rule succeeded; panic, if    *)
(* not empty, why the process ended.                                       *)

Fail(s, what) == [s EXCEPT !.errors = @ \cup {what}, !.ok = FALSE]
Panic(s, what) == [s EXCEPT !.panic = what, !.ok = FALSE]
Then(s, Op(_)) == IF s.ok THEN Op(s) ELSE s
ThenAll(s, Op(_, _), n) ==
    FoldLeft(LAMBDA acc, i : IF acc.ok THEN Op(acc, i) ELSE acc, s, [i \in 1..n |-> i])

LastVar(s) == Len(s.u.rep)
NewVar(s) == [s EXCEPT !.u = AddVar(@)]
NewValueVar(s, id) ==
    IF id \in DOMAIN s.vars THEN Panic(s, "node visited twice")
    ELSE [NewVar(s) EXCEPT !.vars = (id :> LastVar(s) + 1) @@ @]
Unified(s, r) ==
    LET t == [s EXCEPT !.u = r.u] IN IF r.ok THEN t ELSE Fail(t, "type mismatch")
UnifyWith(s, var, ty) ==
    IF ~s.ok THEN s ELSE Unified(s, UnifyVarTy(s.u, var, ty))

(***************************************************************************)
(* A written type is a node of its own.                                    *)
(***************************************************************************)
TypeId(id) == Append(id, 0)
RECURSIVE InferType(_, _, _)
InferType(s, ty, id) ==
    LET fresh == NewValueVar(s, id)
        var == fresh.vars[id]
    IN  IF ~fresh.ok THEN fresh
        ELSE CASE ty.k = "Inferred" -> fresh
               [] ty.k = "Simple" -> UnifyWith(fresh, var, PrimitiveType[ty.name])
               [] ty.k = "Optional" ->
                      LET inner == InferType(fresh, ty.ty, Append(id, 1))
                      IN  UnifyWith(inner, var,
                                    Option(InferTy(inner.vars[Append(id, 1)])))
               [] ty.k = "Tuple" ->
                      LET inner == ThenAll(fresh, LAMBDA t, i :
                                       InferType(t, ty.tys[i], Append(id, i)), Len(ty.tys))
                      IN  UnifyWith(inner, var, TupleTy([i \in DOMAIN ty.tys |->
                                       InferTy(inner.vars[Append(id, i)])]))

LiteralType(l) ==
    CASE l.lit = "Str" -> String
      [] l.lit = "Bool" -> Bool
      [] l.lit = "Num" -> Constr(IF l.point THEN "FloatingPoint"
                                 ELSE IF l.n < 0 THEN "SignedInteger" ELSE "Integer")
InferLiteral(s, var, l) ==
    IF l.lit = "Num" /\ l.unit # "" THEN Fail(s, "unexpected unit")
    ELSE UnifyWith(s, var, LiteralType(l))

-----------------------------------------------------------------------------
(* Expressions.                                                            *)

(***************************************************************************)
(* An application of an operator, a function or a method.  The base of a   *)
(* method has been visited.                                                *)
(***************************************************************************)
RECURSIVE InferExpression(_, _, _, _)
InferApplication(s, id, decl, tys, kids) ==
    LET generics == [i \in DOMAIN decl.generics |-> LastVar(s) + i]
        Generic(t, i) == UnifyWith(NewVar(t), generics[i], Constr(decl.generics[i]))
        Given(t, i) == UnifyWith(t, generics[i], InferTy(t.vars[TypeId(id) \o <<i>>]))
        Replace(ty) == ReplaceParams(ty, [i \in DOMAIN generics |-> InferTy(generics[i])])
        Argument(t, i) ==
            LET kid == Append(id, i)
                ty == Replace(decl.parameters[i])
            IN  IF kid \in DOMAIN t.vars THEN UnifyWith(t, t.vars[kid], ty)
                ELSE InferExpression(t, kids[i], kid, ty)
        instantiated == ThenAll(ThenAll(s, Generic, Len(generics)), Given, Len(tys))
        applied == ThenAll(instantiated, Argument, Len(kids))
        returned == UnifyWith(applied, s.vars[id], Replace(decl.ret))
    IN  IF Len(tys) > Len(generics) THEN Panic(s, "more types than generics")
        ELSE Then(returned, LAMBDA t : [t EXCEPT !.funs = (id :> generics) @@ @])

InferTypes(s, tys, id) ==
    ThenAll(s, LAMBDA t, i : InferType(t, tys[i], TypeId(id) \o <<i>>), Len(tys))

(***************************************************************************)
(* An output with parameters is applied like a function.                   *)
(***************************************************************************)
OutputDecl(s, out) ==
    Signature(<<>>, [i \in 1..s.arity[out] |-> InferTy(s.vars[TypeId(ParamId(out, i))])],
              InferTy(s.vars[out]))
AppliedDecl(s, e, id) ==
    CASE e.k = "Unary" -> UnOpDecl(e.op)
      [] e.k = "Binary" -> BinOpDecl(e.op)
      [] e.k = "Function" -> IF s.decls[id].k = "Func" THEN FuncDecl(s.decls[id].fn.name)
                             ELSE OutputDecl(s, s.decls[id].id)
InferFunction(s, e, id) ==
    LET decl == AppliedDecl(s, e, id)
        tys == IF e.k = "Function" THEN e.tys ELSE <<>>
    IN  IF Len(e.kids) # Len(decl.parameters) THEN Fail(s, "number of arguments")
        ELSE Then(InferTypes(s, tys, id),
                  LAMBDA t : InferApplication(t, id, decl, tys, e.kids))

(***************************************************************************)
(* A method is looked up by the type that is known of its base now, so a   *)
(* literal or a constraint has none.                                       *)
(***************************************************************************)
InferMethodOf(based, e, id) ==
    LET ty == Probe(based.u, based.vars[Append(id, 1)])
        Report(t, what) == [t EXCEPT !.errors = @ \cup {what}]
    IN  IF ~based.ok THEN based
        ELSE IF ty = None THEN Report(based, "could not determine type")
        ELSE IF e.fn \notin MethodsOf(ty, based.imports) THEN Report(based, "unknown method")
        ELSE LET decl == MethodDecl(ty, e.fn)
                 applied == Then(InferTypes(based, e.tys, id), LAMBDA t :
                                InferApplication(t, id, decl, e.tys, e.kids))
             IN  Then(applied, LAMBDA t :
                     [t EXCEPT !.methods = (id :> decl) @@ @])
InferMethod(s, e, id) ==
    InferMethodOf(InferExpression(s, e.kids[1], Append(id, 1), None), e, id)

(***************************************************************************)
(* An access whose value has another type than the node: target is a new   *)
(* variable for it.                                                        *)
(***************************************************************************)
IsOptional(e) == e.k = "StreamAccess" \/ (IF e.off.k = "Discrete" THEN e.off.n # 0
                                          ELSE e.off.r[1] < 0)
InferAccess(s, e, id) ==
    LET target == InferTy(LastVar(s) + 1)
        constrained == UnifyWith(NewVar(s), s.vars[id],
                                 IF IsOptional(e) THEN Option(target) ELSE target)
    IN  Then(constrained, LAMBDA t : InferExpression(t, e.kids[1], Append(id, 1), target))

(***************************************************************************)
(* If the stream of a sum is not numeric, its node is visited again, which *)
(* an assertion forbids.                                                   *)
(***************************************************************************)
Aggregated ==
    [Count |-> None, Sum |-> Constr("Numeric"), Product |-> Constr("Numeric"),
     Min |-> Constr("Numeric"), Max |-> Constr("Numeric"), Average |-> Constr("Numeric"),
     Integral |-> Constr("Numeric"), Disjunction |-> Bool, Conjunction |-> Bool]
AggregateTy(e, inner) ==
    LET Waiting(ty) == IF e.wait THEN Option(ty) ELSE ty
    IN  CASE e.agg = "Count" -> Waiting(Constr("UnsignedInteger"))
          [] e.agg \in {"Sum", "Product"} -> Waiting(inner)
          [] e.agg \in {"Min", "Max", "Average"} -> Option(inner)
          [] e.agg \in {"Disjunction", "Conjunction"} -> Waiting(Bool)
          [] e.agg = "Integral" -> Waiting(Constr("FloatingPoint"))
InferWindow(s, e, id) ==
    LET kid == Append(id, 1)
        Inner(t, target) == InferExpression(t, e.kids[1], kid, target)
        OrBool(t) == IF t.ok \/ t.panic # "" \/ e.agg \notin {"Sum", "Product"} THEN t
                     ELSE Inner([t EXCEPT !.ok = TRUE, !.u = s.u], Bool)
        Result(t) == UnifyWith(t, t.vars[id], AggregateTy(e, InferTy(t.vars[kid])))
    IN  Then(OrBool(Inner(s, Aggregated[e.agg])), Result)

InferFieldOf(based, e, id) ==
    LET ty == NormalizeTy(based.u, InferTy(based.vars[Append(id, 1)]))
    IN  IF ~based.ok THEN based
        ELSE IF Probe(based.u, based.vars[Append(id, 1)]) = None
             THEN [based EXCEPT !.ok = FALSE]
        ELSE IF ty.k # "Tuple" THEN Fail(based, "unknown field")
        ELSE IF e.index >= Len(ty.a) THEN Fail(based, "tuple position")
        ELSE UnifyWith(based, based.vars[id], ty.a[e.index + 1])
InferField(s, e, id) ==
    InferFieldOf(InferExpression(s, e.kids[1], Append(id, 1), None), e, id)

InferIdent(s, id) ==
    LET decl == s.decls[id]
    IN  IF decl.k = "ParamOut" THEN Panic(s, "unreachable: ParamOut")
        ELSE UnifyWith(s, s.vars[id], InferTy(s.vars[decl.id]))

(***************************************************************************)
(* infer_expression: the type that the context expects, then the rule of   *)
(* the expression.                                                         *)
(***************************************************************************)
InferKind(s, e, id, target) ==
    LET self == InferTy(s.vars[id])
        Kid(t, i, ty) == InferExpression(t, e.kids[i], Append(id, i), ty)
        elements == ThenAll(s, LAMBDA t, i : Kid(t, i, None), Len(e.kids))
    IN  IF ~s.ok THEN s
        ELSE CASE e.k = "Lit" -> InferLiteral(s, s.vars[id], e.lit)
               [] e.k = "Ident" -> InferIdent(s, id)
               [] e.k = "Missing" -> s
               [] e.k \in {"StreamAccess", "Offset"} -> InferAccess(s, e, id)
               [] e.k = "Window" -> InferWindow(s, e, id)
               [] e.k = "Default" ->
                      Then(Kid(s, 1, Option(self)), LAMBDA t : Kid(t, 2, self))
               [] e.k = "Ite" ->
                      Then(Then(Kid(s, 1, Bool), LAMBDA t : Kid(t, 2, self)),
                           LAMBDA t : Kid(t, 3, self))
               [] e.k \in {"Unary", "Binary", "Function"} -> InferFunction(s, e, id)
               [] e.k = "Method" -> InferMethod(s, e, id)
               [] e.k = "Paren" ->
                      Then(Kid(s, 1, target), LAMBDA t :
                          UnifyWith(t, t.vars[id], InferTy(t.vars[Append(id, 1)])))
               [] e.k = "Tuple" ->
                      Then(elements, LAMBDA t : UnifyWith(t, t.vars[id],
                          TupleTy([i \in DOMAIN e.kids |-> InferTy(t.vars[Append(id, i)])])))
               [] e.k = "Field" -> InferField(s, e, id)
InferExpression(s, e, id, target) ==
    LET Expect(t) == IF target = None THEN t ELSE UnifyWith(t, t.vars[id], target)
    IN  InferKind(Then(NewValueVar(s, id), Expect), e, id, target)

-----------------------------------------------------------------------------
(* The steps of the inference, a declaration at a time.                    *)

VARIABLE inference

Start(imports, decls, arity) ==
    [u |-> EmptyUnifier, vars |-> [id \in {} |-> 0], funs |-> [id \in {} |-> <<>>],
     methods |-> [id \in {} |-> None], imports |-> imports, decls |-> decls,
     arity |-> arity, errors |-> {}, ok |-> TRUE, panic |-> ""]
Begin(s) == [s EXCEPT !.ok = TRUE]

TypedNode(s, ty, id) == \* the declaration id gets the type that is written
    Then(InferType(NewValueVar(s, id), ty, TypeId(id)), LAMBDA t :
        UnifyWith(t, t.vars[id], InferTy(t.vars[TypeId(id)])))
TypedParams(s, params, decl) ==
    ThenAll(s, LAMBDA t, i : TypedNode(t, params[i].ty, ParamId(decl, i)), Len(params))

InferConstant(constant, i) ==
    LET id == ConstantId(i)
    IN  inference' = Then(TypedNode(Begin(inference), constant.ty, id),
                          LAMBDA t : InferLiteral(t, t.vars[id], constant.lit))

InferInput(input, i) ==
    LET typed == TypedParams(TypedNode(Begin(inference), input.ty, InputId(i)),
                             input.params, InputId(i))
    IN  inference' = IF typed.ok /\ input.params # <<>>
                     THEN Panic(typed, "parametric inputs") ELSE typed

InferOutput(output, i) ==
    inference' = TypedParams(TypedNode(Begin(inference), output.ty, OutputId(i)),
                             output.params, OutputId(i))

InferOutputExpression(output, i) ==
    LET id == OutputId(i)
        whole == [e |-> output.expr, id |-> ExpressionId(id),
                  ty |-> InferTy(inference.vars[id])]
        close == [e |-> output.termination, id |-> TerminationId(id), ty |-> Bool]
        all == IF output.termination = None THEN <<whole>> ELSE <<close, whole>>
    IN  inference' = ThenAll(Begin(inference), LAMBDA t, n :
                         InferExpression(t, all[n].e, all[n].id, all[n].ty), Len(all))

InferTriggerExpression(trigger, i) ==
    LET id == TriggerId(i)
        typed == NewValueVar(Begin(inference), id)
        bool == UnifyWith(typed, typed.vars[id], Bool)
    IN  inference' = InferExpression(bool, trigger.expr, ExpressionId(id),
                                     InferTy(bool.vars[id]))

-----------------------------------------------------------------------------
(* The result.                                                             *)

(***************************************************************************)
(* The type of a node: one that nothing is known of is an error type.      *)
(***************************************************************************)
GetType(s, id) ==
    IF id \notin DOMAIN s.vars \/ Probe(s.u, s.vars[id]) = None THEN Error
    ELSE ReplaceConstr(NormalizeTy(s.u, InferTy(s.vars[id])))
GenericType(s, var) ==
    IF Probe(s.u, var) = None THEN Error
    ELSE ReplaceConstr(NormalizeTy(s.u, InferTy(var)))

TypeTable(s) ==
    [types |-> [id \in DOMAIN s.vars |-> GetType(s, id)],
     funs |-> [id \in DOMAIN s.funs |->
                  [i \in DOMAIN s.funs[id] |-> GenericType(s, s.funs[id][i])]],
     methods |-> s.methods]
ExtractionPanics(table) == \E id \in DOMAIN table.types : ~IsConcrete(table.types[id])

LargestSigned(w) == 2^(Bits[w] - 1) - 1
Fits(n, ty) ==
    CASE ty.k = "Int" -> n \in -LargestSigned(ty.w) - 1 .. LargestSigned(ty.w)
      [] ty.k = "UInt" -> n \in 0 .. 2^Bits[ty.w] - 1
      [] OTHER -> TRUE

(***************************************************************************)
(* Only the literals of outputs and triggers are looked at.                *)
(***************************************************************************)
LiteralSizesFit(s, e, id) ==
    \A n \in Nodes(e, id) :
        (n.e.k = "Lit" /\ n.e.lit.lit = "Num" /\ n.e.lit.unit = "" /\ ~n.e.lit.point)
            => LET ty == GetType(s, n.id)
               IN  IF n.e.lit.hasExp THEN ty.k \notin {"Int", "UInt"} ELSE Fits(n.e.lit.n, ty)
=============================================================================

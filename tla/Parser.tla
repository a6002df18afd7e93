------------------------------- MODULE Parser -------------------------------
(***************************************************************************)
(* The parser (frontend/src/parse.rs): from what the grammar yields (pest  *)
(* pairs) to the abstract syntax; and the way back, ast/print.rs.          *)
(*                                                                         *)
(* The pairs of an expression are its terms and the infix operators        *)
(* between them, in turn; a term is a record with the rule it matches.     *)
(* Rules that only wrap another are left out.                              *)
(***************************************************************************)
EXTENDS Ast, FiniteSets

-----------------------------------------------------------------------------
(* Terms.                                                                  *)

Term(rule) == [rule |-> rule]
LiteralTerm(l) == [rule |-> "Literal", lit |-> l]
IntegerTerm(n) == [rule |-> "IntegerLiteral", n |-> n]
IdentTerm(name) == [rule |-> "Ident", name |-> name]
ParenTerm(pairs, closed) == [rule |-> "Paren", pairs |-> pairs, closed |-> closed]
UnaryTerm(op, term) == [rule |-> "Unary", op |-> op, term |-> term]
TernaryTerm(c, t, e) == [rule |-> "Ternary", args |-> <<c, t, e>>]
TupleTerm(args) == [rule |-> "Tuple", args |-> args]
CallTerm(fn, tys, args) ==
    [rule |-> "FunctionExpr", fn |-> fn, tys |-> tys, args |-> args]

-----------------------------------------------------------------------------
(* PREC_CLIMBER: from loosest to tightest.                                 *)

Levels == <<{"Or"}, {"And"}, {"BitOr"}, {"BitXor"}, {"BitAnd"}, {"Eq", "Ne"},
            {"Lt", "Le", "Gt", "Ge"}, {"Shl", "Shr"}, {"Add", "Sub"},
            {"Mul", "Div", "Rem"}, {"Pow"}, {"Dot"}, {"Bracket"}>>
RightAssociative == {"Pow"}
BinaryOps == UNION {Levels[n] : n \in 1..11}
LevelOf(op) == CHOOSE n \in DOMAIN Levels : op \in Levels[n]

(***************************************************************************)
(* The operator that is applied last.                                      *)
(***************************************************************************)
Loosest(pairs) ==
    LET ops == {i \in DOMAIN pairs : i % 2 = 0}
        loose == {i \in ops : \A j \in ops : LevelOf(pairs[i]) <= LevelOf(pairs[j])}
        right == \A i \in loose : pairs[i] \in RightAssociative
    IN  CHOOSE i \in loose :
            \A j \in loose : IF right THEN i <= j ELSE i >= j

-----------------------------------------------------------------------------
(* Building expressions.                                                   *)

(***************************************************************************)
(* An error in the middle of an expression ends the process.               *)
(***************************************************************************)
Exit == [k |-> "Exit", kids |-> <<>>]
Exits(e) == \E n \in Nodes(e, <<>>) : n.e.k = "Exit"

AggregationOf ==
    [sum |-> "Sum", count |-> "Count", integral |-> "Integral", avg |-> "Average",
     average |-> "Average", min |-> "Min", max |-> "Max", exists |-> "Disjunction",
     disjunction |-> "Disjunction", forall |-> "Conjunction",
     conjunction |-> "Conjunction"]

OffsetBy(inner, arg) ==
    LET off == ParseOffset(arg) IN IF off = None THEN Exit ELSE Offset(inner, off)

Aggregate(inner, duration, fun, wait) ==
    IF fun.k = "Ident" /\ fun.name \in DOMAIN AggregationOf
    THEN Window(inner, duration, wait, AggregationOf[fun.name])
    ELSE Exit

(***************************************************************************)
(* A method call: the names of the built-in accesses, with the names of    *)
(* their arguments, are not methods.                                       *)
(***************************************************************************)
BuildMethod(inner, call) ==
    LET args == call.kids
    IN  CASE call.fn = Name("defaults", <<"to">>) -> Default(inner, args[1])
          [] call.fn = Name("offset", <<"by">>) -> OffsetBy(inner, args[1])
          [] call.fn = Name("hold", <<>>) -> StreamAccess(inner, "Hold")
          [] call.fn = Name("hold", <<"or">>) ->
                 Default(StreamAccess(inner, "Hold"), args[1])
          [] call.fn = Name("get", <<>>) -> StreamAccess(inner, "Optional")
          [] call.fn = Name("aggregate", <<"over", "using">>) ->
                 Aggregate(inner, args[1], args[2], FALSE)
          [] call.fn = Name("aggregate", <<"over_exactly", "using">>) ->
                 Aggregate(inner, args[1], args[2], TRUE)
          [] OTHER -> Method(inner, call.fn, call.tys, args)

(***************************************************************************)
(* The unary operator of the left side, if it has one, bubbles up, for it  *)
(* was taken into the term before the climber saw the operator.            *)
(***************************************************************************)
Bubble(lhs, Apply(_)) ==
    IF lhs.k = "Unary" THEN Unary(lhs.op, Apply(lhs.kids[1])) ELSE Apply(lhs)

ReduceDot(lhs, rhs) ==
    CASE rhs.k = "Lit" /\ rhs.lit.lit = "Num" ->
             Bubble(lhs, LAMBDA inner : Field(inner, rhs.lit))
      [] rhs.k = "Function" -> Bubble(lhs, LAMBDA inner : BuildMethod(inner, rhs))
      [] OTHER -> Exit
BracketAroundPrefix(lhs, rhs) == OffsetBy(lhs, rhs) \* wrong variant: binds weaker
ReduceBracket(lhs, rhs) == Bubble(lhs, LAMBDA inner : OffsetBy(inner, rhs))
Infix(lhs, op, rhs) ==
    CASE op = "Dot" -> ReduceDot(lhs, rhs)
      [] op = "Bracket" -> ReduceBracket(lhs, rhs)
      [] OTHER -> Binary(op, lhs, rhs)

RECURSIVE BuildTerm(_), BuildExpression(_)
BuildExpression(pairs) ==
    IF Len(pairs) = 1 THEN BuildTerm(pairs[1])
    ELSE LET i == Loosest(pairs)
         IN  Infix(BuildExpression(SubSeq(pairs, 1, i - 1)), pairs[i],
                   BuildExpression(SubSeq(pairs, i + 1, Len(pairs))))
BuildTerm(t) ==
    LET Built(args) == [i \in DOMAIN args |-> BuildExpression(args[i])]
    IN  CASE t.rule = "Literal" -> Lit(t.lit)
          [] t.rule = "IntegerLiteral" -> Lit(Num(t.n))
          [] t.rule = "Ident" -> Ident(t.name)
          [] t.rule = "Paren" -> Paren(BuildExpression(t.pairs), t.closed)
          [] t.rule = "Unary" /\ t.op = "Plus" -> BuildTerm(t.term)
          [] t.rule = "Unary" /\ t.op # "Plus" -> Unary(t.op, BuildTerm(t.term))
          [] t.rule = "Ternary" ->
                 Ite(BuildExpression(t.args[1]), BuildExpression(t.args[2]),
                     BuildExpression(t.args[3]))
          [] t.rule = "Tuple" -> Tuple(Built(t.args))
          [] t.rule = "FunctionExpr" -> Function(t.fn, t.tys, Built(t.args))
          [] t.rule = "Missing" -> Missing

-----------------------------------------------------------------------------
(* Declarations.                                                           *)

(***************************************************************************)
(* The grammar tries a name before "_", so an explicitly inferred type is  *)
(* a simple type of that name.                                             *)
(***************************************************************************)
RECURSIVE ParseType(_)
ParseType(pair) ==
    CASE pair.rule = "Ident" -> Simple(pair.name)
      [] pair.rule = "Optional" -> Optional(Simple(pair.name))
      [] pair.rule = "Tuple" ->
             Tuples([i \in DOMAIN pair.tys |-> ParseType(pair.tys[i])])
ParseOptType(pair) == IF pair = None THEN Inferred ELSE ParseType(pair)
BuildOptional(pairs) == IF pairs = <<>> THEN None ELSE BuildExpression(pairs)

(***************************************************************************)
(* A list of parameters may be left out, <<>>, or be written and be empty. *)
(***************************************************************************)
ParseParameterList(params) ==
    [i \in DOMAIN params |->
        [name |-> params[i].name, ty |-> ParseOptType(params[i].ty)]]
ParseParameters(lists) ==
    IF lists = <<>> THEN <<>> ELSE ParseParameterList(lists[1])

ParseOutput(pair) ==
    [name |-> pair.name, ty |-> ParseOptType(pair.ty),
     params |-> ParseParameters(pair.params),
     extend |-> BuildOptional(pair.extend),
     termination |-> BuildOptional(pair.termination),
     expr |-> BuildExpression(pair.expr)]

(***************************************************************************)
(* A trigger has no name: the grammar knows none.                          *)
(***************************************************************************)
ParseTrigger(pair) == [name |-> "", expr |-> BuildExpression(pair.expr)]

(***************************************************************************)
(* What the parser reports itself.  Where parameters are disabled, it      *)
(* points to the first one of the list, and panics if that is empty.       *)
(***************************************************************************)
HasParameters(pair) == pair.rule \in {"InputStream", "OutputStream"}
ParsePanics(pair, allowParameters) ==
    HasParameters(pair) /\ pair.params = <<<<>>>> /\ ~allowParameters
ParseErrors(pair, allowParameters) ==
    IF HasParameters(pair) THEN
        (IF pair.params # <<>> /\ ~allowParameters
         THEN {"parameterization is disabled"} ELSE {}) \cup
        (IF pair.rule = "OutputStream" /\ pair.termination # <<>> /\
                (ParseParameters(pair.params) = <<>> \/ ~allowParameters)
         THEN {"termination condition"} ELSE {})
    ELSE {}

ParseDeclaration(ast, pair) ==
    CASE pair.rule = "ImportStmt" -> [ast EXCEPT !.imports = Append(@, pair.name)]
      [] pair.rule = "ConstantStream" ->
             [ast EXCEPT !.constants = Append(@,
                 [name |-> pair.name, ty |-> ParseType(pair.ty), lit |-> pair.lit])]
      [] pair.rule = "InputStream" ->
             [ast EXCEPT !.inputs = Append(@,
                 [name |-> pair.name, ty |-> ParseType(pair.ty),
                  params |-> ParseParameters(pair.params)])]
      [] pair.rule = "OutputStream" ->
             [ast EXCEPT !.outputs = Append(@, ParseOutput(pair))]
      [] pair.rule = "Trigger" ->
             [ast EXCEPT !.triggers = Append(@, ParseTrigger(pair))]

(***************************************************************************)
(* The expressions that an AST holds.                                      *)
(***************************************************************************)
Expressions(ast) ==
    UNION {{o.expr, o.extend, o.termination} \ {None} : o \in ToSet(ast.outputs)}
        \cup {t.expr : t \in ToSet(ast.triggers)}

-----------------------------------------------------------------------------
(* Printing.  A method call is written behind its base, a unary operator   *)
(* in front of the first term of its operand.                              *)

RECURSIVE Render(_)
Render(e) ==
    LET Dot(name, args) ==
            Render(e.kids[1]) \o <<"Dot", CallTerm(name, <<>>, args)>>
        Arguments(from) == [i \in 1..Len(e.kids) - from |-> Render(e.kids[i + from])]
        Fraction(r) == IF r[2] = 1 THEN <<LiteralTerm(Quantity(r[1], e.off.unit))>>
                       ELSE <<LiteralTerm(Num(r[1])), "Div",
                              LiteralTerm(Quantity(r[2], e.off.unit))>>
    IN  CASE e.k = "Lit" -> <<LiteralTerm(e.lit)>>
          [] e.k = "Ident" -> <<IdentTerm(e.name)>>
          [] e.k = "Missing" -> <<Term("Missing")>>
          [] e.k = "StreamAccess" ->
                 Dot(Name(IF e.access = "Hold" THEN "hold" ELSE "get", <<>>), <<>>)
          [] e.k = "Default" -> Dot(Name("defaults", <<"to">>), Arguments(1))
          [] e.k = "Offset" ->
                 Dot(Name("offset", <<"by">>),
                     IF e.off.k = "Discrete" THEN <<<<LiteralTerm(Num(e.off.n))>>>>
                     ELSE <<Fraction(e.off.r)>>)
          [] e.k = "Window" ->
                 Dot(Name("aggregate", <<IF e.wait THEN "over_exactly" ELSE "over",
                                         "using">>),
                     <<Render(e.kids[2]), <<IdentTerm(
                        CHOOSE n \in DOMAIN AggregationOf :
                            AggregationOf[n] = e.agg)>>>>)
          [] e.k = "Binary" -> Render(e.kids[1]) \o <<e.op>> \o Render(e.kids[2])
          [] e.k = "Unary" ->
                 LET operand == Render(e.kids[1])
                 IN  <<UnaryTerm(e.op, operand[1])>> \o Tail(operand)
          [] e.k = "Ite" -> <<TernaryTerm(Render(e.kids[1]), Render(e.kids[2]),
                                          Render(e.kids[3]))>>
          [] e.k = "Paren" -> <<ParenTerm(Render(e.kids[1]), e.closed)>>
          [] e.k = "Tuple" -> <<TupleTerm(Arguments(0))>>
          [] e.k = "Field" -> Render(e.kids[1]) \o <<"Dot", IntegerTerm(e.index)>>
          [] e.k = "Function" -> <<CallTerm(e.fn, e.tys, Arguments(0))>>
          [] e.k = "Method" ->
                 Render(e.kids[1]) \o <<"Dot", CallTerm(e.fn, e.tys, Arguments(1))>>
=============================================================================

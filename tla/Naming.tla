------------------------------- MODULE Naming -------------------------------
(***************************************************************************)
(* Verification of the syntax tree (frontend/src/ast/verify.rs) and the    *)
(* naming analysis (frontend/src/analysis/naming.rs), which binds every    *)
(* name to its declaration.                                                *)
(***************************************************************************)
EXTENDS Ast, FiniteSets, Functions

CONSTANTS
    Use64BitOnly, TypeAliases, \* TypeConfig
    Lower                      \* of names with capitals, the name without

-----------------------------------------------------------------------------
(* verify.rs                                                               *)

MissingExpression(e) == e.k = "Missing"
IndirectAccess(e) ==
    e.k \in {"Offset", "Window", "StreamAccess"} /\ e.kids[1].k # "Ident"
InvalidOffset(e) ==
    /\ e.k = "Offset"
    /\ IF e.off.k = "Discrete" THEN e.off.n = 0 ELSE e.off.r[1] >= 0
InvalidDuration(e) ==
    /\ e.k = "Window"
    /\ LET d == ParseDuration(e.kids[2]) IN d = None \/ d.r[1] <= 0

(***************************************************************************)
(* Termination conditions are not looked at.  That an index is a number is *)
(* ensured by the grammar; a missing parenthesis is only warned about.     *)
(***************************************************************************)
VerifiedExpressions(ast) ==
    UNION {{o.expr, o.extend} \ {None} : o \in ToSet(ast.outputs)}
        \cup {t.expr : t \in ToSet(ast.triggers)}
Verify(ast) ==
    LET nodes == UNION {{n.e : n \in Nodes(e, <<>>)} : e \in VerifiedExpressions(ast)}
        Found(Wrong(_), what) == IF \E e \in nodes : Wrong(e) THEN {what} ELSE {}
    IN  Found(MissingExpression, "missing expression") \cup
        Found(IndirectAccess, "operation can be only applied to streams") \cup
        Found(InvalidOffset, "offset") \cup Found(InvalidDuration, "duration")

-----------------------------------------------------------------------------
(* The names that are known from the start.                                *)

KEYWORDS == {"input", "output", "trigger", "import", "type", "self", "include",
             "invoke", "inv", "extend", "ext", "terminate", "ter", "unless", "if",
             "then", "else", "and", "or", "not", "forall", "exists", "any", "true",
             "false", "error"}
LowerCase(name) == IF name \in DOMAIN Lower THEN Lower[name] ELSE name

ReducedPrimitiveTypes == {"Bool", "Int64", "UInt64", "Float64", "String", "Bytes"}
Aliases == {"Int", "UInt", "Float"}
PrimitiveTypes ==
    (IF Use64BitOnly THEN ReducedPrimitiveTypes
     ELSE ReducedPrimitiveTypes \cup {"Int8", "Int16", "Int32", "UInt8", "UInt16",
                                      "UInt32", "Float16", "Float32"})
        \cup (IF TypeAliases THEN Aliases ELSE {})

ImplicitModule == {Name("cast", <<"_">>)}
MathModule ==
    {Name(f, <<"_">>) : f \in {"sqrt", "cos", "sin", "abs", "arctan"}} \cup
    {Name(f, <<"_", "_">>) : f \in {"min", "max"}}
RegexModule == {Name("matches", <<"_", "regex">>)}
ModuleOf == [math |-> MathModule, regex |-> RegexModule]

-----------------------------------------------------------------------------
(* ScopedDecl: a stack of scopes.                                          *)

Declaration(d, id) == [k |-> d, id |-> id]
Func(fn) == [k |-> "Func", fn |-> fn]
EmptyScope == [name \in {} |-> None]

Push(scopes) == Append(scopes, EmptyScope)
AddDecl(scopes, name, decl) ==
    ReplaceAt(scopes, Len(scopes), (name :> decl) @@ Last(scopes))
InnermostScope(depths) == CHOOSE d \in depths : \A e \in depths : d >= e
GetDecl(scopes, name) ==
    LET depths == {d \in DOMAIN scopes : name \in DOMAIN scopes[d]}
    IN  IF depths = {} THEN None ELSE scopes[InnermostScope(depths)][name]
IsDeclaredHere(scopes, name) == name \in DOMAIN Last(scopes)

-----------------------------------------------------------------------------
(* The analysis: scopes, the functions that are imported, what every node  *)
(* that names something is bound to, and the errors.                       *)

VARIABLE naming

NoNaming == [scopes |-> <<EmptyScope>>, funs |-> {}, table |-> [id \in {} |-> None],
             errors |-> {}]
Report(n, what) == [n EXCEPT !.errors = @ \cup {what}]
ReportIf(n, condition, what) == IF condition THEN Report(n, what) ELSE n

Declare(n, name, decl) ==
    LET checked == ReportIf(n, LowerCase(name) \in KEYWORDS, "reserved keyword")
    IN  IF IsDeclaredHere(n.scopes, name)
        THEN Report(checked, "defined multiple times")
        ELSE [checked EXCEPT !.scopes = AddDecl(@, name, decl)]

RECURSIVE IsBoundType(_)
IsBoundType(ty) ==
    CASE ty.k = "Simple" -> ty.name \in PrimitiveTypes
      [] ty.k = "Tuple" -> \A part \in ToSet(ty.tys) : IsBoundType(part)
      [] ty.k = "Optional" -> IsBoundType(ty.ty)
      [] ty.k = "Inferred" -> TRUE
CheckType(n, ty) == ReportIf(n, ~IsBoundType(ty), "cannot find type")

ShadowingParam(n, param, id) == \* wrong variant: a later parameter replaces the first
    CheckType([n EXCEPT !.scopes = AddDecl(@, param.name, Declaration("Param", id))],
              param.ty)

(***************************************************************************)
(* A parameter named like a stream is neither reported nor declared.       *)
(***************************************************************************)
CheckParam(n, param, id) ==
    LET declared ==
            IF GetDecl(n.scopes, param.name) = None
            THEN Declare(n, param.name, Declaration("Param", id))
            ELSE ReportIf(n, IsDeclaredHere(n.scopes, param.name), "parameter twice")
    IN  CheckType(declared, param.ty)
CheckParams(n, params, decl) ==
    FoldLeft(LAMBDA m, i : CheckParam(m, params[i], ParamId(decl, i)),
             n, [i \in DOMAIN params |-> i])

(***************************************************************************)
(* What a node that names something is bound to.  An application of a      *)
(* parametric output is written as a function.                             *)
(***************************************************************************)
Binding(n, e) ==
    IF e.k = "Ident" THEN GetDecl(n.scopes, e.name)
    ELSE IF e.fn \in n.funs THEN Func(e.fn)
    ELSE LET out == GetDecl(n.scopes, e.fn.name)
         IN  IF out # None /\ out.k = "ParamOut" THEN out ELSE None

CheckExpression(n, e, id) ==
    LET nodes == Nodes(e, id)
        names == {x \in nodes : x.e.k \in {"Ident", "Function"}}
        bound == {x \in names : Binding(n, x.e) # None}
        generics == UNION {ToSet(x.e.tys) :
                               x \in {y \in nodes : y.e.k \in {"Function", "Method"}}}
        table == [i \in {x.id : x \in bound} |->
                     Binding(n, (CHOOSE x \in bound : x.id = i).e)]
    IN  ReportIf(ReportIf([n EXCEPT !.table = table @@ @],
                          bound # names, "does not exist"),
                 \E ty \in generics : ~IsBoundType(ty), "cannot find type")
CheckOptional(n, e, id) == IF e = None THEN n ELSE CheckExpression(n, e, id)

-----------------------------------------------------------------------------
(* The steps of the analysis, a declaration at a time.                     *)

Import(name) ==
    naming' = IF name \in DOMAIN ModuleOf
              THEN [naming EXCEPT !.funs = @ \cup ModuleOf[name]]
              ELSE Report(naming, "unresolved import")

NameConstant(constant, i) ==
    naming' = CheckType(Declare(naming, constant.name,
                                Declaration("Const", ConstantId(i))), constant.ty)

NameInput(input, i) ==
    LET declared == CheckType(Declare(naming, input.name,
                                      Declaration("In", InputId(i))), input.ty)
        inner == CheckParams([declared EXCEPT !.scopes = Push(@)],
                             input.params, InputId(i))
    IN  naming' = [inner EXCEPT !.scopes = declared.scopes]

NameOutput(output, i) ==
    LET kind == IF output.params = <<>> THEN "Out" ELSE "ParamOut"
    IN  naming' = CheckType(Declare(naming, output.name,
                                    Declaration(kind, OutputId(i))), output.ty)

(***************************************************************************)
(* self is declared last, so only the expression can refer to it.          *)
(***************************************************************************)
CheckOutput(output, i) ==
    LET decl == OutputId(i)
        params == CheckParams([naming EXCEPT !.scopes = Push(@)], output.params, decl)
        extend == CheckOptional(params, output.extend, ExtendId(decl))
        close == CheckOptional(extend, output.termination, TerminationId(decl))
        self == [close EXCEPT !.scopes = AddDecl(@, "self", Declaration("Out", decl))]
        checked == CheckExpression(self, output.expr, ExpressionId(decl))
    IN  naming' = [checked EXCEPT !.scopes = naming.scopes]

(***************************************************************************)
(* The name of a trigger is compared with the streams and the triggers     *)
(* before it, but not declared.                                            *)
(***************************************************************************)
CheckTrigger(triggers, i) ==
    LET name == triggers[i].name
        again == \E j \in 1..i-1 : triggers[j].name = name
        named == IF name = "" THEN naming
                 ELSE ReportIf(naming, again \/ IsDeclaredHere(naming.scopes, name),
                               "defined multiple times")
    IN  naming' = CheckExpression(named, triggers[i].expr,
                                  ExpressionId(TriggerId(i)))
=============================================================================

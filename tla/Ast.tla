-------------------------------- MODULE Ast --------------------------------
(***************************************************************************)
(* The abstract syntax of RTLola (frontend/src/ast.rs), what its literals  *)
(* denote (ast/conversion.rs) and how expressions are traversed.           *)
(*                                                                         *)
(* An expression is a record: its kind, the data of that kind, and its     *)
(* immediate subexpressions, kids.  Spans are left out.  The identity of a *)
(* node (NodeId) is its path from the declaration it is part of, so nodes  *)
(* need not carry it.                                                      *)
(***************************************************************************)
EXTENDS Integers, Sequences, SequencesExt

CONSTANTS
    SmallestInt, LargestInt, \* the bounds of i16, the type of a discrete offset
    LargestRational          \* the largest component of a Rational64

None == [k |-> "None"]

-----------------------------------------------------------------------------
(* Rationals, as reduced pairs.                                            *)

Abs(n) == IF n < 0 THEN -n ELSE n
Common(a, b) == CHOOSE g \in 1..b : /\ Abs(a) % g = 0 /\ b % g = 0
                                    /\ \A h \in g+1..b : Abs(a) % h # 0 \/ b % h # 0
Reduce(n, d) == <<n \div Common(n, d), d \div Common(n, d)>>
Times(q, r) == Reduce(q[1] * r[1], q[2] * r[2])
Reciprocal(q) == IF q[1] < 0 THEN <<-q[2], -q[1]>> ELSE <<q[2], q[1]>>
IsMultiple(q, r) == Times(q, Reciprocal(r))[2] = 1
Below(q, r) == q[1] * r[2] < r[1] * q[2]

-----------------------------------------------------------------------------
(* Literals.                                                               *)

(***************************************************************************)
(* The text of a number is its digits (with the sign, without the point),  *)
(* how many of them follow the point, whether there is a point, and the    *)
(* exponent.                                                               *)
(***************************************************************************)
Decimal(n, decimals, unit) ==
    [lit |-> "Num", n |-> n, decimals |-> decimals, point |-> decimals > 0,
     exp |-> 0, hasExp |-> FALSE, unit |-> unit]
Num(n) == Decimal(n, 0, "")
Quantity(n, unit) == Decimal(n, 0, unit)
Truth(b) == [lit |-> "Bool", b |-> b]
Text(s) == [lit |-> "Str", s |-> s]

IsInteger(l) == l.lit = "Num" /\ ~l.point /\ ~l.hasExp /\ l.unit = ""

(***************************************************************************)
(* An exponent is only found behind a point: 1e3 is no rational, 1.0e3 is. *)
(***************************************************************************)
ParseRational(l) ==
    LET r == IF l.exp < 0 THEN Reduce(l.n, 10^(l.decimals - l.exp))
             ELSE Reduce(l.n * 10^l.exp, 10^l.decimals)
    IN  IF (l.hasExp /\ ~l.point) \/ Abs(r[1]) > LargestRational
                                  \/ r[2] > LargestRational
        THEN None ELSE [k |-> "Rational", r |-> r]

Seconds == [ns |-> <<1, 1000000000>>, us |-> <<1, 1000000>>, ms |-> <<1, 1000>>,
            s |-> <<1, 1>>, min |-> <<60, 1>>, h |-> <<3600, 1>>,
            d |-> <<86400, 1>>, w |-> <<604800, 1>>, a |-> <<31536000, 1>>]
Hertz == [uHz |-> <<1, 1000000>>, mHz |-> <<1, 1000>>, Hz |-> <<1, 1>>,
          kHz |-> <<1000, 1>>, MHz |-> <<1000000, 1>>]

(***************************************************************************)
(* A literal as a number of units, if it has one of the given units.       *)
(***************************************************************************)
Scaled(e, units) ==
    IF e.k # "Lit" \/ e.lit.lit # "Num" \/ e.lit.unit \notin DOMAIN units
    THEN None
    ELSE LET r == ParseRational(e.lit)
         IN  IF r = None THEN None
             ELSE [k |-> "Rational", r |-> Times(r.r, units[e.lit.unit])]

ParseDuration(e) == Scaled(e, Seconds)
ParseFrequency(e) ==
    LET f == Scaled(e, Hertz) IN IF f # None /\ f.r[1] <= 0 THEN None ELSE f
ParseFreqSpec(e) ==
    LET period == ParseDuration(e)
    IN  IF ParseFrequency(e) # None THEN ParseFrequency(e)
        ELSE IF period = None \/ period.r[1] <= 0 THEN None
        ELSE [k |-> "Rational", r |-> Reciprocal(period.r)]

(***************************************************************************)
(* The offset that an argument of offset(by: ...) denotes.                 *)
(***************************************************************************)
Discrete(n) == [k |-> "Discrete", n |-> n]
RealTime(r, unit) == [k |-> "RealTime", r |-> r, unit |-> unit]
ParseOffset(e) ==
    IF e.k # "Lit" \/ e.lit.lit # "Num" THEN None
    ELSE IF IsInteger(e.lit) /\ e.lit.n \in SmallestInt..LargestInt
         THEN Discrete(e.lit.n)
    ELSE IF e.lit.unit \notin DOMAIN Seconds \/ ParseRational(e.lit) = None
         THEN None
    ELSE RealTime(ParseRational(e.lit).r, e.lit.unit)
OffsetSeconds(off) == Times(off.r, Seconds[off.unit])

-----------------------------------------------------------------------------
(* Types as they are written.                                              *)

Simple(name) == [k |-> "Simple", name |-> name]
Tuples(tys) == [k |-> "Tuple", tys |-> tys]
Optional(ty) == [k |-> "Optional", ty |-> ty]
Inferred == [k |-> "Inferred"]

-----------------------------------------------------------------------------
(* Expressions.                                                            *)

Lit(l) == [k |-> "Lit", lit |-> l, kids |-> <<>>]
Ident(name) == [k |-> "Ident", name |-> name, kids |-> <<>>]
Missing == [k |-> "Missing", kids |-> <<>>]
StreamAccess(e, access) == [k |-> "StreamAccess", access |-> access, kids |-> <<e>>]
Default(e, d) == [k |-> "Default", kids |-> <<e, d>>]
Offset(e, off) == [k |-> "Offset", off |-> off, kids |-> <<e>>]
Window(e, duration, wait, agg) ==
    [k |-> "Window", wait |-> wait, agg |-> agg, kids |-> <<e, duration>>]
Binary(op, l, r) == [k |-> "Binary", op |-> op, kids |-> <<l, r>>]
Unary(op, e) == [k |-> "Unary", op |-> op, kids |-> <<e>>]
Ite(c, t, e) == [k |-> "Ite", kids |-> <<c, t, e>>]
Paren(e, closed) == [k |-> "Paren", closed |-> closed, kids |-> <<e>>]
Tuple(es) == [k |-> "Tuple", kids |-> es]
Field(e, l) == [k |-> "Field", index |-> l.n, kids |-> <<e>>]
Name(name, args) == [name |-> name, args |-> args]
Function(fn, tys, es) == [k |-> "Function", fn |-> fn, tys |-> tys, kids |-> es]
Method(e, fn, tys, es) ==
    [k |-> "Method", fn |-> fn, tys |-> tys, kids |-> <<e>> \o es]

(***************************************************************************)
(* The nodes of an expression with their identities, in the order of       *)
(* Expression::iter: a node, then its subexpressions from left to right.   *)
(***************************************************************************)
RECURSIVE Iter(_, _)
Iter(e, id) ==
    <<[id |-> id, e |-> e]>> \o
        FlattenSeq([i \in 1..Len(e.kids) |-> Iter(e.kids[i], Append(id, i))])
Nodes(e, id) == ToSet(Iter(e, id))

-----------------------------------------------------------------------------
(* Declarations.  The identity of a declaration is its kind and position.  *)

ConstantId(i) == <<"constant", i>>
InputId(i) == <<"input", i>>
OutputId(i) == <<"output", i>>
TriggerId(i) == <<"trigger", i>>
ParamId(decl, i) == decl \o <<4, i>>
ExpressionId(decl) == Append(decl, 1)
ExtendId(decl) == Append(decl, 2)
TerminationId(decl) == Append(decl, 3)

EmptyAst == [constants |-> <<>>, inputs |-> <<>>, outputs |-> <<>>,
             triggers |-> <<>>, imports |-> <<>>]
=============================================================================

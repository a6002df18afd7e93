---------------------------- MODULE Expressions ----------------------------
(***************************************************************************)
(* The evaluation of expressions of the IR: values (storage/value.rs), the *)
(* compilation to closures (closuregen.rs) and the interpreter of          *)
(* evaluator.rs.  Integers have Bits[64] bits.  Floats are rationals; what *)
(* a function like sqrt computes, and what follows from an infinite float, *)
(* is left open.                                                           *)
(*                                                                         *)
(* A panic is a value here.  Its reason tells those that the types of the  *)
(* expression should exclude, "kind", from those of an operation that is   *)
(* not defined for the numbers at hand, "arithmetic" (overflow: a debug    *)
(* build), and those of what is not implemented.                           *)
(***************************************************************************)
EXTENDS Ast, FiniteSets, Bitwise

CONSTANT Word \* the number of bits of a u64

-----------------------------------------------------------------------------
(* Values.                                                                 *)

Signed(n) == [v |-> "Signed", n |-> n]
Unsigned(n) == [v |-> "Unsigned", n |-> n]
Float(x) == [v |-> "Float", x |-> x]
Boolean(b) == [v |-> "Bool", b |-> b]
Str(s) == [v |-> "Str", s |-> s]
Octets(s) == [v |-> "Bytes", s |-> s]
TupleValue(vs) == [v |-> "Tuple", vs |-> vs]
NoValue == [v |-> "None"]
Raise(why) == [v |-> "Panic", why |-> why]
KindPanic == Raise("kind")

Smallest == -(2^(Word - 1))
Modulus == 2^Word
Wrap(n) == 
    LET m == n % Modulus IN IF m >= 2^(Word - 1) THEN m - Modulus ELSE m
NewSigned(n) == IF n \in Smallest..(-Smallest - 1) THEN Signed(n) ELSE Raise("arithmetic")
NewUnsigned(n) == IF n \in 0..Modulus - 1 THEN Unsigned(n) ELSE Raise("arithmetic")

Infinite == <<1, 0>>
SomeFloat == Float(<<1, 3>>)
NewFloat(x) == IF x = <<0, 0>> THEN Raise("arithmetic") ELSE Float(x)

(***************************************************************************)
(* Division truncates, and the remainder has the sign of the dividend.     *)
(***************************************************************************)
Sign(n) == IF n < 0 THEN -1 ELSE 1
Quotient(a, b) == Sign(a) * Sign(b) * (Abs(a) \div Abs(b))
Remainder(a, b) == Sign(a) * (Abs(a) % Abs(b))

-----------------------------------------------------------------------------
(* Operations on values.                                                   *)

AreBoth(a, b, kind) == a.v = kind /\ b.v = kind
OnIntegers(a, b, Op(_, _)) ==
    CASE AreBoth(a, b, "Signed") -> NewSigned(Op(a.n, b.n))
      [] AreBoth(a, b, "Unsigned") -> NewUnsigned(Op(a.n, b.n))
      [] OTHER -> KindPanic
OnNumbers(a, b, Op(_, _), FloatOp(_, _)) ==
    IF ~AreBoth(a, b, "Float") THEN OnIntegers(a, b, Op)
    ELSE IF 0 \in {a.x[2], b.x[2]} THEN Float(Infinite)
    ELSE NewFloat(FloatOp(a.x, b.x))
OnBits(a, b, Op(_, _)) ==
    CASE AreBoth(a, b, "Signed") -> Signed(Wrap(Op(a.n % Modulus, b.n % Modulus)))
      [] AreBoth(a, b, "Unsigned") -> Unsigned(Op(a.n, b.n))
      [] OTHER -> KindPanic

Sum2(x, y) == Reduce(x[1] * y[2] + y[1] * x[2], x[2] * y[2])
Negative(x) == <<-x[1], x[2]>>
Add(a, b) == OnNumbers(a, b, LAMBDA m, n : m + n, Sum2)
Sub(a, b) == OnNumbers(a, b, LAMBDA m, n : m - n, LAMBDA x, y : Sum2(x, Negative(y)))
Mul(a, b) == OnNumbers(a, b, LAMBDA m, n : m * n, Times)

IsZero(b) == CASE b.v \in {"Signed", "Unsigned"} -> b.n = 0
               [] b.v = "Float" -> b.x[1] = 0
               [] OTHER -> FALSE
Divided(a, b, Op(_, _), FloatOp(_, _)) ==
    IF a.v = b.v /\ a.v \in {"Signed", "Unsigned"} /\ IsZero(b) THEN Raise("arithmetic")
    ELSE OnNumbers(a, b, Op, FloatOp)
Div(a, b) ==
    Divided(a, b, Quotient,
            LAMBDA x, y : IF y[1] # 0 THEN Times(x, Reciprocal(y))
                          ELSE IF x[1] = 0 THEN <<0, 0>> ELSE Infinite)
FloatRem(x, y) ==
    LET q == Times(x, Reciprocal(y))
    IN  Sum2(x, Negative(Times(<<Quotient(q[1], q[2]), 1>>, y)))
Rem(a, b) == Divided(a, b, Remainder,
                     LAMBDA x, y : IF y[1] = 0 THEN <<0, 0>> ELSE FloatRem(x, y))

(***************************************************************************)
(* The exponent is cut to a u32, so a negative one is huge.                *)
(***************************************************************************)
Power(b, e) ==
    IF b \in {-1, 0, 1} THEN (IF e = 0 THEN 1 ELSE IF e % 2 = 0 THEN b * b ELSE b)
    ELSE IF e \in 0..Word THEN b^e ELSE 2 * Modulus
Pow(a, b) ==
    CASE AreBoth(a, b, "Float") -> SomeFloat
      [] a.v = "Float" /\ b.v = "Signed" -> SomeFloat
      [] OTHER -> OnIntegers(a, b, Power)

BitAnd(a, b) == IF AreBoth(a, b, "Bool") THEN Boolean(a.b /\ b.b)
                ELSE OnBits(a, b, LAMBDA m, n : m & n)
BitOr(a, b) == IF AreBoth(a, b, "Bool") THEN Boolean(a.b \/ b.b)
               ELSE OnBits(a, b, LAMBDA m, n : m | n)
BitXor(a, b) == OnBits(a, b, LAMBDA m, n : m ^^ n)

(***************************************************************************)
(* A shift by as many bits as there are overflows, bits shifted out do     *)
(* not.                                                                    *)
(***************************************************************************)
Shifted(a, b, n) == IF b.n >= Word THEN Raise("arithmetic")
                    ELSE IF a.v = "Signed" THEN Signed(Wrap(n)) ELSE Unsigned(n % Modulus)
Shl(a, b) == IF a.v \in {"Signed", "Unsigned"} /\ b.v = "Unsigned"
             THEN Shifted(a, b, a.n * 2^b.n) ELSE KindPanic
Shr(a, b) == IF a.v \in {"Signed", "Unsigned"} /\ b.v = "Unsigned"
             THEN Shifted(a, b, a.n \div 2^b.n) ELSE KindPanic

Complement(a) == CASE a.v = "Bool" -> Boolean(~a.b)
            [] a.v = "Signed" -> Signed(-a.n - 1)
            [] a.v = "Unsigned" -> Unsigned(Modulus - 1 - a.n)
            [] OTHER -> KindPanic
Neg(a) == CASE a.v = "Signed" -> NewSigned(-a.n)
            [] a.v = "Float" -> Float(Negative(a.x))
            [] OTHER -> KindPanic
AbsOf(a) == CASE a.v = "Signed" -> NewSigned(Abs(a.n))
              [] a.v = "Float" -> Float(<<Abs(a.x[1]), a.x[2]>>)
              [] OTHER -> KindPanic

(***************************************************************************)
(* There is an order on numbers and strings; that of strings is left open. *)
(***************************************************************************)
Less(a, b) ==
    CASE a.v = b.v /\ a.v \in {"Signed", "Unsigned"} -> Boolean(a.n < b.n)
      [] AreBoth(a, b, "Float") -> Boolean(Below(a.x, b.x))
      [] AreBoth(a, b, "Str") -> Boolean(a.s # b.s /\ a.s = CHOOSE s \in {a.s, b.s} : TRUE)
      [] OTHER -> KindPanic
Compare(op, a, b) ==
    CASE op = "Eq" -> Boolean(a = b)
      [] op = "Ne" -> Boolean(a # b)
      [] op = "Lt" -> Less(a, b)
      [] op = "Gt" -> Less(b, a)
      [] op = "Le" -> Complement(Less(b, a))
      [] op = "Ge" -> Complement(Less(a, b))
Select(a, b, second) ==
    LET less == Less(a, b)
    IN  IF less.v = "Panic" \/ a.v = "Str" THEN KindPanic ELSE IF second THEN b ELSE a
MinOf(a, b) == Select(a, b, Less(a, b) = Boolean(FALSE))
MaxOf(a, b) == Select(a, b, Less(a, b) # Boolean(FALSE))

Comparisons == {"Eq", "Ne", "Lt", "Le", "Gt", "Ge"}
BinaryOp(op, a, b) ==
    CASE op \in Comparisons -> Compare(op, a, b)
      [] op = "Add" -> Add(a, b)
      [] op = "Sub" -> Sub(a, b)
      [] op = "Mul" -> Mul(a, b)
      [] op = "Div" -> Div(a, b)
      [] op = "Rem" -> Rem(a, b)
      [] op = "Pow" -> Pow(a, b)
      [] op = "BitAnd" -> BitAnd(a, b)
      [] op = "BitOr" -> BitOr(a, b)
      [] op = "BitXor" -> BitXor(a, b)
      [] op = "Shl" -> Shl(a, b)
      [] op = "Shr" -> Shr(a, b)
UnaryOp(op, a) == IF op = "Neg" THEN Neg(a) ELSE Complement(a)

-----------------------------------------------------------------------------
(* Functions and conversions.                                              *)

FloatFunction(fn, a) ==
    IF a.v # "Float" THEN KindPanic
    ELSE IF fn = "sqrt" /\ a.x[1] < 0 THEN Raise("arithmetic") ELSE SomeFloat

(***************************************************************************)
(* What both ways of evaluation have in common.                            *)
(***************************************************************************)
CallShared(fn, vs) ==
    CASE fn \in {"sqrt", "sin", "cos", "arctan"} -> FloatFunction(fn, vs[1])
      [] fn = "abs" -> AbsOf(vs[1])
      [] fn = "min" -> MinOf(vs[1], vs[2])
      [] fn = "max" -> MaxOf(vs[1], vs[2])

(***************************************************************************)
(* Whether a text matches is left to the regular expressions.              *)
(***************************************************************************)
IsMatch(v, re) == IF v.v = "Str" THEN v.s = re.s ELSE v.s # <<>>
AtIndex(bytes, i) == IF i < Len(bytes) THEN Unsigned(bytes[i + 1]) ELSE NoValue
CallClosure(fn, params, vs) ==
    CASE fn = "matches" ->
             IF vs[1].v = (IF params[1].k = "Bytes" THEN "Bytes" ELSE "Str")
             THEN Boolean(IsMatch(vs[1], vs[2])) ELSE KindPanic
      [] fn = "at" -> IF vs[1].v = "Bytes" /\ vs[2].v = "Unsigned"
                      THEN AtIndex(vs[1].s, vs[2].n) ELSE KindPanic
      [] OTHER -> CallShared(fn, vs)
CallInterpreted(fn, vs) ==
    CASE fn = "matches" ->
             IF vs[1].v = "Str" THEN Boolean(IsMatch(vs[1], vs[2])) ELSE KindPanic
      [] fn = "at" -> KindPanic
      [] OTHER -> CallShared(fn, vs)

KindOf(ty) == [Int |-> "Signed", UInt |-> "Unsigned", Float |-> "Float"][ty.k]
IsNumeric(ty) == ty.k \in {"Int", "UInt", "Float"}
Saturate(n, low, high) == IF n < low THEN low ELSE IF n > high THEN high ELSE n
Truncated(x, low, high) ==
    IF x[2] = 0 THEN high ELSE Saturate(Quotient(x[1], x[2]), low, high)
Converted(v, to) ==
    CASE v.v = KindOf(to) -> v
      [] v.v = "Unsigned" /\ to.k = "Int" -> Signed(Wrap(v.n))
      [] v.v = "Signed" /\ to.k = "UInt" -> Unsigned(v.n % Modulus)
      [] v.v \in {"Signed", "Unsigned"} /\ to.k = "Float" -> Float(<<v.n, 1>>)
      [] v.v = "Float" /\ to.k = "Int" ->
             Signed(Truncated(v.x, Smallest, -Smallest - 1))
      [] v.v = "Float" /\ to.k = "UInt" -> Unsigned(Truncated(v.x, 0, Modulus - 1))

(***************************************************************************)
(* A closure for types of the same kind does not look at the value.        *)
(***************************************************************************)
ConvertClosure(v, from, to) ==
    IF from.k = to.k THEN v ELSE IF v.v = KindOf(from) THEN Converted(v, to) ELSE KindPanic
NotConverted(v, from, to) == v \* wrong variant: the kind of the value stays
ConvertInterpreted(v, from, to) ==
    IF IsNumeric(from) /\ IsNumeric(to) /\ v.v = KindOf(from) THEN Converted(v, to)
    ELSE KindPanic

-----------------------------------------------------------------------------
(* Expressions.                                                            *)

(***************************************************************************)
(* What the lookups find: the value of a stream now; one it had before, or *)
(* none; and that of a window.                                             *)
(***************************************************************************)
Lookup(x, env) ==
    CASE x.k = "WindowLookup" -> env.windows[x.data.window]
      [] x.k = "OffsetLookup" -> env.past[x.data.target]
      [] x.k = "StreamAccess" ->
             IF x.data.kind = "Sync" THEN env.now[x.data.target] ELSE env.past[x.data.target]

IsFuture(x) == x.k = "OffsetLookup" /\ x.data.offset.k = "FutureDiscrete"
UnfixedRegex(x) ==
    x.k = "Function" /\ x.data.fn = "matches" /\ x.args[2].k # "LoadConstant"
RECURSIVE Parts(_)
Parts(x) == {x} \cup UNION {Parts(x.args[i]) : i \in DOMAIN x.args}

(***************************************************************************)
(* What is compiled to closures panics as a whole if a part of it cannot   *)
(* be compiled.                                                            *)
(***************************************************************************)
CompilePanic(x) ==
    IF \E p \in Parts(x) : IsFuture(p) THEN Raise("unimplemented")
    ELSE IF \E p \in Parts(x) : UnfixedRegex(p) THEN Raise("regex")
    ELSE IF \E p \in Parts(x) :
                p.k = "Convert" /\ ~(IsNumeric(p.data.from) /\ IsNumeric(p.data.to))
         THEN Raise("conversion") ELSE NoValue

(***************************************************************************)
(* The first panic among values that are computed in turn.                 *)
(***************************************************************************)
Strict(vs, Op(_)) ==
    LET panics == {i \in DOMAIN vs : vs[i].v = "Panic"}
    IN  IF panics = {} THEN Op(vs) ELSE vs[CHOOSE i \in panics : \A j \in panics : i <= j]

RECURSIVE Evaluate(_, _, _)
Lazy(x, env, engine, stop) ==
    LET left == Evaluate(x.args[1], env, engine)
        right == Evaluate(x.args[2], env, engine)
    IN  IF left.v = "Panic" THEN left
        ELSE IF left.v # "Bool" THEN KindPanic
        ELSE IF left.b = stop THEN left
        ELSE IF engine = "closures" /\ right.v \notin {"Bool", "Panic"} THEN KindPanic
        ELSE right
ArithLog(x, env, engine) ==
    IF x.data.op = "And" THEN Lazy(x, env, engine, FALSE)
    ELSE IF x.data.op = "Or" THEN Lazy(x, env, engine, TRUE)
    ELSE Strict([i \in DOMAIN x.args |-> Evaluate(x.args[i], env, engine)],
                LAMBDA vs : IF Len(vs) = 1 THEN UnaryOp(x.data.op, vs[1])
                            ELSE BinaryOp(x.data.op, vs[1], vs[2]))
Branch(x, env, engine) ==
    LET condition == Evaluate(x.args[1], env, engine)
    IN  IF condition.v = "Panic" THEN condition
        ELSE IF condition.v # "Bool" THEN KindPanic
        ELSE Evaluate(IF condition.b THEN x.args[2] ELSE x.args[3], env, engine)
OrElse(x, env, engine) ==
    LET found == Evaluate(x.args[1], env, engine)
    IN  IF found = NoValue THEN Evaluate(x.args[2], env, engine) ELSE found

(***************************************************************************)
(* CompiledExpr::execute and ExpressionEvaluator::eval_expr.               *)
(***************************************************************************)
Evaluate(x, env, engine) ==
    LET values == [i \in DOMAIN x.args |-> Evaluate(x.args[i], env, engine)]
        First(Op(_)) == Strict(values, LAMBDA vs : Op(vs[1]))
    IN  CASE x.k = "LoadConstant" -> x.data
          [] x.k = "ArithLog" -> ArithLog(x, env, engine)
          [] x.k \in {"StreamAccess", "OffsetLookup", "WindowLookup"} ->
                 IF IsFuture(x) THEN Raise("unimplemented") ELSE Lookup(x, env)
          [] x.k = "Ite" -> Branch(x, env, engine)
          [] x.k = "Default" -> OrElse(x, env, engine)
          [] x.k = "Tuple" -> Strict(values, TupleValue)
          [] x.k = "TupleAccess" ->
                 First(LAMBDA v : IF v.v = "Tuple" THEN v.vs[x.data.index + 1] ELSE KindPanic)
          [] x.k = "Function" ->
                 IF UnfixedRegex(x) THEN Raise("regex")
                 ELSE Strict(values, LAMBDA vs :
                     IF engine = "closures" THEN CallClosure(x.data.fn, x.data.fun.params, vs)
                     ELSE CallInterpreted(x.data.fn, vs))
          [] x.k = "Convert" ->
                 First(LAMBDA v :
                     IF engine = "closures" THEN ConvertClosure(v, x.data.from, x.data.to)
                     ELSE ConvertInterpreted(v, x.data.from, x.data.to))

Execute(x, env) ==
    IF CompilePanic(x) # NoValue THEN CompilePanic(x) ELSE Evaluate(x, env, "closures")
EvalExpr(x, env) == Evaluate(x, env, "interpreter")
=============================================================================

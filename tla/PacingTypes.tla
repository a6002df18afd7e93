---------------------------- MODULE PacingTypes ----------------------------
(***************************************************************************)
(* When a stream is evaluated: the pacing types of frontend/src/ty.rs, and *)
(* how ty/check.rs annotates, infers, concretises and checks them, and     *)
(* normalises an activation condition to the inputs.                       *)
(*                                                                         *)
(* decls is what the naming analysis bound the nodes to, tys the pacing    *)
(* type of every stream, by the identity of its declaration.               *)
(***************************************************************************)
EXTENDS Ast, FiniteSets, Functions

-----------------------------------------------------------------------------
(* Activation conditions.                                                  *)

True == [k |-> "True"]
Stream(id) == [k |-> "Stream", id |-> id]
Conjunction(args) == [k |-> "Conjunction", args |-> args]
Disjunction(args) == [k |-> "Disjunction", args |-> args]
IsNary(ac) == ac.k \in {"Conjunction", "Disjunction"}

(***************************************************************************)
(* Whether left -> right is found to be valid: less than implication.      *)
(***************************************************************************)
ImpliesArms(left, right) == \* wrong variant: a disjunction implies each of its arms
    left = right \/ right = True \/ (IsNary(left) /\ right \in ToSet(left.args))
ImpliesValid(left, right) ==
    \/ left = right
    \/ IF left.k = "Conjunction"
       THEN IF right.k = "Conjunction"
            THEN ToSet(right.args) \subseteq ToSet(left.args)
            ELSE right \in ToSet(left.args)
       ELSE right = True

(***************************************************************************)
(* Only a True on the left disappears.                                     *)
(***************************************************************************)
Both(left, right) ==
    CASE left = True -> right
      [] left.k = "Conjunction" /\ right.k = "Conjunction" ->
             Conjunction(left.args \o right.args)
      [] left.k = "Conjunction" /\ right.k # "Conjunction" ->
             Conjunction(Append(left.args, right))
      [] left.k # "Conjunction" /\ left # True /\ right.k = "Conjunction" ->
             Conjunction(Append(right.args, left))
      [] OTHER -> Conjunction(<<left, right>>)

(***************************************************************************)
(* The arguments are sorted, True being the last, and repetitions removed. *)
(***************************************************************************)
Sorted(args) ==
    SetToSeq(ToSet(args) \ {True}) \o (IF Contains(args, True) THEN <<True>> ELSE <<>>)

-----------------------------------------------------------------------------
(* Stream types.                                                           *)

Event(ac) == [k |-> "Event", ac |-> ac]
Periodic(f) == [k |-> "RealTime", f |-> f]
Infer(ids) == [k |-> "Infer", ids |-> ids]

GreatestCommon(a, b) == CHOOSE g \in 1..a : /\ a % g = 0 /\ b % g = 0
                                            /\ \A h \in g+1..a : a % h # 0 \/ b % h # 0
LeastCommon(a, b) == (a \div GreatestCommon(a, b)) * b
FreqConjunction(f, g) == <<GreatestCommon(f[1], g[1]), LeastCommon(f[2], g[2])>>
IsMultipleOf(f, g) == ~Below(f, g) /\ IsMultiple(f, g)

(***************************************************************************)
(* A stream of type left may read one of type right synchronously.         *)
(***************************************************************************)
IsValid(left, right) ==
    CASE left.k = "RealTime" /\ right.k = "RealTime" -> IsMultipleOf(right.f, left.f)
      [] left.k = "Event" /\ right.k = "Event" -> ImpliesValid(left.ac, right.ac)
      [] OTHER -> FALSE

Simplify(ty) ==
    CASE ty.k = "Event" /\ ty.ac = Conjunction(<<>>) -> Event(True)
      [] ty.k = "Event" /\ IsNary(ty.ac) /\ ty.ac.args # <<>> ->
             Event([ty.ac EXCEPT !.args = Sorted(@)])
      [] OTHER -> ty

-----------------------------------------------------------------------------
(* The annotation of an output, as a pacing type or None.                  *)

RECURSIVE ActivationOf(_, _, _, _)
ActivationOf(decls, self, e, id) ==
    CASE e.k = "Ident" ->
             IF decls[id].k \in {"In", "Out"} /\ decls[id].id # self
             THEN Stream(decls[id].id) ELSE None
      [] e.k = "Binary" ->
             LET left == ActivationOf(decls, self, e.kids[1], Append(id, 1))
                 right == ActivationOf(decls, self, e.kids[2], Append(id, 2))
             IN  IF None \in {left, right} \/ e.op \notin {"And", "Or"} THEN None
                 ELSE IF e.op = "And" THEN Conjunction(<<left, right>>)
                 ELSE Disjunction(<<left, right>>)
      [] e.k = "Paren" -> ActivationOf(decls, self, e.kids[1], Append(id, 1))
      [] OTHER -> None

ParseAtExpression(decls, self, e) ==
    IF e.k = "Lit" THEN LET f == ParseFreqSpec(e)
                        IN  IF f = None THEN None ELSE Periodic(f.r)
    ELSE LET ac == ActivationOf(decls, self, e, ExtendId(self))
         IN  IF ac = None THEN None ELSE Event(ac)

-----------------------------------------------------------------------------
(* The streams an expression reads synchronously.                          *)

RECURSIVE SyncReads(_, _, _)
SyncReads(decls, e, id) ==
    CASE e.k \in {"StreamAccess", "Window"} -> <<>>
      [] e.k = "Ident" -> IF decls[id].k \in {"In", "Out"} THEN <<decls[id].id>>
                          ELSE <<>>
      [] OTHER -> FlattenSeq([i \in DOMAIN e.kids |->
                                 SyncReads(decls, e.kids[i], Append(id, i))])

InferOutputClock(decls, self, output) ==
    IF output.extend # None THEN ParseAtExpression(decls, self, output.extend)
    ELSE Infer((IF output.termination = None THEN <<>>
                ELSE SyncReads(decls, output.termination, TerminationId(self)))
               \o SyncReads(decls, output.expr, ExpressionId(self)))

-----------------------------------------------------------------------------
(* Concretisation: the conjunction of the types of the streams read; the   *)
(* types of those that are inferred themselves are replaced by what they   *)
(* read, and each is visited once.                                         *)

RECURSIVE Expand(_, _, _), ExpandNew(_, _, _)
Expand(tys, ids, seen) ==
    IF ids = <<>> THEN [list |-> <<>>, seen |-> seen]
    ELSE LET first == IF tys[ids[1]].k # "Infer"
                      THEN [list |-> <<tys[ids[1]]>>, seen |-> seen]
                      ELSE ExpandNew(tys, tys[ids[1]].ids, seen)
             rest == Expand(tys, Tail(ids), first.seen)
         IN  [list |-> first.list \o rest.list, seen |-> rest.seen]
ExpandNew(tys, ids, seen) == \* stream_var_to_vec_stream_ty
    LET Visit(acc, id) ==
            IF id \in acc.seen THEN acc
            ELSE LET one == Expand(tys, <<id>>, acc.seen \cup {id})
                 IN  [list |-> acc.list \o one.list, seen |-> one.seen]
    IN  FoldLeft(Visit, [list |-> <<>>, seen |-> seen], ids)

Combine(acc, ty) ==
    CASE acc = None -> None
      [] acc # None /\ acc.k = "Event" /\ ty.k = "Event" -> Event(Both(acc.ac, ty.ac))
      [] acc # None /\ acc.k = "RealTime" /\ ty.k = "RealTime" ->
             Periodic(FreqConjunction(acc.f, ty.f))
      [] OTHER -> None

(***************************************************************************)
(* None if periodic streams and event streams are mixed: no error is       *)
(* reported then, and the type stays as it was.                            *)
(***************************************************************************)
ConcretizeStreamTy(tys, ty) ==
    IF ty.k # "Infer" THEN ty
    ELSE LET list == Expand(tys, ty.ids, {}).list
         IN  IF list = <<>> THEN Event(True)
             ELSE FoldLeft(Combine, list[1], Tail(list))
ConcretizeOutputClock(tys, id) ==
    LET ty == ConcretizeStreamTy(tys, tys[id])
    IN  IF ty = None THEN tys ELSE [tys EXCEPT ![id] = Simplify(ty)]

-----------------------------------------------------------------------------
(* Checking the accesses of an expression against its type: what is found, *)
(* in order.  The check of the expression ends with the first error, but   *)
(* goes on after a misplaced get().                                        *)

Mismatch == <<"stream types are incompatible">>
Unreachable == <<"panic">>
CheckAccess(ty, other) == IF IsValid(ty, other) THEN <<>> ELSE Mismatch

CheckStreamAccess(ty, decl, tys, access) ==
    IF decl.k \notin {"In", "Out"} THEN Unreachable
    ELSE IF {ty.k, tys[decl.id].k} \in {{"Event"}, {"RealTime"}} THEN <<>>
    ELSE IF access = "Optional" THEN <<"get() not possible here">> ELSE <<>>

CheckRealTimeOffset(ty, decl, tys, off) ==
    IF decl.k \notin {"In", "Out"} THEN Unreachable
    ELSE LET span == OffsetSeconds(off)
             target == Periodic(Reciprocal(<<Abs(span[1]), span[2]>>))
         IN  CheckAccess(ty, tys[decl.id]) \o CheckAccess(target, tys[decl.id])

RECURSIVE CheckClock(_, _, _, _, _)
CheckClock(decls, tys, ty, e, id) ==
    LET kid == Append(id, 1)
    IN  CASE e.k = "Ident" ->
                 IF decls[id].k \in {"In", "Out"}
                 THEN CheckAccess(ty, tys[decls[id].id]) ELSE <<>>
          [] e.k = "Offset" /\ e.off.k = "RealTime" ->
                 CheckRealTimeOffset(ty, decls[kid], tys, e.off)
          [] e.k = "Window" ->
                 IF ty.k = "RealTime" THEN <<>> ELSE <<"unexpected sliding window">>
          [] e.k = "StreamAccess" -> CheckStreamAccess(ty, decls[kid], tys, e.access)
          [] OTHER -> FlattenSeq([i \in DOMAIN e.kids |->
                                     CheckClock(decls, tys, ty, e.kids[i],
                                                Append(id, i))])

UpToFirstError(found) ==
    LET errors == {i \in DOMAIN found : found[i] # "get() not possible here"}
    IN  IF errors = {} THEN ToSet(found)
        ELSE {found[i] : i \in 1..(CHOOSE i \in errors : \A j \in errors : i <= j)}

CheckOutputClock(decls, tys, self, output) ==
    IF tys[self].k = "Infer" THEN {"panic"}
    ELSE UpToFirstError(
            (IF output.termination = None THEN <<>>
             ELSE CheckClock(decls, tys, tys[self], output.termination,
                             TerminationId(self)))
            \o CheckClock(decls, tys, tys[self], output.expr, ExpressionId(self)))
CheckTriggerClock(decls, tys, self, trigger) ==
    UpToFirstError(CheckClock(decls, tys, tys[self], trigger.expr, ExpressionId(self)))

-----------------------------------------------------------------------------
(* Activation conditions over the inputs.  seen are the streams that have  *)
(* been replaced already: a second reference to one is left as it is, and  *)
(* becomes True.                                                           *)

RECURSIVE Normalize(_, _, _)
NormalizeAll(tys, args, seen) ==
    LET Visit(acc, arg) ==
            IF ~acc.ok THEN acc
            ELSE LET r == Normalize(tys, arg, acc.seen)
                 IN  [ok |-> r.ok, args |-> Append(acc.args, r.ac), seen |-> r.seen]
    IN  FoldLeft(Visit, [ok |-> TRUE, args |-> <<>>, seen |-> seen], args)
Normalize(tys, ac, seen) ==
    CASE IsNary(ac) ->
             LET r == NormalizeAll(tys, ac.args, seen)
             IN  [ok |-> r.ok, ac |-> [ac EXCEPT !.args = r.args], seen |-> r.seen]
      [] ac = True -> [ok |-> TRUE, ac |-> ac, seen |-> seen]
      [] ac.k = "Stream" ->
             LET ty == tys[ac.id]
             IN  IF ac.id \in seen \/ ty = Event(ac)
                 THEN [ok |-> TRUE, ac |-> ac, seen |-> seen \cup {ac.id}]
                 ELSE IF ty.k = "RealTime" THEN [ok |-> FALSE, ac |-> ac, seen |-> seen]
                 ELSE Normalize(tys, ty.ac, seen \cup {ac.id})

RECURSIVE Translate(_)
Translate(ac) ==
    CASE IsNary(ac) -> [ac EXCEPT !.args = [i \in DOMAIN @ |-> Translate(@[i])]]
      [] ac = True -> True
      [] ac.k = "Stream" -> IF ac.id[1] = "input" THEN ac ELSE True

(***************************************************************************)
(* The activation condition of an event stream, None of a periodic one,    *)
(* and whether it could be determined.                                     *)
(***************************************************************************)
GetActivationCondition(tys, id) ==
    IF tys[id].k = "RealTime" THEN [ok |-> TRUE, ac |-> None]
    ELSE LET r == Normalize(tys, Simplify(tys[id]).ac, {id})
         IN  [ok |-> r.ok, ac |-> IF r.ok THEN Translate(r.ac) ELSE None]

(***************************************************************************)
(* A condition holds of the inputs that a cycle brings.  (A True within    *)
(* another condition is a panic if it is come to.)                         *)
(***************************************************************************)
RECURSIVE Holds(_, _)
Holds(ac, inputs) ==
    CASE ac = True -> TRUE
      [] ac.k = "Stream" -> ac.id \in inputs
      [] ac.k = "Conjunction" -> \A arg \in ToSet(ac.args) : Holds(arg, inputs)
      [] ac.k = "Disjunction" -> \E arg \in ToSet(ac.args) : Holds(arg, inputs)
=============================================================================

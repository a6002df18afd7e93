------------------------------ MODULE Frontend ------------------------------
(***************************************************************************)
(* From a specification to its intermediate representation, and what its   *)
(* expressions evaluate to: parse of frontend/src/lib.rs, which runs the   *)
(* parser, analyze of analysis.rs (verification, naming, types, the        *)
(* dependency graph) and the lowering, in this order.                      *)
(*                                                                         *)
(* Every phase handles one declaration after the other.  at is the phase   *)
(* and the declaration that is next; outcome is "" until it is known how   *)
(* it ends.                                                                *)
(***************************************************************************)
EXTENDS Parser, Naming, PacingTypes, Lowering, Expressions

CONSTANTS
    Specs,          \* the specifications: sequences of declarations (pest pairs)
    AllowParameters \* FrontendConfig::allow_parameters

VARIABLES
    source,    \* the specification at hand
    at, outcome,
    ast,       \* the syntax tree built so far
    reported,  \* what the parser, the verification and the clock analysis found
    clocks,    \* the pacing types of the streams
    analysed,  \* the results of the analyses, for the lowering
    value      \* of an expression: by the closures, and by the interpreter

vars == <<source, at, outcome, ast, reported, naming, inference, clocks, analysed, ir,
          value>>

-----------------------------------------------------------------------------
(* The phases.                                                             *)

Phases ==
    <<"parse", "verify", "import", "constant", "input", "output", "output scope",
      "trigger scope", "named", "constant type", "input type", "output type",
      "output expression", "trigger expression", "clock", "clocked", "concretize output",
      "concretize trigger", "check output", "check trigger", "typed", "graph",
      "lower input", "lower output", "lower expression", "link windows", "lower trigger", "done">>
Amount(phase) ==
    CASE phase = "parse" -> Len(source)
      [] phase = "import" -> Len(ast.imports)
      [] phase \in {"constant", "constant type"} -> Len(ast.constants)
      [] phase \in {"input", "input type", "lower input"} -> Len(ast.inputs)
      [] phase \in {"output", "output scope", "output type", "output expression", "clock",
                    "concretize output", "check output", "lower output",
                    "lower expression"} -> Len(ast.outputs)
      [] phase \in {"trigger scope", "trigger expression", "concretize trigger",
                    "check trigger", "lower trigger"} -> Len(ast.triggers)
      [] OTHER -> 1
Ahead(phase) ==
    LET n == CHOOSE n \in DOMAIN Phases : Phases[n] = phase
        later == {m \in DOMAIN Phases : m > n /\ Amount(Phases[m]) > 0}
    IN  Phases[Min(later)]

In(phase) == outcome = "" /\ at.phase = phase
Advance == at' = IF at.i < Amount(at.phase) THEN [at EXCEPT !.i = @ + 1]
                 ELSE [phase |-> Ahead(at.phase), i |-> 1]
End(how) == at' = at /\ outcome' = how
Continue == Advance /\ outcome' = ""

(***************************************************************************)
(* After a phase, analyze gives up if there is an error.                   *)
(***************************************************************************)
Unless(errors) == IF errors = {} THEN Continue ELSE End("rejected")

NoAnalysis == [decls |-> None]

Init ==
    /\ source \in Specs
    /\ at = [phase |-> "parse", i |-> 1] /\ outcome = ""
    /\ ast = EmptyAst /\ reported = {} /\ clocks = [id \in {} |-> None]
    /\ naming = [NoNaming EXCEPT !.funs = ImplicitModule]
    /\ inference = Start({}, <<>>, <<>>)
    /\ analysed = NoAnalysis /\ ir = EmptyIr /\ value = None

-----------------------------------------------------------------------------
(* Syntax.                                                                 *)

Parse ==
    LET pair == source[at.i]
        parsed == ParseDeclaration(ast, pair)
    IN  /\ In("parse")
        /\ ast' = parsed
        /\ reported' = reported \cup ParseErrors(pair, AllowParameters)
        /\ IF ParsePanics(pair, AllowParameters) THEN End("panicked")
           ELSE IF \E e \in Expressions(parsed) : Exits(e) THEN End("exit")
           ELSE Continue
        /\ UNCHANGED <<source, naming, inference, clocks, analysed, ir, value>>

VerifyTree ==
    /\ In("verify")
    /\ reported' = reported \cup Verify(ast)
    /\ Unless(reported')
    /\ UNCHANGED <<source, ast, naming, inference, clocks, analysed, ir, value>>

-----------------------------------------------------------------------------
(* Names.                                                                  *)

NameDeclaration ==
    /\ \/ In("import") /\ Import(ast.imports[at.i])
       \/ In("constant") /\ NameConstant(ast.constants[at.i], at.i)
       \/ In("input") /\ NameInput(ast.inputs[at.i], at.i)
       \/ In("output") /\ NameOutput(ast.outputs[at.i], at.i)
       \/ In("output scope") /\ CheckOutput(ast.outputs[at.i], at.i)
       \/ In("trigger scope") /\ CheckTrigger(ast.triggers, at.i)
    /\ Continue
    /\ UNCHANGED <<source, ast, reported, inference, clocks, analysed, ir, value>>

(***************************************************************************)
(* The naming analysis is complete: the analysis of types starts.          *)
(***************************************************************************)
Arities == [id \in OutputNodes(ast) |-> Len(ast.outputs[id[2]].params)]
Named ==
    /\ In("named") /\ Unless(naming.errors)
    /\ inference' = Start(ToSet(ast.imports), naming.table, Arities)
    /\ UNCHANGED <<source, ast, reported, naming, clocks, analysed, ir, value>>

-----------------------------------------------------------------------------
(* Types.  The failure of one declaration does not keep the others from    *)
(* being looked at.                                                        *)

Completed(s) == IF s.panic = "" THEN Continue ELSE End("panic")

InferDeclaration ==
    /\ \/ In("constant type") /\ InferConstant(ast.constants[at.i], at.i) /\ UNCHANGED clocks
       \/ /\ In("input type") /\ InferInput(ast.inputs[at.i], at.i)
          /\ clocks' = clocks @@ (InputId(at.i) :> Event(Stream(InputId(at.i))))
       \/ In("output type") /\ InferOutput(ast.outputs[at.i], at.i) /\ UNCHANGED clocks
       \/ /\ In("output expression") /\ UNCHANGED clocks
          /\ InferOutputExpression(ast.outputs[at.i], at.i)
       \/ /\ In("trigger expression")
          /\ InferTriggerExpression(ast.triggers[at.i], at.i)
          /\ clocks' = clocks @@ (TriggerId(at.i) :>
                Infer(SyncReads(naming.table, ast.triggers[at.i].expr,
                                ExpressionId(TriggerId(at.i)))))
    /\ Completed(inference')
    /\ UNCHANGED <<source, ast, reported, naming, analysed, ir, value>>

InferClock ==
    LET id == OutputId(at.i)
        ty == InferOutputClock(naming.table, id, ast.outputs[at.i])
    IN  /\ In("clock")
        /\ clocks' = IF ty = None THEN clocks ELSE clocks @@ (id :> ty)
        /\ reported' = IF ty = None THEN reported \cup {"annotation"} ELSE reported
        /\ Continue
        /\ UNCHANGED <<source, ast, naming, inference, analysed, ir, value>>

(***************************************************************************)
(* An annotation that is wrong ends the inference.                         *)
(***************************************************************************)
Clocked ==
    /\ In("clocked") /\ Unless(reported)
    /\ UNCHANGED <<source, ast, reported, naming, inference, clocks, analysed, ir, value>>

ConcretizeClock ==
    LET id == IF at.phase = "concretize output" THEN OutputId(at.i) ELSE TriggerId(at.i)
    IN
    /\ In("concretize output") \/ In("concretize trigger")
    /\ clocks' = ConcretizeOutputClock(clocks, id)
    /\ Continue
    /\ UNCHANGED <<source, ast, reported, naming, inference, analysed, ir, value>>

CheckClocks ==
    LET found == IF at.phase = "check output"
                 THEN CheckOutputClock(naming.table, clocks, OutputId(at.i),
                                       ast.outputs[at.i])
                 ELSE CheckTriggerClock(naming.table, clocks, TriggerId(at.i),
                                        ast.triggers[at.i])
    IN  /\ In("check output") \/ In("check trigger")
        /\ reported' = reported \cup found
        /\ IF "panic" \in found THEN End("panic") ELSE Continue
        /\ UNCHANGED <<source, ast, naming, inference, clocks, analysed, ir, value>>

(***************************************************************************)
(* Everything has a type.  The conditions that cannot be determined are    *)
(* missing.                                                                *)
(***************************************************************************)
Literals ==
    [id \in {ConstantId(i) : i \in DOMAIN ast.constants} |-> ast.constants[id[2]].lit]
SizesFit ==
    /\ \A i \in DOMAIN ast.outputs :
          LiteralSizesFit(inference, ast.outputs[i].expr, ExpressionId(OutputId(i)))
    /\ \A i \in DOMAIN ast.triggers :
          LiteralSizesFit(inference, ast.triggers[i].expr, ExpressionId(TriggerId(i)))
Typed ==
    LET table == TypeTable(inference)
        wrong == reported \cup inference.errors \cup
                 (IF SizesFit THEN {} ELSE {"literal out of range"})
    IN  /\ In("typed")
        /\ IF reported \cup inference.errors # {}
           THEN End("rejected") /\ UNCHANGED analysed
           ELSE IF ExtractionPanics(table) THEN End("panic") /\ UNCHANGED analysed
           ELSE /\ Unless(wrong)
                /\ analysed' = [decls |-> naming.table, tys |-> clocks, table |-> table,
                                literals |-> Literals,
                                acs |-> [id \in DOMAIN clocks |->
                                            GetActivationCondition(clocks, id).ac],
                                unknown |-> {id \in DOMAIN clocks :
                                    ~GetActivationCondition(clocks, id).ok}]
        /\ UNCHANGED <<source, ast, reported, naming, inference, clocks, ir, value>>

-----------------------------------------------------------------------------
(* The dependency graph.                                                   *)

Analyse ==
    LET edges == EdgesOf(ast, naming.table)
        found == FoundPaths(edges, StreamNodes(ast))
    IN  /\ In("graph")
        /\ CASE NotAStream(edges) \/ MixedCycles(found) -> End("panic")
             [] ~(NotAStream(edges) \/ MixedCycles(found)) /\ CycleErrors(found) # {} ->
                    End("rejected")
             [] OTHER -> IF ~OrderEnds(ast, clocks, edges) THEN End("hangs")
                         ELSE IF TracksTheFuture(ast, edges) THEN End("panic")
                         ELSE IF TracksTooMuch(ast, clocks, edges) THEN End("rejected")
                         ELSE Continue
        /\ analysed' = IF outcome' # "" THEN analysed
                       ELSE [edges |-> edges, buffers |-> BufferSize(ast, edges),
                             layers |-> OrderTable(ast, clocks, edges),
                             inputs |-> RequiredInputs(ast, edges),
                             memory |-> MemoryConsumption(ast, naming.table, clocks,
                                            analysed.table.types, edges)] @@ analysed
        /\ UNCHANGED <<source, ast, reported, naming, inference, clocks, ir, value>>

-----------------------------------------------------------------------------
(* Lowering.                                                               *)

(***************************************************************************)
(* The condition of an event-driven stream has to be known.                *)
(***************************************************************************)
LowerDeclaration ==
    /\ \/ In("lower input") /\ LowerInput(analysed, ast, at.i)
       \/ In("lower output") /\ LowerOutputDeclaration(analysed, ast, at.i)
       \/ In("lower expression") /\ LowerOutputExpression(analysed, ast.outputs[at.i], at.i)
       \/ In("link windows") /\ LinkWindows
       \/ In("lower trigger") /\ LowerTrigger(analysed, ast.triggers[at.i], at.i)
    /\ IF LoweringPanics(ir') \/ DOMAIN ir'.streams \cap analysed.unknown # {}
       THEN End("panic") ELSE Continue
    /\ UNCHANGED <<source, ast, reported, naming, inference, clocks, analysed, value>>

-----------------------------------------------------------------------------
(* Evaluation of a stream, when the streams and windows it reads have any  *)
(* values of their types; one with an offset, or that is held, may have    *)
(* none.                                                                   *)

RECURSIVE ValuesOf(_)
ValuesOf(ty) ==
    CASE ty.k = "Bool" -> {Boolean(TRUE), Boolean(FALSE)}
      [] ty.k = "Int" -> {Signed(n) : n \in {Smallest, -1, 0, 2, -Smallest - 1}}
      [] ty.k = "UInt" -> {Unsigned(n) : n \in {0, 1, 2, Modulus - 1}}
      [] ty.k = "Float" -> {Float(x) : x \in {<<-3, 2>>, <<0, 1>>, <<2, 1>>, Infinite}}
      [] ty.k = "String" -> {Str("a"), Str("b")}
      [] ty.k = "Bytes" -> {Octets(<<>>), Octets(<<7>>)}
      [] ty.k = "Option" -> {NoValue} \cup ValuesOf(ty.a[1])
      [] ty.k = "Tuple" ->
             {TupleValue(vs) : vs \in {f \in [DOMAIN ty.a ->
                                          UNION {ValuesOf(ty.a[i]) : i \in DOMAIN ty.a}] :
                                   \A i \in DOMAIN ty.a : f[i] \in ValuesOf(ty.a[i])}}

Assignments(S, Of_(_)) ==
    {f \in [S -> UNION {Of_(s) : s \in S}] : \A s \in S : f[s] \in Of_(s)}
Environments(x) ==
    LET parts == IrNodes(x)
        now == {p \in parts : p.k = "StreamAccess" /\ p.data.kind = "Sync"}
        past == {p \in parts : p.k \in {"StreamAccess", "OffsetLookup"}} \ now
        windows == {p \in parts : p.k = "WindowLookup"}
        Now(id) == ValuesOf(ir.streams[id].ty)
        Past(id) == {NoValue} \cup Now(id)
        InWindow(w) == ValuesOf(ir.windows[w].ty)
    IN  [now : Assignments({p.data.target : p \in now}, Now),
         past : Assignments({p.data.target : p \in past}, Past),
         windows : Assignments({p.data.window : p \in windows}, InWindow)]

Compute ==
    /\ In("done") /\ value = None
    /\ \E id \in DOMAIN ir.streams \ InputNodes(ast) :
          \E env \in Environments(ir.streams[id].expr) :
             value' = [id |-> id, closure |-> Execute(ir.streams[id].expr, env),
                       interpreted |-> EvalExpr(ir.streams[id].expr, env)]
    /\ UNCHANGED <<source, at, outcome, ast, reported, naming, inference, clocks, analysed,
                   ir>>

Next == \/ Parse \/ VerifyTree \/ NameDeclaration \/ Named \/ InferDeclaration \/ InferClock
        \/ Clocked \/ ConcretizeClock \/ CheckClocks \/ Typed \/ Analyse
        \/ LowerDeclaration \/ Compute

Spec == Init /\ [][Next]_vars

-----------------------------------------------------------------------------
(* Properties of syntax and names.                                         *)

(***************************************************************************)
(* Printing an expression and parsing it gives the same expression (the    *)
(* climber with its bubbling unary operators against ast/print.rs), but    *)
(* for a real-time offset that is no whole number of its unit, which is    *)
(* printed as a fraction.                                                  *)
(***************************************************************************)
Fractional(e) == \E n \in Nodes(e, <<>>) :
    n.e.k = "Offset" /\ n.e.off.k = "RealTime" /\ n.e.off.r[2] # 1
RoundTrip ==
    \A e \in Expressions(ast) : Exits(e) \/ Fractional(e) \/ BuildExpression(Render(e)) = e

(***************************************************************************)
(* A specification whose names are accepted is bound as its text says:     *)
(* self is the output, in its expression only; every other name is that of *)
(* the one stream or constant so called, before or behind, or else of a    *)
(* parameter of the output around it; and a function is imported.  (Naming *)
(* lets a parameter not hide a stream.)                                    *)
(***************************************************************************)
Global(name) ==
    {Declaration("Const", ConstantId(i)) : i \in {j \in DOMAIN ast.constants :
                                                     ast.constants[j].name = name}} \cup
    {Declaration("In", InputId(i)) : i \in {j \in DOMAIN ast.inputs :
                                               ast.inputs[j].name = name}} \cup
    {Declaration(IF ast.outputs[i].params = <<>> THEN "Out" ELSE "ParamOut", OutputId(i)) :
        i \in {j \in DOMAIN ast.outputs : ast.outputs[j].name = name}}
Meaning(n, params, decl, self) ==
    CASE n.e.k = "Function" /\ n.e.fn \in ImplicitModule
             \cup UNION {ModuleOf[m] : m \in ToSet(ast.imports)} -> {Func(n.e.fn)}
      [] n.e.k = "Ident" /\ self /\ n.e.name = "self" -> {Declaration("Out", decl)}
      [] n.e.k = "Ident" /\ Global(n.e.name) # {} -> Global(n.e.name)
      [] n.e.k = "Ident" /\ Global(n.e.name) = {} ->
             {Declaration("Param", ParamId(decl, i)) :
                 i \in {j \in DOMAIN params : params[j].name = n.e.name}}
      [] OTHER -> {d \in Global(n.e.fn.name) : d.k = "ParamOut"}
BoundAsMeant(e, id, params, decl, self) ==
    e # None => \A n \in Nodes(e, id) : n.e.k \in {"Ident", "Function"} =>
                   {naming.table[n.id]} = Meaning(n, params, decl, self)
NamesResolve ==
    In("named") /\ naming.errors = {} =>
        /\ \A i \in DOMAIN ast.outputs :
              LET o == ast.outputs[i]
                  Bound(e, node, self) ==
                      BoundAsMeant(e, node, o.params, OutputId(i), self)
              IN  /\ Bound(o.expr, ExpressionId(OutputId(i)), TRUE)
                  /\ Bound(o.extend, ExtendId(OutputId(i)), FALSE)
                  /\ Bound(o.termination, TerminationId(OutputId(i)), FALSE)
        /\ \A i \in DOMAIN ast.triggers :
              BoundAsMeant(ast.triggers[i].expr, ExpressionId(TriggerId(i)), <<>>,
                           TriggerId(i), FALSE)

-----------------------------------------------------------------------------
(* Properties of the intermediate representation.                          *)

Accesses(id, kinds) == {p \in IrNodes(ir.streams[id].expr) : p.k \in kinds}
SyncTargets(id) ==
    {p.data.target : p \in {q \in Accesses(id, {"StreamAccess"}) : q.data.kind = "Sync"}}
Computed == DOMAIN ir.streams \ InputNodes(ast)

(***************************************************************************)
(* The condition that the runtime evaluates is what the pacing types mean: *)
(* an event-driven stream is active when its annotation holds of the       *)
(* streams it names, or when all that it reads synchronously is active.    *)
(* And what a stream reads synchronously is active, or due, whenever it is *)
(* itself.  An output that is mentioned twice on the way to the inputs (x  *)
(* in x & y, when y has the type of x) is excepted: it counts as True the  *)
(* second time, and eval_ of evaluator.rs panics when it comes to it.      *)
(***************************************************************************)
RECURSIVE Means(_, _), Mentions(_)
Means(ac, inputs) ==
    CASE ac = True -> TRUE
      [] ac.k = "Stream" -> IF ac.id \in InputNodes(ast) THEN ac.id \in inputs
                            ELSE Means(clocks[ac.id].ac, inputs)
      [] ac.k = "Conjunction" -> \A arg \in ToSet(ac.args) : Means(arg, inputs)
      [] ac.k = "Disjunction" -> \E arg \in ToSet(ac.args) : Means(arg, inputs)
Mentions(ac) ==
    CASE IsNary(ac) -> FlattenSeq([i \in DOMAIN ac.args |-> Mentions(ac.args[i])])
      [] ac.k = "Stream" -> IF ac.id \in InputNodes(ast) THEN <<>>
                            ELSE <<ac.id>> \o Mentions(clocks[ac.id].ac)
      [] OTHER -> <<>>
ActiveWith(id, inputs) ==
    IF id \in InputNodes(ast) THEN id \in inputs
    ELSE clocks[id].k = "Event" /\ Holds(ir.streams[id].ac, inputs)
ActiveAsMeant(id) ==
    \A inputs \in SUBSET InputNodes(ast) :
        /\ ActiveWith(id, inputs) <=> Means(clocks[id].ac, inputs)
        /\ ActiveWith(id, inputs) =>
               \A read \in SyncTargets(id) : ActiveWith(read, inputs)
DueWith(id) ==
    \A read \in SyncTargets(id) :
        /\ clocks[read].k = "RealTime"
        /\ IsMultiple(clocks[read].f, clocks[id].f)
ActivationSound ==
    In("done") => \A id \in Computed :
        IF clocks[id].k = "RealTime" THEN DueWith(id)
        ELSE IsInjective(Mentions(clocks[id].ac)) => ActiveAsMeant(id)

(***************************************************************************)
(* What an evaluation reads of the same cycle is in a lower layer, so that *)
(* it is fresh or has its value already, be it read synchronously, held or *)
(* through a window: "debug_assert!(self.fresh_outputs.contains(ix),       *)
(* "ix={}", ix);" of evaluator.rs.  An element that is taken of a tuple is *)
(* excepted: the graph follows that element only, the evaluation computes  *)
(* the others as well.                                                     *)
(***************************************************************************)
ReadNow(id) ==
    {p.data.target : p \in Accesses(id, {"StreamAccess"})} \cup
    {ir.windows[p.data.window].target : p \in Accesses(id, {"WindowLookup"})}
SameClass(id, other) == (clocks[id].k = "RealTime") = (clocks[other].k = "RealTime")
ReadsBelow(id) ==
    \A read \in ReadNow(id) :
        SameClass(id, read) => ir.streams[read].layer < ir.streams[id].layer
Projects(id) == \E p \in Accesses(id, {"TupleAccess"}) : p.args[1].k = "Tuple"
ReadsAreBelow == In("done") => \A id \in Computed : Projects(id) \/ ReadsBelow(id)

(***************************************************************************)
(* The loop that computes the layers ends for whatever the cycle check     *)
(* accepts, but for a cycle through an annotation, and for one of weight   *)
(* zero that does not lead through the first stream of its component.      *)
(***************************************************************************)
LayeringEnds ==
    outcome = "hangs" =>
        LET edges == EdgesOf(ast, naming.table)
            inner == {p \in CyclicPaths(edges, StreamNodes(ast)) :
                         Len(p) > 1 /\ \A i \in DOMAIN p : ~StartingNode(edges, p[i].from)}
        IN  \/ \E e \in edges : e.location = "Extend"
            \/ \E p \in inner : ~HasRealTime(p) /\ CycleWeight(p) = 0

(***************************************************************************)
(* The buffer of a stream has room for every offset into it (get_value of  *)
(* storage/stores.rs would find nothing, forever); offsets in real time    *)
(* are not in the bound.                                                   *)
(***************************************************************************)
InRealTime(id, target) ==
    \E e \in analysed.edges : e.from = id /\ e.to = target /\ e.off.k = "UpToNow"
OffsetsFit ==
    In("done") =>
        \A id \in Computed : \A p \in Accesses(id, {"OffsetLookup"}) :
            LET memory == ir.streams[p.data.target].memory
            IN  \/ Projects(id) \/ InRealTime(id, p.data.target)
                \/ p.data.offset.k # "PastDiscrete" \/ memory.k # "Bounded"
                \/ p.data.offset.n < memory.n

-----------------------------------------------------------------------------
(* Properties of the values.                                               *)

(***************************************************************************)
(* What the checker accepts, and the runtime has no operation for.         *)
(***************************************************************************)
Undefined(p) ==
    \/ /\ IF p.k = "ArithLog" THEN p.data.op = "Neg"
          ELSE p.k = "Function" /\ p.data.fn = "abs"
       /\ p.data.fun.params[1].k = "UInt"
    \/ /\ p.k = "ArithLog" /\ p.data.op \in {"Lt", "Le", "Gt", "Ge"}
       /\ p.data.fun.params[1].k \in {"Bool", "Bytes"}
NotInterpreted(p) ==
    /\ p.k = "Function" /\ p.data.fn \in {"at", "matches"}
    /\ p.data.fun.params[1].k = "Bytes"
Uses(id, What(_)) == \E p \in IrNodes(ir.streams[id].expr) : What(p)

(***************************************************************************)
(* Of an accepted specification, no operation is evaluated on a value of   *)
(* another kind than it expects (the catch-all panics of value.rs), and    *)
(* the result has the type of the stream.                                  *)
(***************************************************************************)
RECURSIVE HasType(_, _)
HasType(v, ty) ==
    CASE ty.k = "Option" -> v = NoValue \/ HasType(v, ty.a[1])
      [] ty.k = "Tuple" -> v.v = "Tuple" /\ Len(v.vs) = Len(ty.a)
                               /\ \A i \in DOMAIN ty.a : HasType(v.vs[i], ty.a[i])
      [] OTHER -> v.v = [Bool |-> "Bool", Int |-> "Signed", UInt |-> "Unsigned",
                         Float |-> "Float", String |-> "Str", Bytes |-> "Bytes"][ty.k]
Sound(v, id) == IF v.v = "Panic" THEN v.why # "kind" ELSE HasType(v, ir.streams[id].ty)
TypesSound ==
    value # None /\ ~Uses(value.id, Undefined) =>
        /\ Sound(value.closure, value.id)
        /\ Uses(value.id, NotInterpreted) \/ Sound(value.interpreted, value.id)

(***************************************************************************)
(* The closures and the interpreter compute the same ("config.mode"        *)
(* chooses), if the closures could be compiled, and but for the functions  *)
(* that only they have.                                                    *)
(***************************************************************************)
EnginesAgree ==
    \/ value = None \/ Uses(value.id, NotInterpreted)
    \/ CompilePanic(ir.streams[value.id].expr) # NoValue
    \/ value.closure = value.interpreted
=============================================================================

---------------------------- MODULE Simplifier -----------------------------
(***************************************************************************)
(* PascaLIGO functions as expressions (simplify/pascaligo.ml, then the     *)
(* cases of typer.ml and transpiler.ml that the statements reach), what    *)
(* the statements mean, run one after another on a store, as the           *)
(* reference; and, first, the typing of matches on variants (typer.ml).    *)
(***************************************************************************)
EXTENDS TypedData

\* A clause of a match: a constructor, the name its parameter gets, a body.
Clause(label, binder, body) == [label |-> label, binder |-> binder, body |-> body]

Matched(cases) == {cases[i].label : i \in DOMAIN cases}

\* Environment.get_constructor: the most recent sum type that has the label.
Declaring(label, types) == {i \in DOMAIN types : HasLabel(types[i], label)}
Declared(label, types) == Declaring(label, types) # {}

GetConstructor(label, types) ==
    types[CHOOSE i \in Declaring(label, types) :
              \A j \in Declaring(label, types) : i <= j]

\* Mutant: the lengths are not compared.
ExhaustiveOnly(cases, variant) == Range(variant.labels) \subseteq Matched(cases)

\* missing case match, redundant case match
Exhaustive(cases, variant) ==
    /\ Range(variant.labels) \subseteq Matched(cases)
    /\ Len(variant.labels) = Len(cases)

\* The variant every constructor of the match belongs to.  The type of the
\* matched expression has no part in it.
VariantOf(cases, types) == GetConstructor(cases[1].label, types)

TypeMatch(cases, types) ==
    /\ cases # << >>
    /\ \A c \in Range(cases) :
          /\ Declared(c.label, types)
          /\ GetConstructor(c.label, types) = VariantOf(cases, types)
    /\ Exhaustive(cases, VariantOf(cases, types))

----------------------------------------------------------------------------
(***************************************************************************)
(* PascaLIGO functions as expressions (simplify/pascaligo.ml, then the      *)
(* cases of typer.ml and transpiler.ml that the statements reach), and what *)
(* the statements mean, run one after another on a store: the reference.    *)
(*                                                                          *)
(* Expressions of the language: numbers, names, constants applied to        *)
(* arguments, accesses, tuples, calls.  Statements: skip, assignments,      *)
(* record patches, loops, conditionals, cases, declarations, failures.      *)
(* Functions are closed: those of closures are in module Closures.          *)
(***************************************************************************)
Num(n) == [e |-> "num", num |-> n]
Name(s) == [e |-> "name", name |-> s]
Call(f, args) == [e |-> "constant", fun |-> f, args |-> args]
Access(s, t, path) == [e |-> "access", name |-> s, type |-> t, path |-> path]
Tuple(es) == [e |-> "tuple", args |-> es]
Apply(f, es) == [e |-> "apply", name |-> f, args |-> es]

Nop == [s |-> "skip"]
Assign(name, t, path, rhs) ==
    [s |-> "assign", name |-> name, type |-> t, path |-> path, rhs |-> rhs]
PatchRecord(name, t, fields) ==
    [s |-> "patch", name |-> name, type |-> t, fields |-> fields]
WhileDo(cond, block) == [s |-> "while", cond |-> cond, block |-> block]
Cond(cond, ifso, ifnot) ==
    [s |-> "if", cond |-> cond, ifso |-> ifso, ifnot |-> ifnot]
CaseInstr(e, types, cases) ==
    [s |-> "case", of |-> e, types |-> types, cases |-> cases]
Declare(name, rhs) == [s |-> "declare", name |-> name, rhs |-> rhs]
DeclareFunction(name, f) == [s |-> "function", name |-> name, fun |-> f]
Fail(e) == [s |-> "fail", arg |-> e]

Param(name, t) == [name |-> name, type |-> t]
FunDecl(params, block, return) ==
    [params |-> params, block |-> block, return |-> return]

IsDeclaration(s) == s.s \in {"declare", "function"}

-----------------------------------------------------------------------------
(* simpl_expression *)

RECURSIVE Expression(_)

\* simpl_tuple_expression: no tuple of one component.
TupleExpression(es) == FoldPairs(OfList(es))

Expression(e) ==
    LET args == [i \in DOMAIN e.args |-> Expression(e.args[i])] IN
    CASE e.e = "num" -> Literal(Number(e.num))
      [] e.e = "name" -> Variable(e.name)
      [] e.e = "constant" -> IF e.fun = "NONE" THEN MakeNone ELSE Constant(e.fun, args)
      [] e.e = "access" -> AccessExpr(Variable(e.name), e.type, e.path)
      [] e.e = "tuple" -> TupleExpression(args)
      [] e.e = "apply" -> Application(Variable(e.name), TupleExpression(args))

-----------------------------------------------------------------------------
(* simpl_statement.  An instruction in front of the rest of a block becomes *)
(* a sequence with it, a declaration a let around it.                       *)

RECURSIVE Instruction(_), Statements(_, _), Block(_), FunctionExpr(_)

\* Mutant: the fields are assigned from the last to the first.
PatchBackwards(assigns) ==
    FoldRight(LAMBDA cur, acc : Sequence(acc, cur),
              SubSeq(assigns, 1, Len(assigns) - 1), assigns[Len(assigns)])

\* RecordPatch: one assignment for each field, in order.
PatchSequence(assigns) ==
    FoldLeft(LAMBDA acc, cur : Sequence(acc, cur), assigns[1], Tail(assigns))

\* E_assign, typed and transpiled.
AssignmentTo(s, t, path, rhs) ==
    Assignment(s, AssignedPath(t, path).lr, Expression(rhs))

\* simpl_cases: the two clauses of a bool or of an option in any order.
CaseFor(cases, label) == cases[CHOOSE i \in DOMAIN cases : cases[i].label = label]

\* E_matching on True whose arm is a failure: the typer asserts instead.
AssertInstead(cond, e) == Constant("ASSERT", <<cond, Expression(e)>>)

MatchBool(cond, ifso, ifnot) ==
    IfBool(cond,
           IF ifso[1].s = "fail" THEN AssertInstead(cond, ifso[1].arg) ELSE Block(ifso),
           Block(ifnot))

MatchOptionCases(e, cases) ==
    LET some == CaseFor(cases, "Some") IN
    MatchOption(e, Block(CaseFor(cases, "None").body), some.binder, Block(some.body))

MatchVariant(e, cases, types) ==
    MatchTree(Layout(VariantOf(cases, types)), e,
              [l \in Matched(cases) |->
                  [binder |-> CaseFor(cases, l).binder,
                   body |-> Block(CaseFor(cases, l).body)]])

Instruction(s) ==
    CASE s.s = "skip" -> Skip
      [] s.s = "assign" -> AssignmentTo(s.name, s.type, s.path, s.rhs)
      [] s.s = "patch" ->
            PatchSequence([i \in DOMAIN s.fields |->
                AssignmentTo(s.name, s.type, <<s.fields[i][1]>>, s.fields[i][2])])
      [] s.s = "while" -> While(Expression(s.cond), Block(s.block))
      [] s.s = "if" -> MatchBool(Expression(s.cond), s.ifso, s.ifnot)
      [] s.s = "case" ->
            LET e == Expression(s.of) IN
            IF Matched(s.cases) = {"True", "False"}
            THEN MatchBool(e, CaseFor(s.cases, "True").body,
                              CaseFor(s.cases, "False").body)
            ELSE IF Matched(s.cases) = {"Some", "None"}
            THEN MatchOptionCases(e, s.cases)
            ELSE MatchVariant(e, s.cases, s.types)

\* return, return_let_in: what the statement makes of the expression after it.
Before(s, rest) ==
    CASE s.s = "declare" -> LetIn(s.name, Expression(s.rhs), rest)
      [] s.s = "function" -> LetIn(s.name, FunctionExpr(s.fun), rest)
      [] ~IsDeclaration(s) -> Sequence(Instruction(s), rest)

Statements(ss, rest) ==
    IF ss = << >> THEN rest ELSE Before(Head(ss), Statements(Tail(ss), rest))

\* simpl_block, given no expression to come after it: the last statement
\* stands alone.
Block(ss) ==
    Statements(SubSeq(ss, 1, Len(ss) - 1), Instruction(ss[Len(ss)]))

\* simpl_fun_declaration.  Several parameters are read from one tuple.
ArgumentsType(params) ==
    Product([i \in DOMAIN params |-> i], [i \in DOMAIN params |-> params[i].type])

\* Mutant: the parameters are bound in the opposite order.
ParametersBackwards(params) ==
    [i \in DOMAIN params |->
        Declare(params[Len(params) + 1 - i].name,
                Access("arguments", ArgumentsType(params), <<i>>))]

TupleDeclarations(params) ==
    [i \in DOMAIN params |->
        Declare(params[i].name, Access("arguments", ArgumentsType(params), <<i>>))]

FunctionExpr(f) ==
    LET result(body) == EnvReturn(Statements(body, Expression(f.return))) IN
    IF Len(f.params) = 1 THEN Quote(f.params[1].name, result(f.block))
    ELSE Quote("arguments", result(TupleDeclarations(f.params) \o f.block))

-----------------------------------------------------------------------------
(* What is refused: a block that ends with a declaration (missing return),  *)
(* a failure anywhere but as the whole arm of True (can't type failwith in  *)
(* isolation), a path that can't be followed, a match that does not type.   *)

RECURSIVE AcceptedBlock(_), AcceptedStatements(_)

AcceptedArm(ss) == (Len(ss) = 1 /\ ss[1].s = "fail") \/ AcceptedBlock(ss)

AcceptedPath(t, path) == ~AssignedPath(t, path).refused

AcceptedCases(s) ==
    LET others == {c \in Range(s.cases) : c.label # "True"} IN
    /\ \A c \in others : AcceptedBlock(c.body)
    /\ \A c \in Range(s.cases) \ others : AcceptedArm(c.body)
    /\ \/ Len(s.cases) = 2 /\ Matched(s.cases) \in {{"True", "False"}, {"Some", "None"}}
       \/ TypeMatch(s.cases, s.types)

AcceptedStatement(s) ==
    CASE s.s = "skip" -> TRUE
      [] s.s = "fail" -> FALSE
      [] s.s = "assign" -> AcceptedPath(s.type, s.path)
      [] s.s = "patch" ->
            s.fields # << >> /\ \A f \in Range(s.fields) : AcceptedPath(s.type, <<f[1]>>)
      [] s.s = "while" -> AcceptedBlock(s.block)
      [] s.s = "if" -> AcceptedArm(s.ifso) /\ AcceptedBlock(s.ifnot)
      [] s.s = "case" -> AcceptedCases(s)
      [] s.s = "declare" -> TRUE
      [] s.s = "function" -> AcceptedStatements(s.fun.block)

AcceptedStatements(ss) == \A i \in DOMAIN ss : AcceptedStatement(ss[i])

AcceptedBlock(ss) ==
    ss # << >> /\ AcceptedStatements(ss) /\ ~IsDeclaration(ss[Len(ss)])

-----------------------------------------------------------------------------
(* The reference: statements run on a store of typed values, innermost name *)
(* first.  fuel bounds the loop iterations.                                 *)

RECURSIVE Component(_, _, _), Updated(_, _, _, _), Value(_, _),
          Perform(_, _), PerformAll(_, _)

\* The meaning of a path: from the outermost component inwards.
Component(v, t, path) ==
    IF path = << >> THEN v
    ELSE Component(v.parts[IndexOf(t, Head(path))], PartOf(t, Head(path)), Tail(path))

Updated(v, t, path, w) ==
    IF path = << >> THEN w
    ELSE [v EXCEPT !.parts[IndexOf(t, Head(path))] =
             Updated(@, PartOf(t, Head(path)), Tail(path), w)]

Lookup(s, store) == store[Position(s, store)].val

Started(store, fuel) == [store |-> store, fuel |-> fuel, failed |-> NoneOf]

\* The parameters of a function, all bound to the arguments of a call.
Bound(f, vs) == [i \in DOMAIN f.params |-> Named(f.params[i].name, vs[i])]

Value(e, store) ==
    LET v(i) == Value(e.args[i], store) IN
    CASE e.e = "num" -> IntValue(e.num)
      [] e.e = "name" -> Lookup(e.name, store)
      [] e.e = "constant" ->
            (CASE e.fun = "SUB" -> IntValue(v(1).num - v(2).num)
               [] e.fun = "GT" -> [is |-> "bool", truth |-> v(1).num > v(2).num]
               [] e.fun = "SOME" -> SomeOf(v(1))
               [] e.fun = "NONE" -> NoneOf)
      [] e.e = "access" -> Component(Lookup(e.name, store), e.type, e.path)
      [] e.e = "tuple" -> Fields([i \in DOMAIN e.args |-> v(i)])
      [] e.e = "apply" ->
            LET f == Lookup(e.name, store).fun
                args == [i \in DOMAIN e.args |-> v(i)]
            IN  Value(f.return, PerformAll(f.block, Started(Bound(f, args), 1)).store)

\* A block's own declarations end with it.
InScope(ss, store, st) ==
    LET end == PerformAll(ss, [st EXCEPT !.store = store \o @])
    IN  [end EXCEPT !.store =
            SubSeq(@, Len(@) - Len(st.store) + 1, Len(@))]

Labelled(v) ==
    CASE v.is = "bool" -> IF v.truth THEN "True" ELSE "False"
      [] v.is = "some" -> "Some"
      [] v.is = "none" -> "None"
      [] v.is = "constructor" -> v.label

Perform(s, st) ==
    LET val(e) == Value(e, st.store)
        put(path, e, at) ==
            [at EXCEPT !.store[Position(s.name, at.store)].val =
                Updated(@, s.type, path, Value(e, at.store))]
        declare(v) == [st EXCEPT !.store = <<Named(s.name, v)>> \o @]
    IN
    CASE s.s = "skip" -> st
      [] s.s = "fail" -> [st EXCEPT !.failed = SomeOf(val(s.arg))]
      [] s.s = "assign" -> put(s.path, s.rhs, st)
      [] s.s = "patch" ->
            FoldLeft(LAMBDA at, f : put(<<f[1]>>, f[2], at), st, s.fields)
      [] s.s = "while" ->
            IF st.fuel = 0 \/ st.failed # NoneOf \/ ~val(s.cond).truth THEN st
            ELSE LET once == InScope(s.block, << >>, st)
                 IN  Perform(s, [once EXCEPT !.fuel = @ - 1])
      [] s.s = "if" ->
            InScope(IF val(s.cond).truth THEN s.ifso ELSE s.ifnot, << >>, st)
      [] s.s = "case" ->
            LET c == CaseFor(s.cases, Labelled(val(s.of)))
            IN  InScope(c.body,
                        IF c.label \in {"True", "False", "None"} THEN << >>
                        ELSE <<Named(c.binder, val(s.of).arg)>>, st)
      [] s.s = "declare" -> declare(val(s.rhs))
      [] s.s = "function" -> declare([is |-> "function", fun |-> s.fun])

\* Nothing runs after a failure, nor once a loop has run out of fuel.
PerformAll(ss, st) ==
    IF ss = << >> \/ st.failed # NoneOf \/ st.fuel = 0 THEN st
    ELSE PerformAll(Tail(ss), Perform(Head(ss), st))

\* The state in which the function returns or fails.
Performed(f, vs, fuel) == PerformAll(f.block, Started(Bound(f, vs), fuel))

Returned(f, vs, fuel) ==
    LET end == Performed(f, vs, fuel) IN
    IF end.failed # NoneOf THEN Failure(end.failed.arg) ELSE Value(f.return, end.store)
=============================================================================

----------------------------- MODULE Transpiler -----------------------------
(***************************************************************************)
(* A program on its way through LIGO: statements are simplified (module     *)
(* Simplifier), matches on variants typed (there too), data laid out        *)
(* (module TypedData), the Mini_c expression compiled and run, and the      *)
(* value it leaves read back.  A behaviour runs one small function on one   *)
(* argument, the way main.ml does (easy_run_typed).                         *)
(***************************************************************************)
EXTENDS Simplifier

CONSTANTS
    Sources,        \* the functions that are run, with their arguments
    MaxLoops        \* bound: loop iterations of a run

VARIABLE source

vars == <<machine, source>>

-----------------------------------------------------------------------------
(* The functions.  v is the parameter, of the type arg, given the value in; *)
(* out is the type of the result.  An assignment or a match runs where a    *)
(* variable b holds 7.                                                      *)

Body(s) ==
    CASE s.does = "literal" -> ValueExpr(s.val, s.out)
      [] s.does = "identity" -> Variable("v")
      [] s.does = "access" -> AccessExpr(Variable("v"), s.arg, s.path)
      [] s.does = "assign" ->
            Sequence(Assignment("v", AssignedPath(s.arg, s.path).lr,
                                ValueExpr(s.val, IntType)), Variable("v"))
      [] s.does = "match" -> MatchTree(Layout(s.arg), Variable("v"), s.clause)

Accepted(s) ==
    /\ s.does = "assign" => ~AssignedPath(s.arg, s.path).refused
    /\ s.does = "function" => AcceptedStatements(s.fun.block)

\* A function of statements is compiled as it is, the others as the body of v.
Compiled(s) ==
    IF s.does = "function" THEN FunctionExpr(s.fun)
    ELSE Quote("v", EnvReturn(LetIn("b", Literal(Number(7)), Body(s))))

\* The argument is itself evaluated by a compiled function and uncompiled
\* (main.ml, transpile_value); the compiler's translate_value keeps it as is.
Argument(s) == Uncompile(Eval(ValueExpr(s.in, s.arg), << >>, 1).val)

\* The arguments of a function of statements: the components of a tuple where
\* it has several parameters.
ArgumentsOf(s) == IF Len(s.fun.params) = 1 THEN <<s.in>> ELSE s.in.parts

\* Programs that loop for longer than the bound are left out.
Ends(s) == s.does = "function" => Performed(s.fun, ArgumentsOf(s), MaxLoops).fuel > 0

\* What the source means.  A clause returns its parameter or b.
SourceMeaning(s) ==
    CASE s.does = "literal" -> s.val
      [] s.does = "identity" -> s.in
      [] s.does = "access" -> Component(s.in, s.arg, s.path)
      [] s.does = "assign" -> Updated(s.in, s.arg, s.path, s.val)
      [] s.does = "match" ->
            IF s.clause[s.in.label].body = Variable("b") THEN IntValue(7) ELSE s.in.arg
      [] s.does = "function" -> Returned(s.fun, ArgumentsOf(s), MaxLoops)

-----------------------------------------------------------------------------
Init ==
    /\ source \in {s \in Sources : Accepted(s) /\ Ends(s)}
    /\ code = Entry(Compiled(source))
    /\ stack = <<Argument(source)>>

Next == Interpret /\ UNCHANGED source

Spec == Init /\ [][Next]_vars

\* The interpreter runs on.
FairSpec == Spec /\ WF_vars(Next)

-----------------------------------------------------------------------------
(* Properties. *)

\* A failure carries an integer.
Outcome ==
    IF Head(stack).is = "failure"
    THEN Failure(Untranspile(Uncompile(Head(stack).fst), IntType))
    ELSE Untranspile(Uncompile(Head(stack)), source.out)

\* Going through Mini_c, Michelson and back yields what the source means:
\* values, accesses, assignments and matches agree on one layout.
PipelinePreservesMeaning == code = << >> => Outcome = SourceMeaning(source)

\* A match that is accepted has exactly one clause for every constructor the
\* matched value can have, whatever order and repetitions it is written with.
MatchHasOneClauseForEachConstructor ==
    source.does = "function" =>
        \A s \in Range(source.fun.block) :
            s.s = "case" /\ s.types # << >> =>
                \A l \in Range(source.arg.labels) :
                    Cardinality({i \in DOMAIN s.cases : s.cases[i].label = l}) = 1

\* A name means the innermost declaration of it in the source, even one that
\* the compiler also gives to a variable of its own.
NamesKeepTheirMeaning == source.does = "function" => PipelinePreservesMeaning

\* An assignment writes the component whose type the typer compared with the
\* right-hand side, whatever its depth.
AssignmentWritesTypedComponent ==
    source.does = "assign" => PipelinePreservesMeaning

\* A list given to a function that returns it comes back as it was.
ListsKeepTheirOrder == source.does = "identity" => PipelinePreservesMeaning

\* Every compiled function comes to its end.
PipelineEnds == <>(code = << >>)
=============================================================================

----------------------------- MODULE ProgramRun -----------------------------
(***************************************************************************)
(* run_mini_c.ml: a Mini_c function is compiled and its code is run on an   *)
(* input.  A behaviour does so with one of Programs and one of Inputs.      *)
(***************************************************************************)
EXTENDS CompilerProgram

CONSTANTS
    Programs,   \* Quote(binder, result) expressions
    Inputs,     \* the values they are applied to
    MaxLoops    \* bound: loop iterations of a run

ASSUME MaxLoopsAssumption == MaxLoops \in Nat \ {0}

VARIABLES program, input

vars == <<machine, program, input>>

\* What the source of the program says it computes.
Meaning == Eval(program.args[1], <<Named(program.name, input)>>, MaxLoops)

\* run_aux runs the compiled body on a stack that holds the input.  Programs
\* that loop for longer than the bound are left out.
Init ==
    /\ program \in Programs /\ input \in Inputs
    /\ Meaning.fuel > 0
    /\ code = Entry(program)
    /\ stack = <<input>>

Next == Interpret /\ UNCHANGED <<program, input>>

Spec == Init /\ [][Next]_vars

\* The interpreter runs on.
FairSpec == Spec /\ WF_vars(Next)

-----------------------------------------------------------------------------
(* Properties. *)

\* The code leaves the value the source computes, and nothing else.
MeaningPreserved == code = << >> => stack = <<Meaning.val>>

\* A program whose source ends, ends when it is compiled.
CompiledProgramEnds == <>(code = << >>)

-----------------------------------------------------------------------------
(* Programs and inputs for the model checker: small functions, each of one  *)
(* integer parameter a.  A scope is a set of the integer variables that can *)
(* be named.                                                                *)


One == Literal(Number(1))
Minus(x, y) == Constant("SUB", <<x, y>>)
Positive(s) == Constant("GT", <<Variable(s), Literal(Number(0))>>)
MakePairOf(x, y) == Constant("PAIR", <<x, y>>)

SmallInputs == {Number(0), Number(2)}

\* Integer expressions.
Variables(scope) == {Variable(s) : s \in scope}
Simple(scope) == Variables(scope) \union {Minus(One, Variable(s)) : s \in scope}
                    \union {Minus(Variable(s), One) : s \in scope}

-----------------------------------------------------------------------------
(* Loops, assignments and blocks: inner declarations may shadow a or b. *)

Assignments(scope) ==
    {Assignment(s, << >>, e) : s \in scope, e \in Simple(scope)}

Declarations(scope, Body(_)) ==
    UNION {{LetIn(s, e, body) : body \in Body(scope \union {s})} :
              s \in {"a", "b"}, e \in Simple(scope) \ Variables(scope)}

Decrements(scope) ==
    {Assignment(s, << >>, Minus(Variable(s), One)) : s \in scope}

Blocks(scope) ==
    Decrements(scope) \union Declarations(scope, Assignments)
    \union {Sequence(x, y) : x \in Assignments(scope), y \in Decrements(scope)}

Loops(scope) ==
    {While(Positive(s), block) : s \in scope, block \in Blocks(scope)}

Conditionals(scope) ==
    {IfBool(Positive(s), x, y) :
        s \in scope, x \in Assignments(scope), y \in Decrements(scope)}

\* A loop under a declaration that may shadow the variable it counts with.
ScopedLoops ==
    Declarations({"a"}, LAMBDA scope :
        {While(Positive(s), block) : s \in scope, block \in Decrements(scope)
            \union Conditionals(scope)})

\* Statements, then both variables are returned.
Function(statement) ==
    Quote("a", EnvReturn(LetIn("b", One,
        Sequence(statement, MakePairOf(Variable("a"), Variable("b"))))))

LoopPrograms ==
    {Function(s) : s \in Loops({"a", "b"}) \union Conditionals({"a", "b"})}
    \union {Function(Sequence(s, t)) :
               s \in Decrements({"a", "b"}), t \in Loops({"a"}) \union ScopedLoops}

-----------------------------------------------------------------------------
(* Options, unions, pairs and function calls. *)

\* A block with one more binding, s, in scope.
Arms(s) == {Assignment("b", << >>, Variable(s)),
            Assignment(s, << >>, Variable("b")), Skip}

Options == {MakeNone, Constant("SOME", <<Minus(Variable("a"), One)>>)}
Eithers == {Constant(f, <<Variable("b")>>) : f \in {"LEFT", "RIGHT"}}

OptionMatches ==
    UNION {{MatchOption(o, n, s, arm) : o \in Options, n \in Arms("a"),
               arm \in Arms(s)} : s \in {"a", "b", "x"}}

EitherMatches ==
    UNION {{MatchEither(v, l, x, r, y) : v \in Eithers,
               x \in Arms(l), y \in Arms(r)} :
           l \in {"a", "x"}, r \in {"b", "x"}}

\* p is a pair of which one or both components are pairs.
Nested == {MakePairOf(MakePairOf(One, Variable("a")), Variable("b")),
           MakePairOf(One, MakePairOf(Variable("b"), Variable("a"))),
           MakePairOf(MakePairOf(One, Variable("a")),
                      MakePairOf(Variable("b"), One))}

IsPairOf(e) == e.op = "constant"
Side(e, lr) == e.args[IF lr = "Left" THEN 1 ELSE 2]

\* The paths that lead to an integer of the pair p.
Leaves(p) ==
    UNION {IF IsPairOf(Side(p, lr)) THEN {<<lr, "Left">>, <<lr, "Right">>}
           ELSE {<<lr>>} : lr \in {"Left", "Right"}}

Projections ==
    {Constant("CAR", <<MakePairOf(Variable("b"), Variable("a"))>>),
     Constant("CDR", <<MakePairOf(One, Variable("b"))>>)}

PatchPrograms ==
    UNION {{Quote("a", EnvReturn(LetIn("b", One, LetIn("p", p,
               Sequence(Assignment("p", path, e), Variable("p")))))) :
              path \in Leaves(p),
              e \in Simple({"a", "b"}) \union Projections} :
           p \in Nested}

CallPrograms ==
    UNION {{Quote("a", EnvReturn(LetIn("f", Quote(s, EnvReturn(body)),
        LetIn("b", Application(Variable("f"), e),
            Minus(Application(Variable("f"), Variable("b")), Variable("a")))))) :
        e \in Simple({"a"}), body \in Simple({s})} : s \in {"a", "x"}}

MatchPrograms ==
    {Function(s) : s \in OptionMatches \union EitherMatches}
    \union PatchPrograms \union CallPrograms

AllPrograms == LoopPrograms \union MatchPrograms
=============================================================================

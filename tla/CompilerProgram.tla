-------------------------- MODULE CompilerProgram --------------------------
(***************************************************************************)
(* compiler/compiler_program.ml: translate_expression generates Michelson   *)
(* code for an expression in a compile-time environment, and gives the      *)
(* environment that describes the stack after that code.                    *)
(*                                                                          *)
(* Every expression but those of closures (module Closures) and of          *)
(* literal collections is here.                                             *)
(***************************************************************************)
EXTENDS MiniC, Environments

CONSTANT Tmp      \* "_tmp_expression"

-----------------------------------------------------------------------------
(* Fragments on the environment: compiler_environment.ml. *)

PositionIn(s, env) == CHOOSE i \in DOMAIN env : IsInnermost(i, s, env)

Get(env, s) ==
    LET aux[n \in 0..Len(env)] ==
            IF n = 0 THEN <<DUP>> ELSE <<DIP(aux[n - 1]), SWAP>>
    IN  aux[PositionIn(s, env) - 1]

Set(env, s) ==
    LET aux[n \in 0..Len(env)] ==
            IF n = 0 THEN <<DIP(<<DROP>>)>> ELSE <<SWAP, DIP(aux[n - 1])>>
    IN  aux[PositionIn(s, env) - 1]

\* Mutant: the names are matched from the innermost binding.
KeptInnermost(env, names) ==
    {i \in DOMAIN env :
        Cardinality({j \in 1..i : env[j] = env[i]}) <= Count(env[i], names, 1)}

\* The outermost bindings are matched with the names first.
Kept(env, names) ==
    {i \in DOMAIN env : Count(env[i], env, i) <= Count(env[i], names, 1)}

Select(env, names) ==
    LET kept == Kept(env, names)
        aux[i \in 1..(Len(env) + 1)] ==
            IF i > Len(env) THEN << >>
            ELSE IF i \in kept THEN <<DIP(aux[i + 1])>>
            ELSE <<DIP(aux[i + 1]), DROP>>
    IN  aux[1]

-----------------------------------------------------------------------------
(* The code of an expression from the compiled code of its parts.  A        *)
(* compiled part is a record of its code and of the environment after it.   *)

\* return ~end_env, and return: the type check of the code.
EndsIn(env, c) == [code |-> c \o <<TYPED(env)>>, env |-> env]
Returns(env, c) == EndsIn(<<Tmp>> \o env, c)

Popped(part) == Tail(part.env)

\* quote application
ApplicationCode(env, f, arg) == Returns(env, f.code \o arg.code \o <<EXEC>>)

SequenceCode(a, b) == EndsIn(b.env, a.code \o <<DROP>> \o b.code)

IfBoolCode(env, c, a, b) ==
    Returns(env, c.code \o <<Branch("IF_BOOL", a.code, b.code)>>)

IfNoneCode(env, c, n, s) ==
    LET restrict == Select(Popped(s), Popped(c))
    IN  Returns(env, c.code \o
            <<Branch("IF_NONE", n.code, s.code \o <<DIP(restrict)>>)>>)

IfLeftCode(env, c, l, left, r, right) ==
    LET restrict(s) == <<DIP(Select(<<s>> \o env, env))>>
    IN  Returns(env, c.code \o
            <<Branch("IF_LEFT", l.code \o restrict(left),
                                r.code \o restrict(right))>>)

LetCode(env, rhs, body) ==
    Returns(env, rhs.code \o body.code \o <<DIP(Select(Popped(body), env))>>)

\* Mutant: the new value is dropped instead of the old one.
PatchKeepsOld(path) ==
    LET patch[i \in 1..(Len(path) + 1)] ==
            IF i > Len(path) THEN <<DROP>>
            ELSE IF path[i] = "Left"
            THEN <<DIP(UNPAIR)>> \o patch[i + 1] \o <<PAIR>>
            ELSE <<DIP(UNPIAR)>> \o patch[i + 1] \o PIAR
    IN  patch[1]

\* modify_code: the new value, then the old one; the first step of the path
\* is the outermost pair.
PatchCode(path) ==
    LET patch[i \in 1..(Len(path) + 1)] ==
            IF i > Len(path) THEN <<DIP(<<DROP>>)>>
            ELSE IF path[i] = "Left"
            THEN <<DIP(UNPAIR)>> \o patch[i + 1] \o <<PAIR>>
            ELSE <<DIP(UNPIAR)>> \o patch[i + 1] \o PIAR
    IN  patch[1]

\* The new value is on top when the variable is read (env'), and has been
\* put in the variable's place in env when it is written.
AssignmentCode(env, s, path, rhs) ==
    Returns(env, rhs.code \o Get(rhs.env, s) \o <<SWAP>>
                    \o PatchCode(path) \o Set(env, s) \o <<PUSH(Unit)>>)

\* Mutant: what the block leaves is not dropped.
WhileNoRestrict(env, c, block) ==
    Returns(env, c.code \o <<LOOP(block.code \o c.code), PUSH(Unit)>>)

WhileCode(env, c, block) ==
    LET restrict == Select(block.env, Popped(c))
    IN  Returns(env, c.code \o
            <<LOOP(block.code \o restrict \o c.code), PUSH(Unit)>>)

\* clear selects the first name of the environment.
EnvReturnCode(part) ==
    LET first == <<Head(part.env)>>
    IN  EndsIn(first, part.code \o Select(part.env, first))

\* get_predicate and Operators.Compiler.predicates, for the constants used.
Predicate(f) ==
    IF f = "ASSERT"
    THEN <<Branch("IF_BOOL", <<FAILWITH>>, <<DROP, PUSH(Unit)>>)>>
    ELSE <<Plain(f)>>

-----------------------------------------------------------------------------
RECURSIVE Compile(_, _), Arguments(_, _)

\* bind_fold_map_right_list: the last argument is computed first, so that
\* the first ends on top of the stack.
Arguments(args, env) ==
    IF args = << >> THEN << >>
    ELSE LET n == Len(args)
             last == Compile(args[n], env)
         IN  last.code \o Arguments(SubSeq(args, 1, n - 1), last.env)

Compile(e, env) ==
    LET part(k, en) == Compile(e.args[k], en)
        first == part(1, env)
        bound(s, en) == <<s>> \o en
    IN
    CASE e.op = "literal" -> Returns(env, <<PUSH(e.val)>>)
      [] e.op = "quote" ->
            Returns(env, <<PUSH(Lambda(part(1, <<e.name>>).code))>>)
      [] e.op = "variable" -> Returns(env, Get(env, e.name))
      [] e.op = "skip" -> Returns(env, <<PUSH(Unit)>>)
      [] e.op = "none" -> Returns(env, <<PUSH(None)>>)
      [] e.op = "empty_list" -> Returns(env, <<PUSH(List(<< >>))>>)
      [] e.op = "constant" ->
            Returns(env, Arguments(e.args, env) \o Predicate(e.fun))
      [] e.op = "application" ->
            ApplicationCode(env, first, part(2, first.env))
      [] e.op = "sequence" -> SequenceCode(first, part(2, Popped(first)))
      [] e.op = "if_bool" ->
            IfBoolCode(env, first, part(2, Popped(first)), part(3, Popped(first)))
      [] e.op = "if_none" ->
            IfNoneCode(env, first, part(2, Popped(first)),
                       part(3, bound(e.name, Popped(first))))
      [] e.op = "if_left" ->
            IfLeftCode(env, first, part(2, bound(e.name, env)), e.name,
                       part(3, bound(e.right, env)), e.right)
      [] e.op = "let_in" ->
            LetCode(env, first, part(2, bound(e.name, Popped(first))))
      [] e.op = "assignment" -> AssignmentCode(env, e.name, e.path, first)
      [] e.op = "while" -> WhileCode(env, first, part(2, Popped(first)))
      [] e.op = "return" -> EnvReturnCode(first)

-----------------------------------------------------------------------------
\* translate_entry: the body of a function, compiled where its binder is the
\* only variable.
Entry(f) == Compile(f.args[1], <<f.name>>).code

\* Generated code passes the type checks of return and of parse_michelson:
\* at every instruction the stack has its operands, and after each
\* expression as many elements as the environment has names.
GeneratedCodeTypechecks == Typechecks
=============================================================================

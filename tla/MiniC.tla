------------------------------- MODULE MiniC -------------------------------
(***************************************************************************)
(* The expressions of Mini_c (mini_c/types.ml) and what they mean: the      *)
(* reference the compiled code is compared with.  A store is a sequence of  *)
(* named values, innermost binding first; evaluating an expression gives    *)
(* its value and the store that its assignments leave.                      *)
(***************************************************************************)
EXTENDS Michelson

Literal(v) == [op |-> "literal", val |-> v]
Quote(binder, result) ==
    [op |-> "quote", name |-> binder, args |-> <<result>>]
Variable(s) == [op |-> "variable", name |-> s]
Skip == [op |-> "skip"]
MakeNone == [op |-> "none"]
MakeEmptyList == [op |-> "empty_list"]
Constant(f, args) == [op |-> "constant", fun |-> f, args |-> args]
Application(f, arg) == [op |-> "application", args |-> <<f, arg>>]
Sequence(a, b) == [op |-> "sequence", args |-> <<a, b>>]
IfBool(c, a, b) == [op |-> "if_bool", args |-> <<c, a, b>>]
MatchOption(c, n, s, body) ==
    [op |-> "if_none", name |-> s, args |-> <<c, n, body>>]
MatchEither(c, l, a, r, b) ==
    [op |-> "if_left", name |-> l, right |-> r, args |-> <<c, a, b>>]
LetIn(s, rhs, body) == [op |-> "let_in", name |-> s, args |-> <<rhs, body>>]
Assignment(s, path, rhs) ==
    [op |-> "assignment", name |-> s, path |-> path, args |-> <<rhs>>]
While(c, body) == [op |-> "while", args |-> <<c, body>>]
EnvReturn(e) == [op |-> "return", args |-> <<e>>]

-----------------------------------------------------------------------------
Named(s, v) == [name |-> s, val |-> v]

Position(s, store) ==
    CHOOSE i \in DOMAIN store :
        store[i].name = s /\ \A j \in 1..(i - 1) : store[j].name # s

Operate(f, v) ==
    CASE f = "SUB" -> Number(v[1].num - v[2].num)
      [] f = "GT" -> Truth(v[1].num > v[2].num)
      [] f = "PAIR" -> PairOf(v[1], v[2])
      [] f = "CAR" -> v[1].fst
      [] f = "CDR" -> v[1].snd
      [] f = "CONS" -> List(<<v[1]>> \o v[2].elems)
      [] f = "SOME" -> Wrap("some", v[1])
      [] f = "LEFT" -> Wrap("left", v[1])
      [] f = "RIGHT" -> Wrap("right", v[1])

RECURSIVE Patch(_, _, _), Eval(_, _, _)

\* The value v with w in the place that path leads to.
Patch(v, path, w) ==
    CASE path = << >> -> w
      [] path # << >> /\ Head(path) = "Left" ->
            PairOf(Patch(v.fst, Tail(path), w), v.snd)
      [] path # << >> /\ Head(path) = "Right" ->
            PairOf(v.fst, Patch(v.snd, Tail(path), w))

\* fuel is the number of loop iterations still allowed: an evaluation that
\* ends with none left stands for one that does not end.
Eval(e, store, fuel) ==
    LET gives(v) == [val |-> v, store |-> store, fuel |-> fuel]
        in(r, d) == Eval(d, r.store, r.fuel)
        scoped(s, v, r, d) ==          \* d where s is bound to v
            LET inner == Eval(d, <<Named(s, v)>> \o r.store, r.fuel)
            IN  [inner EXCEPT !.store = Tail(@)]
        first == Eval(e.args[1], store, fuel)
    IN
    CASE e.op = "literal" -> gives(e.val)
      [] e.op = "quote" -> gives([is |-> "function", fun |-> e])
      [] e.op = "variable" -> gives(store[Position(e.name, store)].val)
      [] e.op = "skip" -> gives(Unit)
      [] e.op = "none" -> gives(None)
      [] e.op = "empty_list" -> gives(List(<< >>))
      [] e.op = "constant" ->
            gives(Operate(e.fun, [i \in DOMAIN e.args |->
                                     Eval(e.args[i], store, fuel).val]))
      [] e.op = "application" ->
            LET arg == in(first, e.args[2])
                body == Eval(first.val.fun.args[1],
                             <<Named(first.val.fun.name, arg.val)>>, arg.fuel)
            IN  [body EXCEPT !.store = arg.store]
      [] e.op = "sequence" -> in(first, e.args[2])
      [] e.op = "if_bool" ->
            in(first, e.args[IF first.val.truth THEN 2 ELSE 3])
      [] e.op = "if_none" ->
            IF first.val = None THEN in(first, e.args[2])
            ELSE scoped(e.name, first.val.fst, first, e.args[3])
      [] e.op = "if_left" ->
            IF first.val.is = "left"
            THEN scoped(e.name, first.val.fst, first, e.args[2])
            ELSE scoped(e.right, first.val.fst, first, e.args[3])
      [] e.op = "let_in" -> scoped(e.name, first.val, first, e.args[2])
      [] e.op = "assignment" ->
            LET i == Position(e.name, first.store)
            IN  [first EXCEPT !.val = Unit,
                     !.store[i].val = Patch(@, e.path, first.val)]
      [] e.op = "while" ->
            IF ~first.val.truth THEN [first EXCEPT !.val = Unit]
            ELSE LET once == in(first, e.args[2])
                 IN  IF once.fuel = 0 THEN [once EXCEPT !.val = Unit]
                     ELSE Eval(e, once.store, once.fuel - 1)
      [] e.op = "return" -> first
=============================================================================

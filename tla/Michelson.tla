----------------------------- MODULE Michelson -----------------------------
(***************************************************************************)
(* The Michelson interpreter that run_mini_c.ml hands compiled code to, for *)
(* the instructions the compiler emits (x_michelson.ml).  It is external:   *)
(* a step of the machine runs one instruction of code on stack.             *)
(*                                                                          *)
(* The end of a DIP and of a lambda's body are instructions of their own,   *)
(* UNDIP and RETURN, that hold what was set aside.  TYPED stands for the    *)
(* output stack type with which the compiler has parse_michelson check the  *)
(* code of each expression; all it compares is the height of the stack.     *)
(***************************************************************************)
EXTENDS Integers, Sequences

VARIABLES code, stack

machine == <<code, stack>>

-----------------------------------------------------------------------------
(* Values.  A field has the same type in every value that has it. *)

Unit == [is |-> "unit"]
Number(n) == [is |-> "int", num |-> n]
Truth(b) == [is |-> "bool", truth |-> b]
PairOf(x, y) == [is |-> "pair", fst |-> x, snd |-> y]
None == [is |-> "none"]
Wrap(w, x) == [is |-> w, fst |-> x]          \* w: "some", "left", "right"
List(elems) == [is |-> "list", elems |-> elems]
Failure(v) == Wrap("failure", v)             \* what a run that failed leaves
Lambda(body) == [is |-> "lambda", body |-> body]

-----------------------------------------------------------------------------
(* Instructions. *)

PUSH(v) == [op |-> "PUSH", val |-> v]
Plain(op) == [op |-> op]
DUP == Plain("DUP")
DROP == Plain("DROP")
SWAP == Plain("SWAP")
PAIR == Plain("PAIR")
CAR == Plain("CAR")
CDR == Plain("CDR")
EXEC == Plain("EXEC")
FAILWITH == Plain("FAILWITH")
DIP(c) == [op |-> "DIP", yes |-> c]
LOOP(c) == [op |-> "LOOP", yes |-> c]
Branch(op, c, d) == [op |-> op, yes |-> c, no |-> d]
TYPED(names) == [op |-> "TYPED", names |-> names]

UNPAIR == <<DUP, CAR, DIP(<<CDR>>)>>
UNPIAR == <<DUP, CDR, DIP(<<CAR>>)>>
PIAR == <<SWAP, PAIR>>

Instr == Head(code)
Rest == Tail(code)
Top == stack[1]
From(n) == SubSeq(stack, n, Len(stack))

\* The stack has at least these operands, each a value of one of these kinds.
Operands(kinds) ==
    /\ Len(kinds) <= Len(stack)
    /\ \A i \in DOMAIN kinds : kinds[i] = {} \/ stack[i].is \in kinds[i]

Wanted ==                \* {} is any value
    [DUP |-> <<{}>>, DROP |-> <<{}>>, SWAP |-> <<{}, {}>>, PAIR |-> <<{}, {}>>,
     CAR |-> <<{"pair"}>>, CDR |-> <<{"pair"}>>, DIP |-> <<{}>>,
     EXEC |-> <<{}, {"lambda"}>>, LOOP |-> <<{"bool"}>>, IF_BOOL |-> <<{"bool"}>>,
     IF_NONE |-> <<{"some", "none"}>>, IF_LEFT |-> <<{"left", "right"}>>,
     SUB |-> <<{"int"}, {"int"}>>, GT |-> <<{"int"}, {"int"}>>,
     CONS |-> <<{}, {"list"}>>, SOME |-> <<{}>>, LEFT |-> <<{}>>, RIGHT |-> <<{}>>,
     PUSH |-> <<>>, UNDIP |-> <<>>, RETURN |-> <<{}>>, TYPED |-> <<>>,
     FAILWITH |-> <<{}>>]

\* The next instruction may run: what the type check guarantees.
Typechecks ==
    code # << >> =>
        /\ Operands(Wanted[Instr.op])
        /\ Instr.op = "TYPED" => Len(stack) = Len(Instr.names)
        /\ Instr.op = "RETURN" => Len(stack) = 1

Run(op) == code # << >> /\ Typechecks /\ Instr.op = op
Becomes(s) == stack' = s /\ code' = Rest
-----------------------------------------------------------------------------
Push == Run("PUSH") /\ Becomes(<<Instr.val>> \o stack)
Dup == Run("DUP") /\ Becomes(<<Top>> \o stack)
Drop == Run("DROP") /\ Becomes(Tail(stack))
Swap == Run("SWAP") /\ Becomes(<<stack[2], stack[1]>> \o From(3))
MakePair == Run("PAIR") /\ Becomes(<<PairOf(stack[1], stack[2])>> \o From(3))
Car == Run("CAR") /\ Becomes(<<Top.fst>> \o From(2))
Cdr == Run("CDR") /\ Becomes(<<Top.snd>> \o From(2))
Sub == Run("SUB") /\ Becomes(<<Number(stack[1].num - stack[2].num)>> \o From(3))
\* COMPARE; GT
Gt == Run("GT") /\ Becomes(<<Truth(stack[1].num > stack[2].num)>> \o From(3))
MakeCons == Run("CONS") /\ Becomes(<<List(<<Top>> \o stack[2].elems)>> \o From(3))
MakeSome == Run("SOME") /\ Becomes(<<Wrap("some", Top)>> \o From(2))
MakeLeft == Run("LEFT") /\ Becomes(<<Wrap("left", Top)>> \o From(2))
MakeRight == Run("RIGHT") /\ Becomes(<<Wrap("right", Top)>> \o From(2))

\* Enter and leave a DIP.
Dip ==
    /\ Run("DIP")
    /\ stack' = From(2)
    /\ code' = Instr.yes \o <<[op |-> "UNDIP", val |-> Top]>> \o Rest

Undip == Run("UNDIP") /\ Becomes(<<Instr.val>> \o stack)

If ==
    /\ Run("IF_BOOL")
    /\ stack' = From(2)
    /\ code' = (IF Top.truth THEN Instr.yes ELSE Instr.no) \o Rest

\* The first branch of IF_NONE is that of None.
IfNone ==
    /\ Run("IF_NONE")
    /\ \/ Top = None /\ stack' = From(2) /\ code' = Instr.yes \o Rest
       \/ /\ Top # None
          /\ stack' = <<Top.fst>> \o From(2) /\ code' = Instr.no \o Rest

IfLeft ==
    /\ Run("IF_LEFT")
    /\ stack' = <<Top.fst>> \o From(2)
    /\ code' = (IF Top.is = "left" THEN Instr.yes ELSE Instr.no) \o Rest

Loop ==
    /\ Run("LOOP")
    /\ stack' = From(2)
    /\ code' = IF Top.truth THEN Instr.yes \o code ELSE Rest

\* A lambda runs on a stack that holds its argument only.
Exec ==
    /\ Run("EXEC")
    /\ stack' = <<Top>>
    /\ code' = stack[2].body \o <<[op |-> "RETURN", caller |-> From(3)]>> \o Rest

Return == Run("RETURN") /\ Becomes(stack \o Instr.caller)
Typed == Run("TYPED") /\ Becomes(stack)

\* The run is abandoned.
Failwith == Run("FAILWITH") /\ stack' = <<Failure(Top)>> /\ code' = << >>

Interpret ==
    \/ Push \/ Dup \/ Drop \/ Swap \/ MakePair \/ Car \/ Cdr \/ Sub \/ Gt
    \/ MakeCons \/ MakeSome \/ MakeLeft \/ MakeRight \/ Dip \/ Undip \/ If \/ IfNone
    \/ IfLeft \/ Loop \/ Exec \/ Return \/ Typed \/ Failwith
=============================================================================

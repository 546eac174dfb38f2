------------------------------ MODULE Closures ------------------------------
(***************************************************************************)
(* The life of a lambda: the free variables of its body choose between a   *)
(* quote and a closure (transpiler.ml, translate_lambda), the closure's    *)
(* environment is packed into a pair when it is created                    *)
(* (compiler_environment.ml, pack_select), joined with the argument when   *)
(* it is applied (compiler_program.ml, E_application) and unpacked onto    *)
(* the stack of the body (E_environment_load, unpack).                     *)
(*                                                                         *)
(* A lambda is made in an environment whose i-th variable holds the value  *)
(* an atom numbered i, so that every value tells where it came from.  All  *)
(* variables have one type.                                                *)
(***************************************************************************)
EXTENDS Environments

CONSTANTS
    Name,       \* variable names
    Binder,     \* the parameter of the lambda, which no free variable is
    MaxEnv,     \* bound: variables in scope where the lambda is made
    MaxUses,    \* bound: occurrences of a free variable in the body
    Nestings    \* values of leftNested: {TRUE} for the code as it is

ASSUME BinderAssumption == Binder \notin Name
ASSUME BoundsAssumption == MaxEnv \in Nat /\ MaxUses \in Nat
ASSUME NestingAssumption == Nestings \subseteq BOOLEAN

VARIABLES
    leftNested, \* closure_representation nests pairs to the left, as it does in
                \* the code; FALSE lets packing and unpacking be seen past the
                \* type check that this nesting makes fail
    env,        \* Seq(Name): variables in scope, innermost first
    uses,       \* how often each name occurs free in the body
    pc,         \* progress of the compilation, then of the execution
    scan,       \* select: the next position to match, from the outermost
    selector,   \* select: occurrences still to be matched
    keep,       \* positions of the captured variables
    stack,      \* Michelson stack in reach
    held,       \* values set aside by enclosing DIPs, outermost first
    caller,     \* the stack of the code that executes EXEC
    original    \* the values of the variables when the lambda was made

compileVars == <<leftNested, env, uses, scan, selector, keep>>
vars == <<compileVars, pc, stack, held, caller, original>>

Atom(k, i) == [kind |-> k, pos |-> i]
Pair(x, y) == [fst |-> x, snd |-> y]
IsPair(v) == "fst" \in DOMAIN v

Quote == Atom("quote", 0)        \* the code of the body, as a value
Result == Atom("result", 0)      \* the value the body returns
Written == Atom("written", 0)    \* a value assigned after the lambda was made
Argument == Atom("arg", 0)

PCs == {"select", "check", "rejected", "pack_down", "pack_up", "close",
        "made", "argument", "closure", "append", "swap", "exec", "load",
        "unpack_down", "unpack_up", "body", "return", "done"}

Shadowed(s) == \E i, j \in DOMAIN env : i # j /\ env[i] = s /\ env[j] = s

\* c_env, the environment of the closure, and init_env, that of its body.
CapturedEnv ==
    LET kept(i) == i \in keep
        nth(k) == CHOOSE i \in keep : Cardinality({j \in keep : j <= i}) = k
    IN  [k \in 1..Cardinality(keep) |-> env[nth(k)]]

BodyEnv == <<Binder>> \o CapturedEnv

Deepest == CHOOSE i \in keep : \A j \in keep : j <= i

-----------------------------------------------------------------------------
Init ==
    /\ leftNested \in Nestings
    /\ \E n \in 0..MaxEnv : env \in [1..n -> Name]
    /\ uses \in [Name -> 0..MaxUses]
    /\ \A s \in Name : uses[s] > 0 => \E i \in DOMAIN env : env[i] = s
    /\ pc = "select"
    /\ scan = Len(env) /\ selector = uses /\ keep = {}
    /\ stack = [i \in 1..Len(env) |-> Atom("var", i)]
    /\ original = stack
    /\ held = << >> /\ caller = << >>

-----------------------------------------------------------------------------
(* Compilation: Environment.select of the free variables, and the type     *)
(* checks of the generated fragments.                                      *)

\* Mutant: a matched occurrence is not removed from the selector.
MatchNameKeepSelector ==
    /\ pc = "select" /\ scan > 0 /\ selector[env[scan]] > 0
    /\ keep' = keep \union {scan - 1}
    /\ scan' = scan - 1
    /\ UNCHANGED <<leftNested, env, uses, selector, pc, stack, held, caller, original>>

MatchName ==
    /\ pc = "select" /\ scan > 0 /\ selector[env[scan]] > 0
    /\ selector' = [selector EXCEPT ![env[scan]] = @ - 1]
    /\ keep' = keep \union {scan}
    /\ scan' = scan - 1
    /\ UNCHANGED <<leftNested, env, uses, pc, stack, held, caller, original>>

SkipName ==
    /\ pc = "select" /\ scan > 0 /\ selector[env[scan]] = 0
    /\ scan' = scan - 1
    /\ UNCHANGED <<leftNested, env, uses, selector, keep, pc, stack, held, caller,
                   original>>

SelectEnd ==
    /\ pc = "select" /\ scan = 0
    /\ pc' = "check"
    /\ UNCHANGED <<compileVars, stack, held, caller, original>>

\* unpack is typed by closure_representation, which nests pairs to the left,
\* and its UNPAIR; DIP (UNPAIR ...) nests them to the right: the two agree on
\* at most two elements, the binder and one captured variable.
UnpackTypechecks == leftNested => Len(BodyEnv) <= 2

Accept ==
    /\ pc = "check" /\ UnpackTypechecks
    /\ pc' = IF keep = {} THEN "close" ELSE "pack_down"
    /\ UNCHANGED <<compileVars, stack, held, caller, original>>

Reject ==
    /\ pc = "check" /\ ~UnpackTypechecks
    /\ pc' = "rejected"
    /\ UNCHANGED <<compileVars, stack, held, caller, original>>

-----------------------------------------------------------------------------
(* pack_select: the deepest captured variable is copied, and the pair is   *)
(* carried up over the others.                                             *)

Undip == held[Len(held)]
LeaveDip == held' = SubSeq(held, 1, Len(held) - 1)

PackDip ==
    /\ pc = "pack_down" /\ Len(held) + 1 < Deepest
    /\ held' = Append(held, Head(stack))
    /\ stack' = Tail(stack)
    /\ UNCHANGED <<compileVars, pc, caller, original>>

PackDup ==
    /\ pc = "pack_down" /\ Len(held) + 1 = Deepest
    /\ stack' = <<Head(stack)>> \o stack
    /\ pc' = "pack_up"
    /\ UNCHANGED <<compileVars, held, caller, original>>

\* Mutant: the SWAP after the DIP is missing.
PackNoSwap ==
    /\ pc = "pack_up" /\ held # << >> /\ Len(held) \notin keep
    /\ stack' = <<Undip>> \o stack
    /\ LeaveDip
    /\ UNCHANGED <<compileVars, pc, caller, original>>

\* false -> DIP code; SWAP
PackSwap ==
    /\ pc = "pack_up" /\ held # << >> /\ Len(held) \notin keep
    /\ stack' = <<Head(stack), Undip>> \o Tail(stack)
    /\ LeaveDip
    /\ UNCHANGED <<compileVars, pc, caller, original>>

\* Mutant: the pair is built with the outer variable first.
PackPairSwapped ==
    /\ pc = "pack_up" /\ held # << >> /\ Len(held) \in keep
    /\ stack' = <<Pair(Head(stack), Undip), Undip>> \o Tail(stack)
    /\ LeaveDip
    /\ UNCHANGED <<compileVars, pc, caller, original>>

\* true -> DIP code; DUP; DIP PAIR; SWAP
PackPair ==
    /\ pc = "pack_up" /\ held # << >> /\ Len(held) \in keep
    /\ stack' = <<Pair(Undip, Head(stack)), Undip>> \o Tail(stack)
    /\ LeaveDip
    /\ UNCHANGED <<compileVars, pc, caller, original>>

PackEnd ==
    /\ pc = "pack_up" /\ held = << >>
    /\ pc' = "close"
    /\ UNCHANGED <<compileVars, stack, held, caller, original>>

-----------------------------------------------------------------------------
(* The value of the lambda: the quote, paired with the captured variables  *)
(* if there are any, bound on top of the environment it was made in.       *)

MakeQuote ==
    /\ pc = "close" /\ keep = {}
    /\ stack' = <<Quote>> \o stack
    /\ pc' = "made"
    /\ UNCHANGED <<compileVars, held, caller, original>>

MakeClosure ==
    /\ pc = "close" /\ keep # {}
    /\ stack' = <<Pair(Quote, Head(stack))>> \o Tail(stack)
    /\ pc' = "made"
    /\ UNCHANGED <<compileVars, held, caller, original>>

\* Before the call, a variable of the environment is assigned.
AssignVariable(i) ==
    /\ pc = "made" /\ stack[i + 1] # Written
    /\ stack' = [stack EXCEPT ![i + 1] = Written]
    /\ UNCHANGED <<compileVars, pc, held, caller, original>>

-----------------------------------------------------------------------------
(* E_application.  Both values read the lambda by its name (get) and leave *)
(* it in the environment.                                                  *)

\* quote: f, then the argument, then EXEC.
ApplyQuote ==
    /\ pc = "made" /\ keep = {}
    /\ stack' = <<Argument, Head(stack)>> \o stack
    /\ pc' = "exec"
    /\ UNCHANGED <<compileVars, held, caller, original>>

\* closure: the argument, then f.
PushArgument ==
    /\ pc = "made" /\ keep # {}
    /\ stack' = <<Argument>> \o stack
    /\ pc' = "argument"
    /\ UNCHANGED <<compileVars, held, caller, original>>

GetClosure ==
    /\ pc = "argument"
    /\ stack' = <<stack[2]>> \o stack
    /\ pc' = "closure"
    /\ UNCHANGED <<compileVars, held, caller, original>>

UnpairClosure ==
    /\ pc = "closure"
    /\ stack' = <<Head(stack).fst, Head(stack).snd>> \o Tail(stack)
    /\ pc' = "append"
    /\ UNCHANGED <<compileVars, held, caller, original>>

\* Mutant: the argument is paired and left where it was.
AppendKeepsArgument ==
    /\ pc = "append"
    /\ stack' = <<stack[1], Pair(stack[3], stack[2])>>
                  \o SubSeq(stack, 3, Len(stack))
    /\ pc' = "swap"
    /\ UNCHANGED <<compileVars, held, caller, original>>

\* DIP (SWAP; PAIR): add_packed_anon puts the argument in front.
AppendArgument ==
    /\ pc = "append"
    /\ stack' = <<stack[1], Pair(stack[3], stack[2])>>
                  \o SubSeq(stack, 4, Len(stack))
    /\ pc' = "swap"
    /\ UNCHANGED <<compileVars, held, caller, original>>

SwapClosure ==
    /\ pc = "swap"
    /\ stack' = <<stack[2], stack[1]>> \o SubSeq(stack, 3, Len(stack))
    /\ pc' = "exec"
    /\ UNCHANGED <<compileVars, held, caller, original>>

\* EXEC runs the body on a stack that holds its argument and nothing else.
Exec ==
    /\ pc = "exec"
    /\ caller' = SubSeq(stack, 3, Len(stack))
    /\ stack' = <<Head(stack)>>
    /\ pc' = IF keep = {} THEN "body" ELSE "load"
    /\ UNCHANGED <<compileVars, held, original>>

-----------------------------------------------------------------------------
(* The body of a closure starts with E_environment_load (E_variable        *)
(* binder, init_env): get the binder, DIP (select []), unpack.             *)

LoadArgument ==
    /\ pc = "load"
    /\ stack' = <<Head(stack)>>
    /\ pc' = "unpack_down"
    /\ UNCHANGED <<compileVars, held, caller, original>>

\* Mutant: one UNPAIR too few.
UnpackDipShort ==
    /\ pc = "unpack_down" /\ Len(held) < Len(BodyEnv) - 2
    /\ held' = Append(held, Head(stack).fst)
    /\ stack' = <<Head(stack).snd>> \o Tail(stack)
    /\ UNCHANGED <<compileVars, pc, caller, original>>

\* aux n = UNPAIR; DIP (aux (n - 1)), with n one less than the environment.
UnpackDip ==
    /\ pc = "unpack_down" /\ Len(held) < Len(BodyEnv) - 1
    /\ held' = Append(held, Head(stack).fst)
    /\ stack' = <<Head(stack).snd>> \o Tail(stack)
    /\ UNCHANGED <<compileVars, pc, caller, original>>

\* Mutant: unpack stops one level early.
UnpackBottomEarly ==
    /\ pc = "unpack_down" /\ Len(held) \in {Len(BodyEnv) - 2, Len(BodyEnv) - 1}
    /\ pc' = "unpack_up"
    /\ UNCHANGED <<compileVars, stack, held, caller, original>>

UnpackBottom ==
    /\ pc = "unpack_down" /\ Len(held) = Len(BodyEnv) - 1
    /\ pc' = "unpack_up"
    /\ UNCHANGED <<compileVars, stack, held, caller, original>>

UnpackUndip ==
    /\ pc = "unpack_up" /\ held # << >>
    /\ stack' = <<Undip>> \o stack
    /\ LeaveDip
    /\ UNCHANGED <<compileVars, pc, caller, original>>

UnpackEnd ==
    /\ pc = "unpack_up" /\ held = << >>
    /\ pc' = "body"
    /\ UNCHANGED <<compileVars, stack, held, caller, original>>

\* The body computes its result on top of its environment, and
\* E_environment_return clears everything else (clear).
RunBody ==
    /\ pc = "body"
    /\ stack' = <<Result>>
    /\ pc' = "return"
    /\ UNCHANGED <<compileVars, held, caller, original>>

ReturnResult ==
    /\ pc = "return"
    /\ stack' = stack \o caller
    /\ caller' = << >>
    /\ pc' = "done"
    /\ UNCHANGED <<compileVars, held, original>>

-----------------------------------------------------------------------------
Compile == MatchName \/ SkipName \/ SelectEnd \/ Accept \/ Reject

Create == PackDip \/ PackDup \/ PackSwap \/ PackPair \/ PackEnd
            \/ MakeQuote \/ MakeClosure

Apply == ApplyQuote \/ PushArgument \/ GetClosure \/ UnpairClosure
           \/ AppendArgument \/ SwapClosure \/ Exec

Enter == LoadArgument \/ UnpackDip \/ UnpackBottom \/ UnpackUndip \/ UnpackEnd

Step == Compile \/ Create \/ Apply \/ Enter \/ RunBody \/ ReturnResult

Next == Step \/ \E i \in 1..Len(env) : AssignVariable(i)

Spec == Init /\ [][Next]_vars

\* The compiler and the Michelson interpreter run on; assignments may happen
\* or not, and there are finitely many.
FairSpec == Spec /\ WF_vars(Step)

-----------------------------------------------------------------------------
(* Properties. *)

TypeOK ==
    /\ env \in Seq(Name) /\ uses \in [Name -> 0..MaxUses]
    /\ selector \in [Name -> 0..MaxUses]
    /\ pc \in PCs /\ scan \in 0..MaxEnv
    /\ keep \subseteq DOMAIN env

\* The value the name s stands for where the lambda is made.
Visible(s) ==
    original[CHOOSE i \in DOMAIN env : IsInnermost(i, s, env)]

\* What the body finds under the name s.
Loaded(s) ==
    stack[CHOOSE i \in DOMAIN BodyEnv : IsInnermost(i, s, BodyEnv)]

SeesVisible == \A s \in Name : uses[s] > 0 => Loaded(s) = Visible(s)

\* A body that uses a variable finds the value that variable had where the
\* lambda was made, when no free variable of the body is shadowed there,
\* whatever is assigned between the creation of the lambda and its call, and
\* the parameter is bound to the argument.
UnshadowedCapture ==
    (pc = "body" /\ \A s \in Name : uses[s] > 0 => ~Shadowed(s)) =>
        SeesVisible /\ Loaded(Binder) = Argument

\* A body is never entered with an environment that is packed otherwise
\* than it is unpacked: one plain value for each name.
BodyAligned ==
    pc = "body" =>
        /\ Len(stack) = Len(BodyEnv)
        /\ \A i \in DOMAIN stack : ~IsPair(stack[i])

\* Packing copies: when the lambda has been made, the environment under it
\* is the one it was made in.
PackingLeavesEnvironment == pc = "made" =>
    \A i \in DOMAIN env : stack[i + 1] \in {original[i], Written}

\* A call returns its result on top of the caller's stack, which still has
\* the lambda and every variable.
CallerIntact ==
    pc = "done" =>
        /\ Len(stack) = Len(env) + 2 /\ Head(stack) = Result
        /\ \A i \in DOMAIN env : stack[i + 2] \in {original[i], Written}

\* A lambda is refused by the compiler, or its call returns.
CallReturns == <>(pc \in {"rejected", "done"})
=============================================================================

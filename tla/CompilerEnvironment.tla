------------------------- MODULE CompilerEnvironment -------------------------
(***************************************************************************)
(* compiler/compiler_environment.ml: the Michelson fragments that read     *)
(* (get), write (set) and restrict (select, clear) a named environment     *)
(* kept on the stack, run instruction by instruction.                      *)
(*                                                                         *)
(* A fragment is code nested in DIPs, DIP (DIP (... )), generated by a     *)
(* recursive function on a stack position.  Going "down" enters the DIPs,  *)
(* each of which sets one value aside in held; going "up" leaves them and  *)
(* runs the instruction that follows each DIP.  Len(held) is the number of *)
(* DIPs entered, so the argument n of the code's recursive function is the *)
(* target position minus Len(held).                                        *)
(*                                                                         *)
(* The client actions (Push, Bind, Drop and the calls of the fragments)    *)
(* are what compiler_program.ml does around them: the compile-time         *)
(* environment env always describes the stack between two fragments.       *)
(***************************************************************************)
EXTENDS Environments

CONSTANTS
    Name,      \* the variable names, Tmp among them
    Tmp,       \* "_tmp_expression", the name of a value just computed
    Value,     \* Michelson values
    MaxEnv     \* bound: the largest environment explored

ASSUME TmpAssumption == Tmp \in Name
ASSUME MaxEnvAssumption == MaxEnv \in Nat

VARIABLES
    env,       \* compile-time environment: Seq(Name), innermost first
    stack,     \* the part of the Michelson stack in reach of the code
    held,      \* values set aside by the enclosing DIPs, outermost first
    pc,        \* which part of which fragment runs
    target,    \* get, set: the position GetI found; select: next to scan
    selector,  \* select: occurrences of each name still to be kept
    keep,      \* select: the positions flagged true so far
    floor,     \* select: 1 under "dip select", 0 otherwise
    entry      \* the bindings when the fragment was entered

walk == <<target, selector, keep, floor>>
vars == <<env, stack, held, pc, walk, entry>>

PCs == {"idle", "get_down", "get_up", "set_down", "set_up",
        "scan", "select_down", "select_up"}

NoSelector == [s \in Name |-> 0]

Binding == [name : Name, val : Value]

\* The bindings that the environment and the stack stand for together.
Bindings == [i \in 1..Len(env) |-> [name |-> env[i], val |-> stack[i]]]

TypeOK ==
    /\ env \in Seq(Name)
    /\ stack \in Seq(Value)
    /\ held \in Seq(Value)
    /\ pc \in PCs
    /\ target \in Nat
    /\ selector \in [Name -> Nat]
    /\ keep \subseteq Nat
    /\ floor \in 0..1
    /\ entry \in Seq(Binding)

Init ==
    /\ env = << >> /\ stack = << >> /\ held = << >> /\ entry = << >>
    /\ pc = "idle"
    /\ target = 0 /\ selector = NoSelector /\ keep = {} /\ floor = 0

HasResult == env # << >> /\ env[1] = Tmp

-----------------------------------------------------------------------------
(* Instructions, on the part of the stack in reach. *)

Dip(x, rest) ==                       \* enter a DIP that sets x aside
    /\ held' = Append(held, x)
    /\ stack' = rest

Undip == held[Len(held)]
LeaveDip == held' = SubSeq(held, 1, Len(held) - 1)

\* The fragment has run: its compile-time locals are forgotten.
Return ==
    /\ held = << >>
    /\ pc' = "idle"
    /\ target' = 0 /\ selector' = NoSelector /\ keep' = {} /\ floor' = 0
    /\ entry' = << >>
    /\ UNCHANGED <<stack, held>>

-----------------------------------------------------------------------------
(* Steps of the client between two fragments. *)

\* return of an E_literal: PUSH, and "_tmp_expression" is added.
Push(v) ==
    /\ pc = "idle" /\ Len(env) < MaxEnv
    /\ env' = <<Tmp>> \o env
    /\ stack' = <<v>> \o stack
    /\ UNCHANGED <<held, pc, walk, entry>>

\* E_let_in, E_if_left, E_if_none: pop the result's name, add the binder.
\* No code is produced.
Bind(s) ==
    /\ pc = "idle" /\ HasResult /\ s # Tmp
    /\ env' = <<s>> \o Tail(env)
    /\ UNCHANGED <<stack, held, pc, walk, entry>>

\* E_sequence: DROP the first value, pop its name.
Drop ==
    /\ pc = "idle" /\ HasResult
    /\ env' = Tail(env)
    /\ stack' = Tail(stack)
    /\ UNCHANGED <<held, pc, walk, entry>>

-----------------------------------------------------------------------------
(* get: aux 0 = DUP, aux n = DIP (aux (n - 1)); SWAP. *)

CallGet(s) ==
    /\ pc = "idle" /\ Len(env) < MaxEnv
    /\ s # Tmp
    /\ \E i \in 1..Len(env) : IsInnermost(i, s, env) /\ target' = i - 1
    /\ pc' = "get_down"
    /\ entry' = Bindings
    /\ UNCHANGED <<env, stack, held, selector, keep, floor>>

\* Mutant: aux recurses once more than the position.
GetDipTooDeep ==
    /\ pc = "get_down" /\ Len(held) <= target
    /\ Dip(Head(stack), Tail(stack))
    /\ UNCHANGED <<env, pc, walk, entry>>

GetDip ==
    /\ pc = "get_down" /\ Len(held) < target
    /\ Dip(Head(stack), Tail(stack))
    /\ UNCHANGED <<env, pc, walk, entry>>

GetDup ==
    /\ pc = "get_down" /\ Len(held) = target
    /\ stack' = <<Head(stack)>> \o stack
    /\ pc' = "get_up"
    /\ UNCHANGED <<env, held, walk, entry>>

GetSwap ==
    /\ pc = "get_up" /\ held # << >>
    /\ stack' = <<Head(stack), Undip>> \o Tail(stack)
    /\ LeaveDip
    /\ UNCHANGED <<env, pc, walk, entry>>

GetReturn ==
    /\ pc = "get_up"
    /\ env' = <<Tmp>> \o env
    /\ Return

-----------------------------------------------------------------------------
(* set: aux 0 = DIP DROP, aux n = SWAP; DIP (aux (n - 1)).  The new value  *)
(* is above the environment, whose names are Tail(env).                    *)

CallSet(s) ==
    /\ pc = "idle" /\ HasResult
    /\ s # Tmp
    /\ \E i \in 1..(Len(env) - 1) :
          IsInnermost(i, s, Tail(env)) /\ target' = i - 1
    /\ pc' = "set_down"
    /\ entry' = Bindings
    /\ UNCHANGED <<env, stack, held, selector, keep, floor>>

SetSwapDip ==
    /\ pc = "set_down" /\ Len(held) < target
    /\ Dip(stack[2], <<stack[1]>> \o SubSeq(stack, 3, Len(stack)))
    /\ UNCHANGED <<env, pc, walk, entry>>

SetDrop ==
    /\ pc = "set_down" /\ Len(held) = target
    /\ stack' = <<stack[1]>> \o SubSeq(stack, 3, Len(stack))
    /\ pc' = "set_up"
    /\ UNCHANGED <<env, held, walk, entry>>

SetUndip ==
    /\ pc = "set_up" /\ held # << >>
    /\ stack' = <<Undip>> \o stack
    /\ LeaveDip
    /\ UNCHANGED <<env, pc, walk, entry>>

SetReturn ==
    /\ pc = "set_up"
    /\ env' = Tail(env)
    /\ Return

-----------------------------------------------------------------------------
(* select: the names of a selector are matched with the environment from   *)
(* its outermost binding inwards (List.fold_map_right), and every position *)
(* that was not matched is dropped.                                        *)

CallSelect(base, sel) ==
    /\ pc' = "scan"
    /\ target' = Len(env)
    /\ selector' = sel
    /\ keep' = {}
    /\ floor' = base
    /\ entry' = Bindings
    /\ UNCHANGED <<env, stack, held>>

\* "dip restrict" at the end of a let or of a match branch:
\* select_env popped outer, where outer is the environment of the scope;
\* with m = 0 it is the "dip (select env [])" of E_environment_load.
RestrictTo(m) ==
    /\ pc = "idle" /\ HasResult /\ m < Len(env)
    /\ CallSelect(1, [s \in Name |-> Count(s, env, Len(env) - m + 1)])

\* restrict_block of E_while: select_env env popped, not under a DIP.
RestrictBlock ==
    /\ pc = "idle" /\ HasResult
    /\ CallSelect(0, [s \in Name |-> Count(s, env, 2)])

\* clear, at the end of a function body: select [ first name ].  A body is
\* compiled from [binder], so its result is the only temporary.
Clear ==
    /\ pc = "idle" /\ HasResult
    /\ \A i \in 2..Len(env) : env[i] # Tmp
    /\ CallSelect(0, [NoSelector EXCEPT ![env[1]] = 1])

\* Mutant: List.mem is forgotten, every position is flagged true.
ScanKeepAlways ==
    /\ pc = "scan" /\ target > floor
    /\ selector' = [selector EXCEPT ![env[target]] = @ - 1]
    /\ keep' = keep \union {target}
    /\ target' = target - 1
    /\ UNCHANGED <<env, stack, held, pc, floor, entry>>

\* Mutant: List.remove_element is forgotten.
ScanKeepNoRemove ==
    /\ pc = "scan" /\ target > floor
    /\ selector[env[target]] > 0
    /\ keep' = keep \union {target}
    /\ target' = target - 1
    /\ UNCHANGED <<env, stack, held, pc, selector, floor, entry>>

ScanKeep ==
    /\ pc = "scan" /\ target > floor
    /\ selector[env[target]] > 0
    /\ selector' = [selector EXCEPT ![env[target]] = @ - 1]
    /\ keep' = keep \union {target}
    /\ target' = target - 1
    /\ UNCHANGED <<env, stack, held, pc, floor, entry>>

ScanSkip ==
    /\ pc = "scan" /\ target > floor
    /\ selector[env[target]] = 0
    /\ target' = target - 1
    /\ UNCHANGED <<env, stack, held, pc, selector, keep, floor, entry>>

ScanEnd ==
    /\ pc = "scan" /\ target = floor
    /\ pc' = "select_down"
    /\ UNCHANGED <<env, stack, held, walk, entry>>

SelectDip ==
    /\ pc = "select_down" /\ Len(held) < Len(env)
    /\ Dip(Head(stack), Tail(stack))
    /\ UNCHANGED <<env, pc, walk, entry>>

\* Mutant: the end of the environment is looked for on the stack.
SelectBottomOfStack ==
    /\ pc = "select_down" /\ Len(held) = Len(stack)
    /\ pc' = "select_up"
    /\ UNCHANGED <<env, stack, held, walk, entry>>

SelectBottom ==
    /\ pc = "select_down" /\ Len(held) = Len(env)
    /\ pc' = "select_up"
    /\ UNCHANGED <<env, stack, held, walk, entry>>

\* true -> DIP code; the enclosing "dip" keeps position 1 in the same way.
SelectKeep ==
    /\ pc = "select_up" /\ held # << >>
    /\ Len(held) \in keep \/ Len(held) <= floor
    /\ stack' = <<Undip>> \o stack
    /\ LeaveDip
    /\ UNCHANGED <<env, pc, walk, entry>>

\* Mutant: the DROP after the DIP is missing.
SelectDropNoDrop ==
    /\ pc = "select_up" /\ held # << >>
    /\ Len(held) \notin keep /\ Len(held) > floor
    /\ env' = SubSeq(env, 1, Len(held) - 1)
                \o SubSeq(env, Len(held) + 1, Len(env))
    /\ stack' = <<Undip>> \o stack
    /\ LeaveDip
    /\ UNCHANGED <<pc, walk, entry>>

\* false -> DIP code; DROP.  The name leaves the environment with the value.
SelectDrop ==
    /\ pc = "select_up" /\ held # << >>
    /\ Len(held) \notin keep /\ Len(held) > floor
    /\ env' = SubSeq(env, 1, Len(held) - 1)
                \o SubSeq(env, Len(held) + 1, Len(env))
    /\ LeaveDip
    /\ UNCHANGED <<stack, pc, walk, entry>>

SelectReturn ==
    /\ pc = "select_up"
    /\ UNCHANGED env
    /\ Return

-----------------------------------------------------------------------------
Client ==
    \/ \E v \in Value : Push(v)
    \/ \E s \in Name : Bind(s) \/ CallGet(s) \/ CallSet(s)
    \/ Drop
    \/ \E m \in 0..MaxEnv : RestrictTo(m)
    \/ RestrictBlock
    \/ Clear

\* One instruction of a fragment, or one step of select's scan.
Fragment ==
    \/ GetDip \/ GetDup \/ GetSwap \/ GetReturn
    \/ SetSwapDip \/ SetDrop \/ SetUndip \/ SetReturn
    \/ ScanKeep \/ ScanSkip \/ ScanEnd
    \/ SelectDip \/ SelectBottom \/ SelectKeep \/ SelectDrop \/ SelectReturn

Next == Client \/ Fragment

Spec == Init /\ [][Next]_vars

\* Code that has been entered runs on: nothing else runs on the machine.
FairSpec == Spec /\ WF_vars(Fragment)

-----------------------------------------------------------------------------
(* Properties. *)

\* What the bindings are to the client: the current ones between fragments,
\* those on entry while a fragment runs.
Abstract == IF pc = "idle" THEN Bindings ELSE entry

Named == INSTANCE NamedEnvironment WITH bindings <- Abstract

\* The walks up and down the stack implement a variable environment: get
\* copies, set overwrites and select keeps exactly the bindings their names
\* denote, shadowed names included, whatever the client did before.
ImplementsNamedEnvironment == Named!Spec

\* Between two fragments the compile-time environment has a name for each
\* stack element: no walk loses or leaves behind a value.
StackMatchesEnvironment ==
    pc = "idle" => Len(stack) = Len(env) /\ held = << >>

\* No instruction is reached on a stack too short for it, which parse_michelson
\* would refuse: DIP, DUP and DROP find one element, SWAP finds two.
OperandsPresent ==
    /\ pc = "get_down" => Len(stack) >= 1
    /\ pc = "get_up" /\ held # << >> => Len(stack) >= 1
    /\ pc = "set_down" => Len(stack) >= 2
    /\ pc = "select_down" /\ Len(held) < Len(env) => Len(stack) >= 1

\* Restricting to an outer scope flags the bindings of that scope and no
\* inner binding of the same name: the scan runs from the outermost one.
RestrictKeepsOuterScope ==
    (pc = "select_down" /\ floor = 1) =>
        \A i \in keep : \A j \in i..Len(env) : j \in keep

\* Every fragment that is entered ends.
FragmentsEnd == (pc # "idle") ~> (pc = "idle")
=============================================================================

-------------------------- MODULE NamedEnvironment --------------------------
(***************************************************************************)
(* What the stack-based environment of the Michelson back end promises to  *)
(* the expression compiler: a list of named bindings, innermost first, in  *)
(* which a variable is looked up and assigned by name, and a scope is      *)
(* left in one step.  The name Tmp is the compiler's "_tmp_expression",    *)
(* the value of the expression that has just been compiled.                *)
(***************************************************************************)
EXTENDS Naturals, Sequences

CONSTANTS Name, Tmp, Value, MaxEnv

VARIABLE bindings      \* Seq([name : Name, val : Value]), innermost first

Binding == [name : Name, val : Value]

\* Position i holds the binding that the name s denotes.
Denotes(i, s) ==
    /\ i \in DOMAIN bindings
    /\ bindings[i].name = s
    /\ \A j \in 1..(i - 1) : bindings[j].name # s

Temporary(v) == <<[name |-> Tmp, val |-> v]>>

HasResult == bindings # << >> /\ bindings[1].name = Tmp

Init == bindings = << >>

\* A literal is evaluated.
Produce(v) ==
    /\ Len(bindings) < MaxEnv
    /\ bindings' = Temporary(v) \o bindings

\* A let binds the value that has just been computed.
Bind(s) ==
    /\ HasResult
    /\ bindings' = <<[name |-> s, val |-> bindings[1].val]>> \o Tail(bindings)

\* A sequence forgets the value of its first part.
Forget ==
    /\ HasResult
    /\ bindings' = Tail(bindings)

\* A variable is read: its innermost binding, and nothing else, is copied.
Lookup(i) ==
    /\ Len(bindings) < MaxEnv
    /\ \E s \in Name \ {Tmp} : Denotes(i, s)
    /\ bindings' = Temporary(bindings[i].val) \o bindings

\* A variable is assigned the value just computed: the innermost binding of
\* the name below that value changes, and no other does.
Assign(i) ==
    /\ HasResult
    /\ \E s \in Name \ {Tmp} : i > 1 /\ Denotes(i, s)
    /\ bindings' = Tail([bindings EXCEPT ![i].val = bindings[1].val])

\* A scope is left with a result: the m outermost bindings survive.
Leave(m) ==
    /\ HasResult
    /\ m < Len(bindings)
    /\ bindings' = <<bindings[1]>>
                     \o SubSeq(bindings, Len(bindings) - m + 1, Len(bindings))

Next ==
    \/ \E v \in Value : Produce(v)
    \/ \E s \in Name \ {Tmp} : Bind(s)
    \/ Forget
    \/ \E i \in 1..MaxEnv : Lookup(i) \/ Assign(i)
    \/ \E m \in 0..MaxEnv : Leave(m)

Spec == Init /\ [][Next]_bindings
=============================================================================

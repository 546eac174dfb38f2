---------------------------- MODULE Environments ----------------------------
(***************************************************************************)
(* The named environments of Mini_c (mini_c/environment.ml): a list of     *)
(* names, innermost binding first, that tells the compiler which stack     *)
(* position holds which variable.  Types are abstracted: every variable    *)
(* has the same Michelson type, which is the case in which the type check  *)
(* of a generated fragment can tell no two stack positions apart.          *)
(***************************************************************************)
EXTENDS Naturals, Sequences, FiniteSets

\* Mutant: the outermost binding of s is found.
IsOutermost(i, s, e) ==
    /\ i \in DOMAIN e
    /\ e[i] = s
    /\ \A j \in (i + 1)..Len(e) : e[j] # s

\* List.assoc_i finds s at position i of e: the innermost binding of s.
IsInnermost(i, s, e) ==
    /\ i \in DOMAIN e
    /\ e[i] = s
    /\ \A j \in 1..(i - 1) : e[j] # s

\* A selector is a list of names read as a multiset: List.mem asks for a
\* positive count and List.remove_element takes one occurrence away.  The
\* names of e from position first on hold s this many times.
Count(s, e, first) == Cardinality({i \in first..Len(e) : e[i] = s})
=============================================================================

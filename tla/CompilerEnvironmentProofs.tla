---------------------- MODULE CompilerEnvironmentProofs ----------------------
(***************************************************************************)
(* Proofs about the stack walks of CompilerEnvironment, for every set of   *)
(* names and values, every environment and every sequence of calls: they   *)
(* stay in their stack, keep it matched with the environment, and          *)
(* implement the list of named values that their clients reason with.      *)
(***************************************************************************)
EXTENDS CompilerEnvironment, FiniteSetTheorems, SequenceTheorems,
        TLAPS

-----------------------------------------------------------------------------
(* Sequences as stacks: what an instruction does to one. *)

\* An instruction that pushes one value shifts every other by one.
LEMMA Pushed ==
    ASSUME NEW S, NEW x \in S, NEW s \in Seq(S)
    PROVE  /\ <<x>> \o s \in Seq(S)
           /\ Len(<<x>> \o s) = Len(s) + 1
           /\ (<<x>> \o s)[1] = x
           /\ \A i \in 1..Len(s) : (<<x>> \o s)[i + 1] = s[i]
OBVIOUS

\* SWAP and DUP: two values on top of what was below.
LEMMA PushedTwo ==
    ASSUME NEW S, NEW x \in S, NEW y \in S, NEW s \in Seq(S)
    PROVE  /\ <<x, y>> \o s \in Seq(S)
           /\ Len(<<x, y>> \o s) = Len(s) + 2
           /\ (<<x, y>> \o s)[1] = x /\ (<<x, y>> \o s)[2] = y
           /\ \A i \in 1..Len(s) : (<<x, y>> \o s)[i + 2] = s[i]
OBVIOUS

\* Taking the top away leaves the rest in place.
LEMMA Popped ==
    ASSUME NEW S, NEW s \in Seq(S), Len(s) >= 1
    PROVE  /\ Head(s) \in S /\ Head(s) = s[1]
           /\ Tail(s) \in Seq(S)
           /\ Len(Tail(s)) = Len(s) - 1
           /\ \A i \in 1..(Len(s) - 1) : Tail(s)[i] = s[i + 1]
BY HeadTailProperties, EmptySeq

\* A DIP adds the value it sets aside last.
LEMMA SetAside ==
    ASSUME NEW S, NEW x \in S, NEW h \in Seq(S)
    PROVE  /\ Append(h, x) \in Seq(S)
           /\ Len(Append(h, x)) = Len(h) + 1
           /\ Append(h, x)[Len(h) + 1] = x
           /\ \A i \in 1..Len(h) : Append(h, x)[i] = h[i]
OBVIOUS

\* The length of a slice.
LEMMA SliceLen ==
    ASSUME NEW S, NEW s \in Seq(S), NEW m \in Nat, NEW n \in Nat,
           m >= 1, n <= Len(s), m <= n + 1
    PROVE  Len(SubSeq(s, m, n)) = n - m + 1
OBVIOUS

\* Leaving a DIP takes the value set aside last.
LEMMA TakenBack ==
    ASSUME NEW S, NEW h \in Seq(S), h # << >>
    PROVE  /\ Len(h) \in Nat \ {0}
           /\ h[Len(h)] \in S
           /\ SubSeq(h, 1, Len(h) - 1) \in Seq(S)
           /\ Len(SubSeq(h, 1, Len(h) - 1)) = Len(h) - 1
           /\ \A i \in 1..(Len(h) - 1) : SubSeq(h, 1, Len(h) - 1)[i] = h[i]
<1>1. Len(h) \in Nat /\ Len(h) >= 1
  BY EmptySeq
<1>2. h[Len(h)] \in S
  BY <1>1
<1>3. SubSeq(h, 1, Len(h) - 1) \in Seq(S)
  BY <1>1
<1>4. Len(SubSeq(h, 1, Len(h) - 1)) = Len(h) - 1
  <2> DEFINE n == Len(h) - 1
  <2>1. n \in Nat /\ n <= Len(h) /\ 1 <= n + 1
    BY <1>1
  <2> HIDE DEF n
  <2>2. Len(SubSeq(h, 1, n)) = n - 1 + 1
    BY <2>1, SliceLen
  <2> QED
    BY <1>1, <2>2 DEF n
<1>5. \A i \in 1..(Len(h) - 1) : SubSeq(h, 1, Len(h) - 1)[i] = h[i]
  BY <1>1
<1> QED
  BY <1>1, <1>2, <1>3, <1>4, <1>5

\* SWAP; DIP and DIP DROP take the second value away.
LEMMA SecondRemoved ==
    ASSUME NEW S, NEW s \in Seq(S), Len(s) >= 2
    PROVE  /\ <<s[1]>> \o SubSeq(s, 3, Len(s)) \in Seq(S)
           /\ Len(<<s[1]>> \o SubSeq(s, 3, Len(s))) = Len(s) - 1
           /\ (<<s[1]>> \o SubSeq(s, 3, Len(s)))[1] = s[1]
           /\ \A i \in 2..(Len(s) - 1) :
                 (<<s[1]>> \o SubSeq(s, 3, Len(s)))[i] = s[i + 1]
<1> DEFINE t == SubSeq(s, 3, Len(s))
<1>1. Len(s) \in Nat /\ s[1] \in S
  OBVIOUS
<1>2. t \in Seq(S)
  BY <1>1
<1>3. Len(t) = Len(s) - 2
  <2> DEFINE n == Len(s)
  <2>1. n \in Nat /\ 2 <= n /\ n <= Len(s)
    BY <1>1
  <2> HIDE DEF n
  <2>2. Len(SubSeq(s, 3, n)) = n - 3 + 1
    BY <2>1, SliceLen
  <2> QED
    BY <2>1, <2>2 DEF n, t
<1>4. \A i \in 1..(Len(s) - 2) : t[i] = s[i + 2]
  BY <1>1
<1> HIDE DEF t
<1>5. /\ <<s[1]>> \o t \in Seq(S)
      /\ Len(<<s[1]>> \o t) = Len(s) - 1
      /\ (<<s[1]>> \o t)[1] = s[1]
  BY <1>1, <1>2, <1>3
<1>6. \A i \in 2..(Len(s) - 1) : (<<s[1]>> \o t)[i] = s[i + 1]
  BY <1>1, <1>2, <1>3, <1>4
<1> QED
  BY <1>5, <1>6 DEF t

\* DROP under DIPs: the name at one position leaves the environment, and
\* the names below move up.
LEMMA OneRemoved ==
    ASSUME NEW S, NEW s \in Seq(S), NEW n \in Nat, 1 <= n, n <= Len(s)
    PROVE  LET r == SubSeq(s, 1, n - 1) \o SubSeq(s, n + 1, Len(s))
           IN  /\ r \in Seq(S)
               /\ Len(r) = Len(s) - 1
               /\ \A i \in 1..(n - 1) : r[i] = s[i]
               /\ \A i \in n..(Len(s) - 1) : r[i] = s[i + 1]
<1> DEFINE l == Len(s)
           t == SubSeq(s, 1, n - 1)
           u == SubSeq(s, n + 1, l)
<1>1. l \in Nat /\ n <= l
  OBVIOUS
<1>2. t \in Seq(S)
  BY <1>1
<1>3. u \in Seq(S)
  BY <1>1
<1>4. Len(t) = n - 1
  <2> DEFINE k == n - 1
  <2>1. k \in Nat /\ k <= Len(s) /\ 1 <= k + 1
    BY <1>1
  <2> HIDE DEF k
  <2>2. Len(SubSeq(s, 1, k)) = k - 1 + 1
    BY <2>1, SliceLen
  <2> QED
    BY <1>1, <2>2 DEF k
<1>5. Len(u) = l - n
  <2> DEFINE k == n + 1
  <2>1. k \in Nat /\ 1 <= k /\ l <= Len(s) /\ k <= l + 1
    BY <1>1
  <2> HIDE DEF k, l
  <2>2. Len(SubSeq(s, k, l)) = l - k + 1
    BY <1>1, <2>1, SliceLen
  <2> QED
    BY <1>1, <2>2 DEF k
<1>6. \A i \in 1..(n - 1) : t[i] = s[i]
  BY <1>1
<1>7. \A i \in 1..(l - n) : u[i] = s[n + i]
  BY <1>1
<1> HIDE DEF t, u
<1>8. t \o u \in Seq(S) /\ Len(t \o u) = Len(s) - 1
  BY <1>1, <1>2, <1>3, <1>4, <1>5
<1>9. \A i \in 1..(n - 1) : (t \o u)[i] = s[i]
  BY <1>1, <1>2, <1>3, <1>4, <1>5, <1>6
<1>10. ASSUME NEW i \in n..(l - 1) PROVE (t \o u)[i] = s[i + 1]
  <2>1. i - (n - 1) \in 1..(l - n) /\ i \in (Len(t) + 1)..(Len(t) + Len(u))
    BY <1>1, <1>4, <1>5
  <2>2. (t \o u)[i] = u[i - (n - 1)]
    BY <1>2, <1>3, <1>4, <2>1
  <2> QED
    BY <1>1, <1>7, <2>1, <2>2
<1> QED
  BY <1>8, <1>9, <1>10 DEF t, u, l

----------------------------------------------------------------------------
(* The selector that a caller builds counts names, so it is a multiset.    *)

\* A count of names is a natural number.
LEMMA CountType ==
    ASSUME NEW e \in Seq(Name), NEW s, NEW first \in Nat
    PROVE  Count(s, e, first) \in Nat
<1>1. IsFiniteSet(first..Len(e))
  BY FS_Interval
<1>2. {i \in first..Len(e) : e[i] = s} \subseteq first..Len(e)
  OBVIOUS
<1>3. IsFiniteSet({i \in first..Len(e) : e[i] = s})
  BY <1>1, <1>2, FS_Subset
<1> QED
  BY <1>3, FS_CardinalityType DEF Count

-----------------------------------------------------------------------------
(* Where the walk stands: every stack element of the environment is either *)
(* in reach or set aside by a DIP, and the target is still below.          *)

Depth == Len(held) + Len(stack)

WalkInv ==
    /\ pc = "idle" => held = << >> /\ Len(stack) = Len(env)
    /\ pc = "get_down" =>
         /\ Depth = Len(env) /\ Len(held) <= target /\ target < Len(env)
    /\ pc = "get_up" =>
         /\ Depth = Len(env) + 1 /\ Len(held) < Len(env)
    /\ pc = "set_down" =>
         /\ env # << >>
         /\ Depth = Len(env) /\ Len(held) <= target /\ target + 1 < Len(env)
    /\ pc = "set_up" =>
         /\ env # << >>
         /\ Depth + 1 = Len(env)
    /\ pc = "scan" =>
         /\ held = << >> /\ Len(stack) = Len(env)
         /\ target \in floor..Len(env)
    /\ pc \in {"select_down", "select_up"} => Depth = Len(env)

IInv == TypeOK /\ WalkInv

\* The empty environment describes the empty stack.
LEMMA InitIInv == Init => IInv
BY TmpAssumption DEF Init, IInv, TypeOK, WalkInv, NoSelector, PCs, Depth

\* The code around the fragments keeps names and stack in step.
LEMMA ClientStep == IInv /\ Client => IInv'
<1> SUFFICES ASSUME IInv, Client PROVE IInv'
  OBVIOUS
<1> USE DEF IInv, TypeOK, WalkInv, Depth, PCs, walk
<1>1. ASSUME NEW v \in Value, Push(v) PROVE IInv'
  BY <1>1, TmpAssumption DEF Push
<1>2. ASSUME NEW s \in Name, Bind(s) PROVE IInv'
  BY <1>2 DEF Bind, HasResult
<1>3. ASSUME NEW s \in Name, CallGet(s) PROVE IInv'
  BY <1>3 DEF CallGet, Bindings, Binding
<1>4. ASSUME NEW s \in Name, CallSet(s) PROVE IInv'
  BY <1>4 DEF CallSet, HasResult, Bindings, Binding
<1>5. CASE Drop
  BY <1>5 DEF Drop, HasResult
<1>6. ASSUME NEW m \in 0..MaxEnv, RestrictTo(m) PROVE IInv'
  BY <1>6, CountType DEF RestrictTo, CallSelect, HasResult, Bindings, Binding
<1>7. CASE RestrictBlock
  BY <1>7, CountType DEF RestrictBlock, CallSelect, HasResult, Bindings, Binding
<1>8. CASE Clear
  BY <1>8 DEF Clear, CallSelect, HasResult, NoSelector, Bindings, Binding
<1> QED
  BY <1>1, <1>2, <1>3, <1>4, <1>5, <1>6, <1>7, <1>8 DEF Client

\* Each instruction of a walk moves one value between the stack in reach and
\* the DIPs, or adds or removes one together with its name.
LEMMA FragmentStep == IInv /\ Fragment => IInv'
<1> SUFFICES ASSUME IInv, Fragment PROVE IInv'
  OBVIOUS
<1> USE DEF IInv, TypeOK, WalkInv, Depth, PCs, walk
<1>1. CASE GetDip
  <2>1. Len(stack) >= 1
    BY <1>1 DEF GetDip
  <2>2. /\ Head(stack) \in Value /\ Tail(stack) \in Seq(Value)
        /\ Len(Tail(stack)) = Len(stack) - 1
    BY <1>1, <2>1, Popped
  <2>3. /\ Append(held, Head(stack)) \in Seq(Value)
        /\ Len(Append(held, Head(stack))) = Len(held) + 1
    BY <1>1, <2>2, SetAside
  <2> QED
    BY <1>1, <2>1, <2>2, <2>3, SMTT(30) DEF GetDip, Dip
<1>2. CASE GetDup
  BY <1>2 DEF GetDup
<1>3. CASE GetSwap
  <2>1. /\ held[Len(held)] \in Value
        /\ held' \in Seq(Value) /\ Len(held') = Len(held) - 1
    BY <1>3, TakenBack DEF GetSwap, LeaveDip
  <2>2. /\ Head(stack) \in Value /\ Tail(stack) \in Seq(Value)
        /\ Len(Tail(stack)) = Len(stack) - 1
    BY <1>3, Popped DEF GetSwap
  <2>3. stack' \in Seq(Value) /\ Len(stack') = Len(stack) + 1
    BY <1>3, <2>1, <2>2, PushedTwo DEF GetSwap, Undip
  <2>4. UNCHANGED <<env, pc, walk, entry>> /\ pc = "get_up"
    BY <1>3 DEF GetSwap
  <2>5. TypeOK'
    BY <2>1, <2>2, <2>3, <2>4
  <2>6. Len(held) + Len(stack) = Len(held') + Len(stack')
    BY <2>1, <2>2, <2>3, <2>4
  <2>7. /\ pc' = "get_up"
        /\ Len(held') < Len(env')
    BY <2>1, <2>2, <2>3, <2>4
  <2>8. Len(held') + Len(stack') = Len(env') + 1
    BY <2>1, <2>2, <2>3, <2>4, <2>6
  <2>9. WalkInv'
    BY <2>7, <2>8
  <2> QED
    BY <2>5, <2>9
<1>4. CASE GetReturn
  BY <1>4, TmpAssumption DEF GetReturn, Return, NoSelector
<1>5. CASE SetSwapDip
  <2>1. Len(stack) >= 2
    BY <1>5 DEF SetSwapDip
  <2>2. stack' \in Seq(Value) /\ Len(stack') = Len(stack) - 1
    BY <1>5, <2>1, SecondRemoved DEF SetSwapDip, Dip
  <2>3. held' \in Seq(Value) /\ Len(held') = Len(held) + 1
    BY <1>5, <2>1, SetAside DEF SetSwapDip, Dip
  <2>4. /\ UNCHANGED <<env, pc, walk, entry>>
        /\ pc = "set_down" /\ Len(held) < target
    BY <1>5 DEF SetSwapDip
  <2>5. TypeOK'
    BY <2>2, <2>3, <2>4
  <2>6. Len(held) + Len(stack) = Len(held') + Len(stack')
    BY <2>2, <2>3, <2>4
  <2>7. /\ pc' = "set_down"
        /\ Len(held') <= target' /\ target' + 1 < Len(env')
        /\ env' # << >>
    BY <2>2, <2>3, <2>4
  <2>8. Len(held') + Len(stack') = Len(env')
    BY <2>2, <2>3, <2>4, <2>6
  <2>9. WalkInv'
    BY <2>7, <2>8
  <2> QED
    BY <2>5, <2>9
<1>6. CASE SetDrop
  <2>1. Len(stack) >= 2
    BY <1>6 DEF SetDrop
  <2>2. stack' \in Seq(Value) /\ Len(stack') = Len(stack) - 1
    BY <1>6, <2>1, SecondRemoved DEF SetDrop
  <2>3. UNCHANGED <<env, held, walk, entry>> /\ pc = "set_down" /\ pc' = "set_up"
    BY <1>6 DEF SetDrop
  <2> QED
    BY <2>2, <2>3
<1>7. CASE SetUndip
  <2>1. /\ held[Len(held)] \in Value
        /\ held' \in Seq(Value) /\ Len(held') = Len(held) - 1
    BY <1>7, TakenBack DEF SetUndip, LeaveDip
  <2>2. stack' \in Seq(Value) /\ Len(stack') = Len(stack) + 1
    BY <1>7, <2>1, Pushed DEF SetUndip, Undip
  <2>3. UNCHANGED <<env, pc, walk, entry>> /\ pc = "set_up"
    BY <1>7 DEF SetUndip
  <2> QED
    BY <2>1, <2>2, <2>3
<1>8. CASE SetReturn
  BY <1>8 DEF SetReturn, Return, NoSelector
<1>9. CASE ScanKeep
  BY <1>9 DEF ScanKeep
<1>10. CASE ScanSkip
  BY <1>10 DEF ScanSkip
<1>11. CASE ScanEnd
  BY <1>11 DEF ScanEnd
<1>12. CASE SelectDip
  <2>1. Len(stack) >= 1
    BY <1>12 DEF SelectDip
  <2>2. /\ Head(stack) \in Value /\ Tail(stack) \in Seq(Value)
        /\ Len(Tail(stack)) = Len(stack) - 1
    BY <1>12, <2>1, Popped
  <2>3. /\ Append(held, Head(stack)) \in Seq(Value)
        /\ Len(Append(held, Head(stack))) = Len(held) + 1
    BY <1>12, <2>2, SetAside
  <2> QED
    BY <1>12, <2>1, <2>2, <2>3 DEF SelectDip, Dip
<1>13. CASE SelectBottom
  BY <1>13 DEF SelectBottom
<1>14. CASE SelectKeep
  <2>1. /\ held[Len(held)] \in Value
        /\ held' \in Seq(Value) /\ Len(held') = Len(held) - 1
    BY <1>14, TakenBack DEF SelectKeep, LeaveDip
  <2>2. stack' \in Seq(Value) /\ Len(stack') = Len(stack) + 1
    BY <1>14, <2>1, Pushed DEF SelectKeep, Undip
  <2>3. UNCHANGED <<env, pc, walk, entry>> /\ pc = "select_up"
    BY <1>14 DEF SelectKeep
  <2>5. TypeOK'
    BY <2>1, <2>2, <2>3
  <2>6. Len(held) + Len(stack) = Len(held') + Len(stack')
    BY <2>1, <2>2, <2>3
  <2>7. WalkInv'
    BY <2>1, <2>2, <2>3, <2>5, <2>6
  <2> QED
    BY <2>5, <2>7
<1>15. CASE SelectDrop
  <2>1. /\ held[Len(held)] \in Value
        /\ held' \in Seq(Value) /\ Len(held') = Len(held) - 1
    BY <1>15, TakenBack DEF SelectDrop, LeaveDip
  <2>2. /\ Len(held) \in Nat \ {0} /\ Len(held) <= Len(env)
        /\ env \in Seq(Name)
    BY <1>15, TakenBack DEF SelectDrop
  <2>3. env' \in Seq(Name) /\ Len(env') = Len(env) - 1
    <3> DEFINE n == Len(held)
    <3>1. /\ n \in Nat /\ 1 <= n /\ n <= Len(env)
          /\ env' = SubSeq(env, 1, n - 1) \o SubSeq(env, n + 1, Len(env))
      BY <1>15, <2>2 DEF SelectDrop
    <3> HIDE DEF n
    <3> QED
      BY <2>2, <3>1, OneRemoved
  <2>4. UNCHANGED <<stack, pc, walk, entry>> /\ pc = "select_up"
    BY <1>15 DEF SelectDrop
  <2> QED
    BY <2>1, <2>3, <2>4
<1>16. CASE SelectReturn
  BY <1>16 DEF SelectReturn, Return, NoSelector
<1> QED
  BY <1>1, <1>2, <1>3, <1>4, <1>5, <1>6, <1>7, <1>8, <1>9, <1>10, <1>11,
     <1>12, <1>13, <1>14, <1>15, <1>16 DEF Fragment

\* A stuttering step keeps the invariant.
LEMMA StutterStep == IInv /\ UNCHANGED vars => IInv'
BY DEF IInv, TypeOK, WalkInv, Depth, vars, walk

\* The walks keep track of every value in every behaviour.
LEMMA InvariantHolds == Spec => []IInv
<1>1. IInv /\ [Next]_vars => IInv'
  BY ClientStep, FragmentStep, StutterStep DEF Next
<1> QED
  BY InitIInv, <1>1, PTL DEF Spec

-----------------------------------------------------------------------------
(* The scan of a restriction to an outer scope.  Position b is where the   *)
(* scope begins: the selector counts the names of b..target, those still   *)
(* to be met, and the positions kept are those of the scope already passed. *)

Met(e, b, t, s) == Cardinality({i \in b..t : e[i] = s})

Kept(e, b, t) == {i \in b..Len(e) : i > t}

ScanFrom(b) ==
    /\ selector = [s \in Name |-> Met(env, b, target, s)]
    /\ keep = Kept(env, b, target)

ScopeInv ==
    (pc \in {"scan", "select_down"} /\ floor = 1) =>
        \E b \in Nat : ScanFrom(b)

\* Passing position t takes one occurrence of its name away, if t is in the
\* scope, and no occurrence of any other.
LEMMA NamePassed ==
    ASSUME NEW e, NEW b \in Nat, NEW t \in Nat \ {0}, NEW s
    PROVE  Met(e, b, t - 1, s) = IF b <= t /\ e[t] = s THEN Met(e, b, t, s) - 1
                                                      ELSE Met(e, b, t, s)
<1> DEFINE old == {i \in b..t : e[i] = s}
           new == {i \in b..(t - 1) : e[i] = s}
<1>1. new = old \ {t}
  OBVIOUS
<1>2. t \in old <=> b <= t /\ e[t] = s
  OBVIOUS
<1>3. IsFiniteSet(old)
  <2>1. IsFiniteSet(b..t)
    BY FS_Interval
  <2>2. old \subseteq b..t
    OBVIOUS
  <2> QED
    BY <2>1, <2>2, FS_Subset
<1> HIDE DEF old, new
<1>4. Cardinality(old \ {t}) =
        IF t \in old THEN Cardinality(old) - 1 ELSE Cardinality(old)
  BY <1>3, FS_RemoveElement
<1>5. Met(e, b, t, s) = Cardinality(old) /\ Met(e, b, t - 1, s) = Cardinality(new)
  BY DEF Met, old, new
<1> QED
  BY <1>1, <1>2, <1>4, <1>5

\* A name is counted when, and only when, it is met in the scope.
LEMMA NameMet ==
    ASSUME NEW e, NEW b \in Nat, NEW t \in Nat \ {0}
    PROVE  b <= t <=> Met(e, b, t, e[t]) # 0
<1> DEFINE met == {i \in b..t : e[i] = e[t]}
<1>1. IsFiniteSet(met)
  <2>1. IsFiniteSet(b..t)
    BY FS_Interval
  <2>2. met \subseteq b..t
    OBVIOUS
  <2> QED
    BY <2>1, <2>2, FS_Subset
<1>2. b <= t <=> met # {}
  OBVIOUS
<1>3. Met(e, b, t, e[t]) = Cardinality(met)
  BY DEF Met
<1> HIDE DEF met
<1>4. Cardinality(met) = 0 <=> met = {}
  BY <1>1, FS_EmptySet
<1> QED
  BY <1>2, <1>3, <1>4

\* One step of the scan takes one name off the selector and keeps its
\* position, when the position is in the scope, and otherwise does neither.
LEMMA ScanAdvances ==
    ASSUME IInv, ScanKeep \/ ScanSkip, NEW b \in Nat, ScanFrom(b)
    PROVE  ScanFrom(b)'
<1>1. /\ pc = "scan" /\ env' = env /\ target' = target - 1
      /\ target \in Nat \ {0} /\ target <= Len(env)
      /\ env \in Seq(Name) /\ Len(env) \in Nat /\ env[target] \in Name
      /\ selector \in [Name -> Nat]
  BY DEF ScanKeep, ScanSkip, IInv, TypeOK, WalkInv
<1>2. /\ selector = [s \in Name |-> Met(env, b, target, s)]
      /\ keep = Kept(env, b, target)
  BY DEF ScanFrom
<1>3. b <= target <=> selector[env[target]] # 0
  BY <1>1, <1>2, NameMet
<1>4. CASE ScanKeep
  <2>1. b <= target
    BY <1>1, <1>3, <1>4 DEF ScanKeep
  <2>2. keep' = Kept(env, b, target - 1)
    BY <1>1, <1>2, <1>4, <2>1 DEF ScanKeep, Kept
  <2>3. selector' = [selector EXCEPT ![env[target]] = selector[env[target]] - 1]
    BY <1>4 DEF ScanKeep
  <2>4. \A s \in Name : Met(env, b, target - 1, s) =
           IF s = env[target] THEN selector[s] - 1 ELSE selector[s]
    BY <1>1, <1>2, <2>1, NamePassed
  <2>5. selector' = [s \in Name |-> Met(env, b, target - 1, s)]
    BY <1>1, <2>3, <2>4
  <2> QED
    BY <1>1, <2>2, <2>5 DEF ScanFrom
<1>5. CASE ScanSkip
  <2>1. selector[env[target]] = 0 /\ UNCHANGED <<keep, selector>>
    BY <1>5 DEF ScanSkip
  <2>2. b > target
    BY <1>1, <1>3, <2>1
  <2>3. keep' = Kept(env, b, target - 1)
    BY <1>1, <1>2, <2>1, <2>2 DEF Kept
  <2>4. \A s \in Name : Met(env, b, target - 1, s) = Met(env, b, target, s)
    BY <1>1, <2>2, NamePassed
  <2>5. selector' = [s \in Name |-> Met(env, b, target - 1, s)]
    BY <1>1, <1>2, <2>1, <2>4
  <2> QED
    BY <1>1, <2>3, <2>5 DEF ScanFrom
<1> QED
  BY <1>4, <1>5

\* The scan of a restriction, and nothing else, advances its invariant.
LEMMA ScopeStep == IInv /\ ScopeInv /\ [Next]_vars => ScopeInv'
<1> SUFFICES ASSUME IInv, ScopeInv, [Next]_vars PROVE ScopeInv'
  OBVIOUS
<1>1. ASSUME NEW m \in 0..MaxEnv, RestrictTo(m) PROVE ScopeInv'
  <2> DEFINE b == Len(env) - m + 1
  <2>1. env \in Seq(Name) /\ Len(env) \in Nat /\ m \in Nat /\ m < Len(env)
    BY <1>1, MaxEnvAssumption DEF RestrictTo, IInv, TypeOK
  <2>2. b \in Nat
    BY <2>1
  <2>3. /\ env' = env /\ target' = Len(env) /\ keep' = {}
        /\ selector' = [s \in Name |-> Count(s, env, b)]
    BY <1>1 DEF RestrictTo, CallSelect
  <2> HIDE DEF b
  <2>4. selector' = [s \in Name |-> Met(env', b, target', s)]
    BY <2>3 DEF Met, Count
  <2>5. keep' = Kept(env', b, target')
    BY <2>1, <2>2, <2>3 DEF Kept
  <2> QED
    BY <2>2, <2>4, <2>5 DEF ScopeInv, ScanFrom
<1>2. CASE ScanKeep \/ ScanSkip
  <2> SUFFICES ASSUME floor = 1 PROVE ScopeInv'
    BY <1>2 DEF ScopeInv, ScanKeep, ScanSkip
  <2>1. pc = "scan"
    BY <1>2 DEF ScanKeep, ScanSkip
  <2>2. PICK b \in Nat : ScanFrom(b)
    BY <2>1 DEF ScopeInv
  <2>3. ScanFrom(b)'
    BY <1>2, <2>2, ScanAdvances
  <2> QED
    BY <2>3 DEF ScopeInv
<1>3. CASE ScanEnd \/ SelectDip \/ UNCHANGED vars
  <2>1. /\ UNCHANGED <<env, walk>>
        /\ pc \in {"scan", "select_down"} \/ UNCHANGED pc
    BY <1>3 DEF ScanEnd, SelectDip, vars
  <2> QED
    BY <2>1 DEF ScopeInv, ScanFrom, walk
<1>4. CASE \/ \E v \in Value : Push(v)
           \/ \E s \in Name : Bind(s) \/ CallGet(s) \/ CallSet(s)
           \/ Drop
  BY <1>4 DEF ScopeInv, Push, Bind, Drop, CallGet, CallSet
<1>5. CASE RestrictBlock \/ Clear
  BY <1>5 DEF ScopeInv, RestrictBlock, Clear, CallSelect
<1>6. CASE \/ GetDip \/ GetDup \/ GetSwap \/ GetReturn
           \/ SetSwapDip \/ SetDrop \/ SetUndip \/ SetReturn
  BY <1>6 DEF ScopeInv, GetDip, GetDup, GetSwap, GetReturn,
              SetSwapDip, SetDrop, SetUndip, SetReturn, Return
<1>7. CASE SelectBottom \/ SelectKeep \/ SelectDrop \/ SelectReturn
  BY <1>7 DEF ScopeInv, SelectBottom, SelectKeep, SelectDrop, SelectReturn, Return
<1> QED
  BY <1>1, <1>2, <1>3, <1>4, <1>5, <1>6, <1>7 DEF Next, Client, Fragment

-----------------------------------------------------------------------------
(* What the walks carry: the contents of the stack in reach and of the     *)
(* values set aside, beside the bindings on entry.                         *)

\* The names n are those of the bindings e, in order.
NamesOf(n, e) == Len(n) = Len(e) /\ \A i \in 1..Len(e) : n[i] = e[i].name

\* The values h set aside and then the stack s are the values of e, in order.
Spread(h, s, e) ==
    /\ Len(h) + Len(s) = Len(e)
    /\ \A i \in 1..Len(h) : h[i] = e[i].val
    /\ \A j \in 1..Len(s) : s[j] = e[Len(h) + j].val

\* The bindings below the new value, with the value at position t replaced.
Assigned(e, t) ==
    [i \in 1..(Len(e) - 1) |->
        [name |-> e[i + 1].name,
         val  |-> IF i = t + 1 THEN e[1].val ELSE e[i + 1].val]]

\* The bindings e without those between position c and position b.
Cut(e, c, b) == SubSeq(e, 1, c) \o SubSeq(e, b, Len(e))

\* When select keeps the positions from b on, and the first one if top = 1,
\* and has come up to position k, this many positions inside b are left.
Inner(k, b, top) == IF k = 0 THEN top ELSE IF k < b THEN k ELSE b - 1

\* The positions kept are those from b on and, if top = 1, the first one; a
\* restriction that drops the first position keeps all the others.
KeptFrom(b, top) ==
    /\ b \in 2..(Len(entry) + 1) /\ top \in 0..1
    /\ top = 0 => b = 2
    /\ \A i \in 1..Len(entry) :
          (i \in keep \/ i <= floor) <=> (i >= b \/ (i = 1 /\ top = 1))

\* The name of some variable is bound first at position i.
Variable(i, e) == \E s \in Name \ {Tmp} : IsInnermost(i, s, e)

\* clear looks for the name of the result, which is bound once.
ClearScan ==
    /\ \A i \in 2..Len(env) : env[i] # Tmp
    /\ selector = [NoSelector EXCEPT ![Tmp] = IF target = 0 THEN 0 ELSE 1]
    /\ keep = IF target = 0 THEN {1} ELSE {}

IdleContents == pc = "idle" => Len(env) <= MaxEnv

EntryContents ==
    pc # "idle" => entry # << >> /\ Len(entry) <= MaxEnv

GetContents ==
    pc \in {"get_down", "get_up"} =>
        /\ NamesOf(env, entry) /\ Len(env) < MaxEnv
        /\ Variable(target + 1, env)
        /\ pc = "get_down" => Spread(held, stack, entry)
        /\ pc = "get_up" => /\ stack # << >>
                            /\ Head(stack) = entry[target + 1].val
                            /\ Spread(held, Tail(stack), entry)

SetContents ==
    pc \in {"set_down", "set_up"} =>
        /\ NamesOf(env, entry) /\ env[1] = Tmp
        /\ Variable(target + 1, Tail(env))
        /\ pc = "set_down" => /\ stack # << >>
                              /\ Head(stack) = entry[1].val
                              /\ Spread(held, Tail(stack), Tail(entry))
        /\ pc = "set_up" => Spread(held, stack, Assigned(entry, target))

SelectContents ==
    /\ pc \in {"scan", "select_down", "select_up"} => entry[1].name = Tmp
    /\ pc \in {"scan", "select_down"} =>
         NamesOf(env, entry) /\ Spread(held, stack, entry)
    /\ pc = "scan" /\ floor = 0 => ScanFrom(2) \/ ClearScan
    /\ pc = "select_down" => \E b \in Nat, top \in 0..1 : KeptFrom(b, top)
    /\ pc = "select_up" =>
         \E b \in Nat, top \in 0..1 :
            LET left == Cut(entry, Inner(Len(held), b, top), b)
            IN  KeptFrom(b, top) /\ NamesOf(env, left) /\ Spread(held, stack, left)

ContentsInv ==
    /\ IdleContents /\ EntryContents
    /\ GetContents /\ SetContents /\ SelectContents

\* Entering a DIP sets the value on top aside and nothing moves.
LEMMA Entered ==
    ASSUME NEW h \in Seq(Value), NEW s \in Seq(Value), NEW e,
           Spread(h, s, e), s # << >>
    PROVE  Spread(Append(h, Head(s)), Tail(s), e)
<1>1. /\ Len(s) >= 1 /\ Len(s) \in Nat /\ Len(h) \in Nat
      /\ Head(s) \in Value /\ Head(s) = s[1]
      /\ Tail(s) \in Seq(Value) /\ Len(Tail(s)) = Len(s) - 1
      /\ \A i \in 1..(Len(s) - 1) : Tail(s)[i] = s[i + 1]
  BY EmptySeq, Popped
<1>2. /\ Len(Append(h, Head(s))) = Len(h) + 1
      /\ Append(h, Head(s))[Len(h) + 1] = Head(s)
      /\ \A i \in 1..Len(h) : Append(h, Head(s))[i] = h[i]
  BY <1>1, SetAside
<1>3. /\ Len(h) + Len(s) = Len(e)
      /\ \A i \in 1..Len(h) : h[i] = e[i].val
      /\ \A j \in 1..Len(s) : s[j] = e[Len(h) + j].val
  BY DEF Spread
<1>4. ASSUME NEW i \in 1..(Len(h) + 1)
      PROVE  Append(h, Head(s))[i] = e[i].val
  <2>1. CASE i = Len(h) + 1
    <3>1. 1 \in 1..Len(s)
      BY <1>1
    <3> QED
      BY <1>1, <1>2, <1>3, <2>1, <3>1
  <2>2. CASE i # Len(h) + 1
    <3>1. i \in 1..Len(h)
      BY <1>1, <2>2
    <3> QED
      BY <1>2, <1>3, <3>1
  <2> QED
    BY <2>1, <2>2
<1>5. ASSUME NEW j \in 1..(Len(s) - 1)
      PROVE  Tail(s)[j] = e[Len(h) + 1 + j].val
  <2>1. j + 1 \in 1..Len(s) /\ Len(h) + (j + 1) = Len(h) + 1 + j
    BY <1>1
  <2> QED
    BY <1>1, <1>3, <2>1
<1> QED
  BY <1>1, <1>2, <1>3, <1>4, <1>5 DEF Spread

\* Leaving a DIP puts the value set aside last on top and nothing moves.
LEMMA LeftAgain ==
    ASSUME NEW h \in Seq(Value), NEW s \in Seq(Value), NEW e,
           Spread(h, s, e), h # << >>
    PROVE  Spread(SubSeq(h, 1, Len(h) - 1), <<h[Len(h)]>> \o s, e)
<1>1. /\ Len(s) \in Nat /\ Len(h) \in Nat \ {0}
      /\ h[Len(h)] \in Value
      /\ Len(SubSeq(h, 1, Len(h) - 1)) = Len(h) - 1
      /\ \A i \in 1..(Len(h) - 1) : SubSeq(h, 1, Len(h) - 1)[i] = h[i]
  BY TakenBack
<1>2. /\ Len(<<h[Len(h)]>> \o s) = Len(s) + 1
      /\ (<<h[Len(h)]>> \o s)[1] = h[Len(h)]
      /\ \A i \in 1..Len(s) : (<<h[Len(h)]>> \o s)[i + 1] = s[i]
  BY <1>1, Pushed
<1>3. /\ Len(h) + Len(s) = Len(e)
      /\ \A i \in 1..Len(h) : h[i] = e[i].val
      /\ \A j \in 1..Len(s) : s[j] = e[Len(h) + j].val
  BY DEF Spread
<1> DEFINE hh == SubSeq(h, 1, Len(h) - 1)
           ss == <<h[Len(h)]>> \o s
<1> HIDE DEF hh, ss
<1>4. ASSUME NEW j \in 1..(Len(s) + 1)
      PROVE  ss[j] = e[(Len(h) - 1) + j].val
  <2>1. CASE j = 1
    <3>1. (Len(h) - 1) + j = Len(h) /\ Len(h) \in 1..Len(h)
      BY <1>1, <2>1
    <3> QED
      BY <1>2, <1>3, <2>1, <3>1 DEF ss
  <2>2. CASE j # 1
    <3>1. /\ j - 1 \in 1..Len(s) /\ (j - 1) + 1 = j
          /\ Len(h) + (j - 1) = (Len(h) - 1) + j
      BY <1>1, <2>2
    <3> QED
      BY <1>2, <1>3, <3>1 DEF ss
  <2> QED
    BY <2>1, <2>2
<1>5. \A i \in 1..(Len(h) - 1) : hh[i] = e[i].val
  BY <1>1, <1>3 DEF hh
<1>6. Len(hh) = Len(h) - 1 /\ Len(ss) = Len(s) + 1
  BY <1>1, <1>2 DEF hh, ss
<1>7. Spread(hh, ss, e)
  <2>1. Len(hh) + Len(ss) = Len(e)
    <3>1. Len(h) \in Nat /\ Len(s) \in Nat /\ Len(h) + Len(s) = Len(e)
      BY <1>1, <1>3
    <3> QED
      BY <1>6, <3>1
  <2>2. \A i \in 1..Len(hh) : hh[i] = e[i].val
    BY <1>5, <1>6
  <2>3. \A j \in 1..Len(ss) : ss[j] = e[Len(hh) + j].val
    BY <1>4, <1>6
  <2> QED
    BY <2>1, <2>2, <2>3 DEF Spread
<1> QED
  BY <1>7 DEF hh, ss

\* A binding is its name with its value.
LEMMA BindingParts ==
    ASSUME NEW r \in Binding
    PROVE  /\ r = [name |-> r.name, val |-> r.val]
           /\ r.name \in Name /\ r.val \in Value
BY DEF Binding

\* When no DIP is entered, the names and the values make up the bindings.
LEMMA Paired ==
    ASSUME NEW e \in Seq(Binding), NEW n \in Seq(Name), NEW s \in Seq(Value),
           NamesOf(n, e), Spread(<< >>, s, e)
    PROVE  [i \in 1..Len(n) |-> [name |-> n[i], val |-> s[i]]] = e
<1> DEFINE p == [i \in 1..Len(n) |-> [name |-> n[i], val |-> s[i]]]
<1>1. Len(e) \in Nat /\ Len(n) = Len(e) /\ Len(s) = Len(e)
  BY DEF NamesOf, Spread
<1>2. \A i \in 1..Len(e) : n[i] = e[i].name /\ s[i] = e[i].val
  BY <1>1 DEF NamesOf, Spread
<1>3. \A i \in 1..Len(e) : p[i] = e[i]
  <2>1. \A i \in 1..Len(e) : e[i] \in Binding
    OBVIOUS
  <2> QED
    BY <1>1, <1>2, <2>1, BindingParts
<1>4. p \in Seq(Binding) /\ Len(p) = Len(e)
  BY <1>1 DEF Binding
<1> HIDE DEF p
<1>5. p = e
  BY <1>3, <1>4, SeqEqual
<1> QED
  BY <1>5 DEF p

\* The value found by set is overwritten and no other.
LEMMA Overwritten ==
    ASSUME NEW h \in Seq(Value), NEW s \in Seq(Value), NEW e \in Seq(Binding),
           e # << >>, s # << >>, Spread(h, s, Tail(e))
    PROVE  Spread(h, <<e[1].val>> \o Tail(s), Assigned(e, Len(h)))
<1> DEFINE t == Len(h)
           f == Assigned(e, t)
           ss == <<e[1].val>> \o Tail(s)
<1>1. /\ Len(s) >= 1 /\ Len(s) \in Nat /\ t \in Nat /\ Len(e) \in Nat
      /\ Tail(s) \in Seq(Value) /\ Len(Tail(s)) = Len(s) - 1
      /\ \A i \in 1..(Len(s) - 1) : Tail(s)[i] = s[i + 1]
  BY EmptySeq, Popped
<1>2. /\ Len(e) >= 1 /\ Len(Tail(e)) = Len(e) - 1
      /\ \A i \in 1..(Len(e) - 1) : Tail(e)[i] = e[i + 1]
  BY EmptySeq, Popped
<1>3. e[1].val \in Value
  BY <1>1, <1>2, BindingParts
<1>4. /\ Len(ss) = Len(s) /\ ss[1] = e[1].val
      /\ \A i \in 1..(Len(s) - 1) : ss[i + 1] = Tail(s)[i]
  BY <1>1, <1>3, Pushed
<1>5. Len(f) = Len(e) - 1
  BY <1>1, <1>2 DEF Assigned
<1>6. \A i \in 1..(Len(e) - 1) :
         f[i].val = IF i = t + 1 THEN e[1].val ELSE e[i + 1].val
  <2> DEFINE v(i) == IF i = t + 1 THEN e[1].val ELSE e[i + 1].val
  <2>1. f = [i \in 1..(Len(e) - 1) |-> [name |-> e[i + 1].name, val |-> v(i)]]
    BY DEF Assigned
  <2> HIDE DEF f, v
  <2>2. \A i \in 1..(Len(e) - 1) : f[i].val = v(i)
    BY <2>1
  <2> QED
    BY <2>2 DEF v
<1>7. /\ t + Len(s) = Len(e) - 1
      /\ \A i \in 1..t : h[i] = Tail(e)[i].val
      /\ \A j \in 1..Len(s) : s[j] = Tail(e)[t + j].val
  BY <1>2 DEF Spread
<1> HIDE DEF f, ss
<1>8. ASSUME NEW i \in 1..t PROVE h[i] = f[i].val
  <2>1. i \in 1..(Len(e) - 1) /\ i # t + 1
    BY <1>1, <1>7
  <2> QED
    BY <1>2, <1>6, <1>7, <2>1
<1>9. ASSUME NEW j \in 1..Len(s) PROVE ss[j] = f[t + j].val
  <2>1. t + j \in 1..(Len(e) - 1)
    BY <1>1, <1>7
  <2>2. CASE j = 1
    BY <1>1, <1>4, <1>6, <2>1, <2>2
  <2>3. CASE j # 1
    <3>1. /\ j - 1 \in 1..(Len(s) - 1) /\ (j - 1) + 1 = j /\ t + j # t + 1
      BY <1>1, <2>3
    <3>2. ss[j] = s[j]
      BY <1>1, <1>4, <3>1
    <3> QED
      BY <1>2, <1>6, <1>7, <2>1, <3>1, <3>2
  <2> QED
    BY <2>2, <2>3
<1>10. Spread(h, ss, f)
  BY <1>1, <1>4, <1>5, <1>7, <1>8, <1>9 DEF Spread
<1> QED
  BY <1>10 DEF f, ss

\* The elements of a list from which a middle part has been cut.
LEMMA CutAt ==
    ASSUME NEW e \in Seq(Binding), NEW c \in Nat, NEW b \in Nat,
           c < b, b <= Len(e) + 1
    PROVE  /\ Cut(e, c, b) \in Seq(Binding)
           /\ Len(Cut(e, c, b)) = c + (Len(e) - b + 1)
           /\ \A i \in 1..c : Cut(e, c, b)[i] = e[i]
           /\ \A j \in 1..(Len(e) - b + 1) : Cut(e, c, b)[c + j] = e[b - 1 + j]
<1> DEFINE l == Len(e)
           t == SubSeq(e, 1, c)
           u == SubSeq(e, b, l)
<1>1. l \in Nat /\ c <= l /\ 1 <= b
  OBVIOUS
<1>2. t \in Seq(Binding) /\ u \in Seq(Binding)
  BY <1>1
<1>3. Len(t) = c
  <2>1. Len(SubSeq(e, 1, c)) = c - 1 + 1
    BY <1>1, SliceLen
  <2> QED
    BY <2>1
<1>4. Len(u) = l - b + 1
  <2> HIDE DEF l
  <2>1. l <= Len(e) /\ b <= l + 1
    BY <1>1 DEF l
  <2> QED
    BY <1>1, <2>1, SliceLen
<1>5. \A i \in 1..c : t[i] = e[i]
  BY <1>1
<1>6. \A j \in 1..(l - b + 1) : u[j] = e[b - 1 + j]
  BY <1>1
<1> HIDE DEF t, u
<1>7. t \o u \in Seq(Binding) /\ Len(t \o u) = c + (l - b + 1)
  BY <1>1, <1>2, <1>3, <1>4, SMTT(30)
<1>8. \A i \in 1..c : (t \o u)[i] = e[i]
  BY <1>1, <1>2, <1>3, <1>4, <1>5
<1>9. ASSUME NEW j \in 1..(l - b + 1) PROVE (t \o u)[c + j] = e[b - 1 + j]
  <2>1. c + j \in (Len(t) + 1)..(Len(t) + Len(u)) /\ (c + j) - Len(t) = j
    BY <1>1, <1>3, <1>4
  <2>2. (t \o u)[c + j] = u[j]
    BY <1>2, <1>3, <1>4, <2>1
  <2> QED
    BY <1>6, <2>2
<1> QED
  BY <1>7, <1>8, <1>9 DEF t, u, l, Cut

\* Cutting nothing leaves all bindings.
LEMMA CutWhole ==
    ASSUME NEW e \in Seq(Binding), NEW b \in Nat, 1 <= b, b <= Len(e) + 1
    PROVE  Cut(e, b - 1, b) = e
<1> DEFINE r == Cut(e, b - 1, b)
<1>1. b - 1 \in Nat /\ b - 1 < b /\ Len(e) \in Nat
  OBVIOUS
<1>2. /\ r \in Seq(Binding)
      /\ Len(r) = (b - 1) + (Len(e) - b + 1)
      /\ \A i \in 1..(b - 1) : r[i] = e[i]
      /\ \A j \in 1..(Len(e) - b + 1) : r[(b - 1) + j] = e[b - 1 + j]
  BY <1>1, CutAt
<1> HIDE DEF r
<1>3. Len(r) = Len(e)
  BY <1>1, <1>2
<1>4. ASSUME NEW i \in 1..Len(e) PROVE r[i] = e[i]
  <2>1. CASE i < b
    BY <1>2, <2>1
  <2>2. CASE i >= b
    <3>1. i - (b - 1) \in 1..(Len(e) - b + 1) /\ (b - 1) + (i - (b - 1)) = i
      BY <1>1, <2>2
    <3> QED
      BY <1>2, <3>1
  <2> QED
    BY <1>1, <2>1, <2>2
<1>5. r = e
  BY <1>2, <1>3, <1>4, SeqEqual
<1> QED
  BY <1>5 DEF r

\* Dropping the innermost position that is left above the cut widens the cut.
LEMMA CutWider ==
    ASSUME NEW e \in Seq(Binding), NEW n \in Seq(Name),
           NEW h \in Seq(Value), NEW s \in Seq(Value), NEW b \in Nat,
           h # << >>, Len(h) < b, b <= Len(e) + 1,
           NamesOf(n, Cut(e, Len(h), b)), Spread(h, s, Cut(e, Len(h), b))
    PROVE  /\ NamesOf(SubSeq(n, 1, Len(h) - 1) \o SubSeq(n, Len(h) + 1, Len(n)),
                      Cut(e, Len(h) - 1, b))
           /\ Spread(SubSeq(h, 1, Len(h) - 1), s, Cut(e, Len(h) - 1, b))
<1> DEFINE c == Len(h)
           old == Cut(e, c, b)
           new == Cut(e, c - 1, b)
           nn == SubSeq(n, 1, c - 1) \o SubSeq(n, c + 1, Len(n))
           hh == SubSeq(h, 1, c - 1)
<1>1. /\ c \in Nat /\ c >= 1 /\ Len(hh) = c - 1
      /\ \A i \in 1..(c - 1) : hh[i] = h[i]
  BY TakenBack
<1>2. Len(e) \in Nat /\ Len(s) \in Nat /\ Len(n) \in Nat
  OBVIOUS
<1>3. /\ Len(old) = c + (Len(e) - b + 1)
      /\ \A i \in 1..c : old[i] = e[i]
      /\ \A j \in 1..(Len(e) - b + 1) : old[c + j] = e[b - 1 + j]
  BY <1>1, CutAt
<1>4. /\ Len(new) = (c - 1) + (Len(e) - b + 1)
      /\ \A i \in 1..(c - 1) : new[i] = e[i]
      /\ \A j \in 1..(Len(e) - b + 1) : new[(c - 1) + j] = e[b - 1 + j]
  <2>1. c - 1 \in Nat /\ c - 1 < b
    BY <1>1
  <2> HIDE DEF c
  <2> QED
    BY <2>1, CutAt
<1>5. Len(n) = Len(old) /\ \A i \in 1..Len(old) : n[i] = old[i].name
  BY DEF NamesOf
<1>6. /\ c + Len(s) = Len(old)
      /\ \A i \in 1..c : h[i] = old[i].val
      /\ \A j \in 1..Len(s) : s[j] = old[c + j].val
  BY DEF Spread
<1>7. /\ Len(nn) = Len(n) - 1
      /\ \A i \in 1..(c - 1) : nn[i] = n[i]
      /\ \A i \in c..(Len(n) - 1) : nn[i] = n[i + 1]
  <2>1. c \in Nat /\ 1 <= c /\ c <= Len(n)
    BY <1>1, <1>2, <1>3, <1>5
  <2> HIDE DEF c
  <2> QED
    BY <2>1, OneRemoved
<1> HIDE DEF c, old, new, nn, hh
<1>8. ASSUME NEW i \in 1..Len(new) PROVE nn[i] = new[i].name
  <2>1. CASE i <= c - 1
    <3>1. i \in 1..(c - 1) /\ i \in 1..c /\ i \in 1..Len(old)
      BY <1>1, <1>2, <1>3, <1>4, <2>1, SMTT(30)
    <3> QED
      BY <1>3, <1>4, <1>5, <1>7, <3>1
  <2>2. CASE i > c - 1
    <3> DEFINE j == i - (c - 1)
    <3>1. /\ j \in 1..(Len(e) - b + 1) /\ (c - 1) + j = i
          /\ c + j = i + 1 /\ i + 1 \in 1..Len(old)
          /\ i \in c..(Len(n) - 1)
      BY <1>1, <1>2, <1>3, <1>4, <1>5, <2>2
    <3> HIDE DEF j
    <3>2. new[i] = e[b - 1 + j] /\ old[i + 1] = e[b - 1 + j]
      BY <1>3, <1>4, <3>1
    <3> QED
      BY <1>5, <1>7, <3>1, <3>2
  <2> QED
    BY <1>1, <2>1, <2>2
<1>9. NamesOf(nn, new)
  BY <1>1, <1>2, <1>3, <1>4, <1>5, <1>7, <1>8 DEF NamesOf
<1>10. ASSUME NEW i \in 1..(c - 1) PROVE hh[i] = new[i].val
  <2>1. i \in 1..c
    BY <1>1
  <2> QED
    BY <1>1, <1>3, <1>4, <1>6, <2>1
<1>11. ASSUME NEW j \in 1..Len(s) PROVE s[j] = new[(c - 1) + j].val
  <2>1. j \in 1..(Len(e) - b + 1)
    BY <1>1, <1>2, <1>3, <1>6
  <2> QED
    BY <1>3, <1>4, <1>6, <2>1
<1>12. Spread(hh, s, new)
  BY <1>1, <1>2, <1>3, <1>4, <1>6, <1>10, <1>11 DEF Spread
<1> QED
  BY <1>9, <1>12 DEF nn, hh, new, c

\* Two values down, a stack goes on as it did.
LEMMA ThirdOn ==
    ASSUME NEW S, NEW s \in Seq(S), Len(s) >= 2
    PROVE  /\ Tail(s) \in Seq(S) /\ Tail(s) # << >>
           /\ Head(Tail(s)) = s[2]
           /\ Tail(Tail(s)) \in Seq(S)
           /\ SubSeq(s, 3, Len(s)) = Tail(Tail(s))
<1> DEFINE t == Tail(s)
<1>1. /\ Len(s) \in Nat /\ t \in Seq(S) /\ Len(t) = Len(s) - 1
      /\ \A i \in 1..(Len(s) - 1) : t[i] = s[i + 1]
  BY Popped
<1> HIDE DEF t
<1>2. /\ Head(t) = t[1] /\ Tail(t) \in Seq(S) /\ Len(Tail(t)) = Len(t) - 1
      /\ \A i \in 1..(Len(t) - 1) : Tail(t)[i] = t[i + 1]
  BY <1>1, Popped
<1>3. t # << >> /\ Head(t) = s[2]
  <2>1. 1 \in 1..(Len(s) - 1)
    BY <1>1
  <2> QED
    BY <1>1, <1>2, <2>1, EmptySeq
<1> DEFINE u == SubSeq(s, 3, Len(s))
<1>4. u \in Seq(S)
  BY <1>1
<1>5. \A i \in 1..(Len(s) - 2) : u[i] = s[i + 2]
  BY <1>1
<1>6. Len(u) = Len(s) - 2
  <2> DEFINE n == Len(s)
  <2>1. n \in Nat /\ 3 <= n + 1 /\ n <= Len(s)
    BY <1>1
  <2> HIDE DEF n
  <2>2. Len(SubSeq(s, 3, n)) = n - 3 + 1
    BY <2>1, SliceLen
  <2> QED
    BY <2>1, <2>2 DEF n
<1> HIDE DEF u
<1>7. ASSUME NEW i \in 1..(Len(s) - 2) PROVE u[i] = Tail(t)[i]
  <2>1. i \in 1..(Len(t) - 1) /\ i + 1 \in 1..(Len(s) - 1)
    BY <1>1
  <2>2. Tail(t)[i] = s[(i + 1) + 1] /\ (i + 1) + 1 = i + 2
    BY <1>1, <1>2, <2>1
  <2> QED
    BY <1>5, <2>2
<1>8. u = Tail(t)
  <2>1. Tail(t) \in Seq(S) /\ Len(Tail(t)) = Len(u)
    BY <1>1, <1>2, <1>6
  <2>2. \A i \in 1..Len(u) : u[i] = Tail(t)[i]
    BY <1>6, <1>7
  <2> QED
    BY <1>4, <2>1, <2>2, SeqEqual
<1> QED
  BY <1>1, <1>2, <1>3, <1>8 DEF t, u

\* Pushing a value leaves the others as the tail.
LEMMA PushTail ==
    ASSUME NEW S, NEW x \in S, NEW s \in Seq(S)
    PROVE  /\ Head(<<x>> \o s) = x /\ Tail(<<x>> \o s) = s
           /\ <<x>> \o s # << >>
<1>1. /\ <<x>> \o s \in Seq(S) /\ Len(<<x>> \o s) = Len(s) + 1
      /\ (<<x>> \o s)[1] = x
      /\ \A i \in 1..Len(s) : (<<x>> \o s)[i + 1] = s[i]
  BY Pushed
<1> DEFINE t == <<x>> \o s
<1> HIDE DEF t
<1>2. t \in Seq(S) /\ Len(t) >= 1 /\ Len(t) = Len(s) + 1 /\ Len(s) \in Nat
  BY <1>1 DEF t
<1>3. /\ Head(t) = t[1] /\ Tail(t) \in Seq(S) /\ Len(Tail(t)) = Len(s)
      /\ \A i \in 1..Len(s) : Tail(t)[i] = t[i + 1]
  BY <1>2, Popped
<1>4. Tail(t) = s
  BY <1>1, <1>3, SeqEqual DEF t
<1>5. t # << >>
  BY <1>2
<1> QED
  BY <1>1, <1>3, <1>4, <1>5 DEF t

\* SWAP under what it brings up: the value above it stays on top.
LEMMA PushTwoTail ==
    ASSUME NEW S, NEW x \in S, NEW y \in S, NEW s \in Seq(S)
    PROVE  /\ Head(<<x, y>> \o s) = x /\ Tail(<<x, y>> \o s) = <<y>> \o s
           /\ <<x, y>> \o s # << >>
<1> DEFINE t == <<y>> \o s
<1>1. /\ t \in Seq(S) /\ Len(t) = Len(s) + 1 /\ t[1] = y
      /\ \A i \in 1..Len(s) : t[i + 1] = s[i]
  BY Pushed
<1>2. /\ <<x, y>> \o s \in Seq(S) /\ Len(<<x, y>> \o s) = Len(s) + 2
      /\ (<<x, y>> \o s)[1] = x /\ (<<x, y>> \o s)[2] = y
      /\ \A i \in 1..Len(s) : (<<x, y>> \o s)[i + 2] = s[i]
  BY PushedTwo
<1> HIDE DEF t
<1>3. /\ <<x>> \o t \in Seq(S) /\ Len(<<x>> \o t) = Len(t) + 1
      /\ (<<x>> \o t)[1] = x
      /\ \A i \in 1..Len(t) : (<<x>> \o t)[i + 1] = t[i]
  BY <1>1, Pushed
<1>4. ASSUME NEW i \in 1..(Len(s) + 2)
      PROVE  (<<x, y>> \o s)[i] = (<<x>> \o t)[i]
  <2>1. Len(s) \in Nat
    OBVIOUS
  <2>2. CASE i = 1
    BY <1>2, <1>3, <2>2
  <2>3. CASE i = 2
    <3>1. 1 \in 1..Len(t)
      BY <1>1, <2>1
    <3> QED
      BY <1>1, <1>2, <1>3, <2>3, <3>1
  <2>4. CASE i > 2
    <3>1. /\ i - 1 \in 1..Len(t) /\ (i - 1) + 1 = i
          /\ i - 2 \in 1..Len(s) /\ (i - 2) + 1 = i - 1 /\ (i - 2) + 2 = i
      BY <1>1, <2>1, <2>4
    <3> QED
      BY <1>1, <1>2, <1>3, <3>1
  <2>5. i = 1 \/ i = 2 \/ i > 2
    BY <2>1
  <2> QED
    BY <2>2, <2>3, <2>4, <2>5
<1>5. Len(<<x, y>> \o s) = Len(<<x>> \o t)
  BY <1>1, <1>2, <1>3
<1>6. <<x, y>> \o s = <<x>> \o t
  BY <1>2, <1>3, <1>4, <1>5, SeqEqual
<1>7. Head(<<x>> \o t) = x /\ Tail(<<x>> \o t) = t /\ <<x>> \o t # << >>
  BY <1>1, PushTail
<1> QED
  BY <1>6, <1>7 DEF t

\* Between fragments the bindings are those of the environment and the stack.
LEMMA BindingsNow ==
    ASSUME IInv, pc = "idle"
    PROVE  /\ Bindings \in Seq(Binding)
           /\ Len(Bindings) = Len(env)
           /\ \A i \in 1..Len(env) : /\ Bindings[i].name = env[i]
                                     /\ Bindings[i].val = stack[i]
           /\ NamesOf(env, Bindings)
           /\ Spread(held, stack, Bindings)
<1>1. /\ env \in Seq(Name) /\ stack \in Seq(Value) /\ held = << >>
      /\ Len(stack) = Len(env) /\ Len(env) \in Nat
  BY DEF IInv, TypeOK, WalkInv
<1>2. Bindings = [i \in 1..Len(env) |-> [name |-> env[i], val |-> stack[i]]]
  BY DEF Bindings
<1>3. \A i \in 1..Len(env) : env[i] \in Name /\ stack[i] \in Value
  BY <1>1
<1>4. Bindings \in Seq(Binding) /\ Len(Bindings) = Len(env)
  BY <1>1, <1>2, <1>3 DEF Binding
<1>5. \A i \in 1..Len(env) : Bindings[i].name = env[i] /\ Bindings[i].val = stack[i]
  BY <1>2
<1>6. NamesOf(env, Bindings)
  BY <1>4, <1>5 DEF NamesOf
<1>7. Spread(held, stack, Bindings)
  BY <1>1, <1>4, <1>5 DEF Spread
<1> QED
  BY <1>4, <1>5, <1>6, <1>7

-----------------------------------------------------------------------------
(* Each step keeps the contents. *)

\* A call enters a fragment with the bindings of the moment.
LEMMA EntersWithBindings ==
    ASSUME IInv, IdleContents, pc = "idle", env # << >>, pc' # "idle",
           entry' = Bindings, UNCHANGED <<env, stack, held>>
    PROVE  /\ EntryContents'
           /\ NamesOf(env, entry)' /\ Spread(held, stack, entry)'
           /\ entry'[1].name = env[1] /\ entry'[1].val = stack[1]
<1>1. /\ env \in Seq(Name) /\ Len(env) \in Nat /\ Len(env) >= 1
      /\ Len(env) <= MaxEnv /\ MaxEnv \in Nat
  BY EmptySeq, MaxEnvAssumption DEF IInv, TypeOK, IdleContents
<1>2. /\ entry' \in Seq(Binding) /\ Len(entry') = Len(env)
      /\ \A i \in 1..Len(env) : /\ entry'[i].name = env[i]
                                /\ entry'[i].val = stack[i]
      /\ NamesOf(env, entry')
      /\ Spread(held, stack, entry')
  BY BindingsNow
<1>3. entry' # << >>
  BY <1>1, <1>2
<1>4. EntryContents'
  BY <1>1, <1>2, <1>3 DEF EntryContents
<1>5. 1 \in 1..Len(env)
  BY <1>1
<1>6. NamesOf(env', entry') /\ Spread(held', stack', entry')
  BY <1>2
<1> QED
  BY <1>2, <1>4, <1>5, <1>6

\* Each call of the client starts with what the contents should be.
LEMMA ClientContents ==
    ASSUME IInv, ContentsInv, Client PROVE ContentsInv'
<1>0. IdleContents
  BY DEF ContentsInv
<1>1. ASSUME NEW v \in Value, Push(v) PROVE ContentsInv'
  <2>1. env \in Seq(Name) /\ Len(env) \in Nat /\ MaxEnv \in Nat
    BY MaxEnvAssumption DEF IInv, TypeOK
  <2>2. pc' = "idle" /\ env' = <<Tmp>> \o env /\ Len(env) < MaxEnv
    BY <1>1 DEF Push
  <2>3. Len(env') = Len(env) + 1
    BY <2>1, <2>2, TmpAssumption, Pushed
  <2> QED
    BY <2>1, <2>2, <2>3 DEF ContentsInv, IdleContents, EntryContents,
                            GetContents, SetContents, SelectContents
<1>2. CASE Drop \/ \E s \in Name : Bind(s)
  <2>1. pc = "idle" /\ pc' = "idle" /\ env # << >>
    BY <1>2 DEF Drop, Bind, HasResult
  <2>2. /\ env \in Seq(Name) /\ Len(env) \in Nat /\ MaxEnv \in Nat
        /\ Len(env) >= 1 /\ Len(env) <= MaxEnv
    BY <1>0, <2>1, EmptySeq, MaxEnvAssumption DEF IInv, TypeOK, IdleContents
  <2>3. Tail(env) \in Seq(Name) /\ Len(Tail(env)) = Len(env) - 1
    BY <2>2, Popped
  <2>4. ASSUME NEW s \in Name, Bind(s) PROVE Len(env') <= MaxEnv
    <3>1. env' = <<s>> \o Tail(env)
      BY <2>4 DEF Bind
    <3>2. Len(env') = Len(Tail(env)) + 1
      BY <2>3, <3>1, Pushed
    <3> QED
      BY <2>2, <2>3, <3>2
  <2>5. Len(env') <= MaxEnv
    <3>1. CASE Drop
      <4>1. env' = Tail(env)
        BY <3>1 DEF Drop
      <4> QED
        BY <2>2, <2>3, <4>1
    <3> QED
      BY <1>2, <2>4, <3>1
  <2> QED
    BY <2>1, <2>5 DEF ContentsInv, IdleContents, EntryContents,
                      GetContents, SetContents, SelectContents
<1>3. ASSUME NEW s \in Name, CallGet(s) PROVE ContentsInv'
  <2>1. /\ pc = "idle" /\ pc' = "get_down" /\ Len(env) < MaxEnv
        /\ entry' = Bindings /\ UNCHANGED <<env, stack, held>>
    BY <1>3 DEF CallGet
  <2>2. PICK i \in 1..Len(env) : IsInnermost(i, s, env) /\ target' = i - 1
    BY <1>3 DEF CallGet
  <2>3. /\ env # << >> /\ s \in Name \ {Tmp}
        /\ target' + 1 = i /\ IsInnermost(i, s, env)
    BY <1>3, <2>2 DEF CallGet, IInv, TypeOK
  <2>4. Variable(target' + 1, env')
    BY <2>1, <2>3 DEF Variable
  <2>5. EntryContents' /\ NamesOf(env, entry)' /\ Spread(held, stack, entry)'
    BY <1>0, <2>1, <2>3, EntersWithBindings
  <2> QED
    BY <2>1, <2>4, <2>5 DEF ContentsInv, IdleContents,
                            GetContents, SetContents, SelectContents
<1>4. ASSUME NEW s \in Name, CallSet(s) PROVE ContentsInv'
  <2>1. /\ pc = "idle" /\ pc' = "set_down" /\ env # << >> /\ env[1] = Tmp
        /\ entry' = Bindings /\ UNCHANGED <<env, stack, held>>
    BY <1>4 DEF CallSet, HasResult
  <2>2. PICK i \in 1..(Len(env) - 1) :
               IsInnermost(i, s, Tail(env)) /\ target' = i - 1
    BY <1>4 DEF CallSet
  <2>3. /\ s \in Name \ {Tmp} /\ target' + 1 = i
        /\ IsInnermost(i, s, Tail(env))
    BY <1>4, <2>2 DEF CallSet
  <2>4. Variable(target' + 1, Tail(env'))
    BY <2>1, <2>3 DEF Variable
  <2>5. /\ EntryContents' /\ NamesOf(env, entry)' /\ Spread(held, stack, entry)'
        /\ entry'[1].val = stack[1]
    BY <1>0, <2>1, EntersWithBindings
  <2>6. /\ env \in Seq(Name) /\ stack \in Seq(Value) /\ held = << >>
        /\ Len(stack) = Len(env) /\ Len(env) \in Nat /\ Len(env) >= 1
        /\ entry' \in Seq(Binding) /\ Len(entry') = Len(env)
    BY <2>1, EmptySeq, BindingsNow DEF IInv, TypeOK, WalkInv
  <2>7. /\ stack # << >> /\ Head(stack) = stack[1]
        /\ Len(Tail(stack)) = Len(stack) - 1
        /\ \A j \in 1..(Len(stack) - 1) : Tail(stack)[j] = stack[j + 1]
    BY <2>6, Popped
  <2>8. /\ Len(Tail(entry')) = Len(entry') - 1
        /\ \A j \in 1..(Len(entry') - 1) : Tail(entry')[j] = entry'[j + 1]
    BY <2>6, Popped
  <2>9. \A j \in 1..Len(stack) : stack[j] = entry'[j].val
    BY <2>1, BindingsNow, <2>6
  <2>10. Spread(held, Tail(stack), Tail(entry'))
    <3>1. Len(held) = 0 /\ Len(held) + Len(Tail(stack)) = Len(Tail(entry'))
      BY <2>6, <2>7, <2>8
    <3>2. ASSUME NEW j \in 1..Len(Tail(stack))
          PROVE  Tail(stack)[j] = Tail(entry')[Len(held) + j].val
      <4>1. /\ j \in 1..(Len(stack) - 1) /\ j \in 1..(Len(entry') - 1)
            /\ j + 1 \in 1..Len(stack) /\ Len(held) + j = j
        BY <2>6, <2>7, <3>1
      <4> QED
        BY <2>7, <2>8, <2>9, <4>1
    <3> QED
      BY <3>1, <3>2 DEF Spread
  <2>11. Spread(held', Tail(stack'), Tail(entry'))
    BY <2>1, <2>10
  <2> QED
    BY <2>1, <2>4, <2>5, <2>7, <2>11
       DEF ContentsInv, IdleContents, GetContents, SetContents, SelectContents
<1>5. ASSUME NEW m \in 0..MaxEnv, RestrictTo(m) PROVE ContentsInv'
  <2>1. /\ pc = "idle" /\ pc' = "scan" /\ env # << >> /\ env[1] = Tmp
        /\ entry' = Bindings /\ UNCHANGED <<env, stack, held>>
        /\ floor' = 1
    BY <1>5 DEF RestrictTo, CallSelect, HasResult
  <2>2. /\ EntryContents' /\ NamesOf(env, entry)' /\ Spread(held, stack, entry)'
        /\ entry'[1].name = Tmp
    BY <1>0, <2>1, EntersWithBindings
  <2> QED
    BY <2>1, <2>2 DEF ContentsInv, IdleContents, GetContents, SetContents,
                      SelectContents
<1>6. CASE RestrictBlock \/ Clear
  <2>1. /\ pc = "idle" /\ pc' = "scan" /\ env # << >> /\ env[1] = Tmp
        /\ entry' = Bindings /\ UNCHANGED <<env, stack, held>>
        /\ target' = Len(env) /\ keep' = {}
    BY <1>6 DEF RestrictBlock, Clear, CallSelect, HasResult
  <2>2. /\ EntryContents' /\ NamesOf(env, entry)' /\ Spread(held, stack, entry)'
        /\ entry'[1].name = Tmp
    BY <1>0, <2>1, EntersWithBindings
  <2>3. Len(env) \in Nat /\ Len(env) >= 1
    BY <2>1, EmptySeq DEF IInv, TypeOK
  <2>4. CASE RestrictBlock
    <3>1. selector' = [s \in Name |-> Count(s, env, 2)]
      BY <2>4 DEF RestrictBlock, CallSelect
    <3>2. selector' = [s \in Name |-> Met(env', 2, target', s)]
      BY <2>1, <3>1 DEF Met, Count
    <3>3. keep' = Kept(env', 2, target')
      BY <2>1, <2>3 DEF Kept
    <3> QED
      BY <2>1, <2>2, <3>2, <3>3
         DEF ContentsInv, IdleContents, GetContents, SetContents,
             SelectContents, ScanFrom
  <2>5. CASE Clear
    <3>1. /\ \A i \in 2..Len(env') : env'[i] # Tmp
          /\ selector' = [NoSelector EXCEPT ![Tmp] = 1]
      BY <2>1, <2>5 DEF Clear, CallSelect
    <3>2. target' # 0
      BY <2>1, <2>3
    <3>3. ClearScan'
      BY <2>1, <3>1, <3>2 DEF ClearScan, NoSelector
    <3> QED
      BY <2>1, <2>2, <3>3
         DEF ContentsInv, IdleContents, GetContents, SetContents, SelectContents
  <2> QED
    BY <1>6, <2>4, <2>5
<1> QED
  BY <1>1, <1>2, <1>3, <1>4, <1>5, <1>6 DEF Client

\* The instructions of get take its invariant along.
LEMMA GetContentsStep ==
    ASSUME IInv, ContentsInv, GetDip \/ GetDup \/ GetSwap \/ GetReturn
    PROVE  ContentsInv'
<1>1. /\ env \in Seq(Name) /\ stack \in Seq(Value) /\ held \in Seq(Value)
      /\ Len(env) \in Nat /\ MaxEnv \in Nat
  BY MaxEnvAssumption DEF IInv, TypeOK
<1>2. /\ pc \in {"get_down", "get_up"}
      /\ NamesOf(env, entry) /\ Len(env) < MaxEnv /\ Variable(target + 1, env)
      /\ entry # << >> /\ Len(entry) <= MaxEnv
  BY DEF GetDip, GetDup, GetSwap, GetReturn, ContentsInv, GetContents,
         EntryContents
<1>3. CASE GetDip
  <2>1. /\ pc = "get_down" /\ UNCHANGED <<env, pc, target, entry>>
        /\ held' = Append(held, Head(stack)) /\ stack' = Tail(stack)
    BY <1>3 DEF GetDip, Dip, walk
  <2>2. Spread(held, stack, entry)
    BY <2>1 DEF ContentsInv, GetContents
  <2>3. stack # << >>
    BY <1>1, <2>1, <1>3 DEF IInv, TypeOK, WalkInv, Depth, GetDip
  <2>4. Spread(held', stack', entry')
    BY <1>1, <2>1, <2>2, <2>3, Entered
  <2> QED
    BY <1>2, <2>1, <2>4 DEF ContentsInv, IdleContents, EntryContents,
                            GetContents, SetContents, SelectContents
<1>4. CASE GetDup
  <2>1. /\ pc = "get_down" /\ pc' = "get_up" /\ Len(held) = target
        /\ stack' = <<Head(stack)>> \o stack
        /\ UNCHANGED <<env, held, target, entry>>
    BY <1>4 DEF GetDup, walk
  <2>2. Spread(held, stack, entry)
    BY <2>1 DEF ContentsInv, GetContents
  <2>3. Len(stack) >= 1 /\ Len(stack) \in Nat
    BY <1>1, <2>1 DEF IInv, TypeOK, WalkInv, Depth
  <2>4. Head(stack) \in Value /\ Head(stack) = stack[1]
    BY <1>1, <2>3, Popped
  <2>5. stack[1] = entry[Len(held) + 1].val
    BY <2>2, <2>3 DEF Spread
  <2>6. /\ stack' # << >> /\ Head(stack') = entry'[target' + 1].val
        /\ Tail(stack') = stack
    BY <1>1, <2>1, <2>4, <2>5, PushTail
  <2>7. Spread(held', Tail(stack'), entry')
    BY <2>1, <2>2, <2>6
  <2> QED
    BY <1>2, <2>1, <2>6, <2>7
       DEF ContentsInv, IdleContents, EntryContents,
           GetContents, SetContents, SelectContents
<1>5. CASE GetSwap
  <2>1. /\ pc = "get_up" /\ held # << >>
        /\ stack' = <<Head(stack), held[Len(held)]>> \o Tail(stack)
        /\ held' = SubSeq(held, 1, Len(held) - 1)
        /\ UNCHANGED <<env, pc, target, entry>>
    BY <1>5 DEF GetSwap, Undip, LeaveDip, walk
  <2>2. /\ stack # << >> /\ Head(stack) = entry[target + 1].val
        /\ Spread(held, Tail(stack), entry)
    BY <2>1 DEF ContentsInv, GetContents
  <2>3. Head(stack) \in Value /\ Tail(stack) \in Seq(Value)
    BY <1>1, <2>2, EmptySeq, Popped
  <2>4. held[Len(held)] \in Value
    BY <1>1, <2>1, TakenBack
  <2>5. /\ stack' # << >> /\ Head(stack') = Head(stack)
        /\ Tail(stack') = <<held[Len(held)]>> \o Tail(stack)
    BY <2>1, <2>3, <2>4, PushTwoTail, SMTT(30)
  <2>6. Spread(held', Tail(stack'), entry')
    BY <1>1, <2>1, <2>2, <2>3, <2>5, LeftAgain
  <2> QED
    BY <1>2, <2>1, <2>2, <2>5, <2>6
       DEF ContentsInv, IdleContents, EntryContents,
           GetContents, SetContents, SelectContents
<1>6. CASE GetReturn
  <2>1. pc' = "idle" /\ env' = <<Tmp>> \o env
    BY <1>6 DEF GetReturn, Return
  <2>2. Len(env') = Len(env) + 1
    BY <1>1, <2>1, TmpAssumption, Pushed
  <2> QED
    BY <1>1, <1>2, <2>1, <2>2 DEF ContentsInv, IdleContents, EntryContents,
                                  GetContents, SetContents, SelectContents
<1> QED
  BY <1>3, <1>4, <1>5, <1>6

\* The instructions of set take its invariant along.
LEMMA SetContentsStep ==
    ASSUME IInv, ContentsInv, SetSwapDip \/ SetDrop \/ SetUndip \/ SetReturn
    PROVE  ContentsInv'
<1>1. /\ env \in Seq(Name) /\ stack \in Seq(Value) /\ held \in Seq(Value)
      /\ Len(env) \in Nat /\ MaxEnv \in Nat /\ entry \in Seq(Binding)
  BY MaxEnvAssumption DEF IInv, TypeOK
<1>2. /\ pc \in {"set_down", "set_up"}
      /\ NamesOf(env, entry) /\ env[1] = Tmp /\ Variable(target + 1, Tail(env))
      /\ entry # << >> /\ Len(entry) <= MaxEnv
  BY DEF SetSwapDip, SetDrop, SetUndip, SetReturn, ContentsInv, SetContents,
         EntryContents
<1>3. CASE SetSwapDip
  <2>1. /\ pc = "set_down" /\ UNCHANGED <<env, pc, target, entry>>
        /\ held' = Append(held, stack[2])
        /\ stack' = <<stack[1]>> \o SubSeq(stack, 3, Len(stack))
    BY <1>3 DEF SetSwapDip, Dip, walk
  <2>2. /\ Head(stack) = entry[1].val
        /\ Spread(held, Tail(stack), Tail(entry))
    BY <2>1 DEF ContentsInv, SetContents
  <2>3. Len(stack) >= 2
    BY <1>1, <1>3, <2>1 DEF IInv, TypeOK, WalkInv, Depth, SetSwapDip
  <2>4. /\ Tail(stack) \in Seq(Value) /\ Tail(stack) # << >>
        /\ Head(Tail(stack)) = stack[2]
        /\ Tail(Tail(stack)) \in Seq(Value)
        /\ SubSeq(stack, 3, Len(stack)) = Tail(Tail(stack))
    BY <1>1, <2>3, ThirdOn
  <2>5. stack[1] \in Value /\ Head(stack) = stack[1]
    <3>1. Len(stack) >= 1
      BY <1>1, <2>3
    <3> QED
      BY <1>1, <3>1, Popped
  <2>6. /\ Head(stack') = stack[1] /\ Tail(stack') = Tail(Tail(stack))
        /\ stack' # << >>
    <3>1. stack' = <<stack[1]>> \o Tail(Tail(stack))
      BY <2>1, <2>4
    <3>2. \A x \in Value, s \in Seq(Value) :
             /\ Head(<<x>> \o s) = x /\ Tail(<<x>> \o s) = s
             /\ <<x>> \o s # << >>
      BY PushTail
    <3> QED
      BY <2>4, <2>5, <3>1, <3>2
  <2>7. Spread(Append(held, Head(Tail(stack))), Tail(Tail(stack)), Tail(entry))
    BY <1>1, <2>2, <2>4, Entered
  <2>8. Spread(held', Tail(stack'), Tail(entry'))
    BY <2>1, <2>4, <2>6, <2>7
  <2> QED
    BY <1>2, <2>1, <2>2, <2>5, <2>6, <2>8
       DEF ContentsInv, IdleContents, EntryContents,
           GetContents, SetContents, SelectContents
<1>4. CASE SetDrop
  <2>1. /\ pc = "set_down" /\ pc' = "set_up" /\ Len(held) = target
        /\ stack' = <<stack[1]>> \o SubSeq(stack, 3, Len(stack))
        /\ UNCHANGED <<env, held, target, entry>>
    BY <1>4 DEF SetDrop, walk
  <2>2. /\ Head(stack) = entry[1].val
        /\ Spread(held, Tail(stack), Tail(entry))
    BY <2>1 DEF ContentsInv, SetContents
  <2>3. Len(stack) >= 2
    BY <1>1, <2>1 DEF IInv, TypeOK, WalkInv, Depth
  <2>4. /\ Tail(stack) \in Seq(Value) /\ Tail(stack) # << >>
        /\ SubSeq(stack, 3, Len(stack)) = Tail(Tail(stack))
    BY <1>1, <2>3, ThirdOn
  <2>5. Head(stack) = stack[1]
    BY <1>1, <2>3
  <2>6. stack' = <<entry[1].val>> \o Tail(Tail(stack))
    BY <2>1, <2>2, <2>4, <2>5
  <2>7. Spread(held, <<entry[1].val>> \o Tail(Tail(stack)),
               Assigned(entry, Len(held)))
    BY <1>1, <1>2, <2>2, <2>4, Overwritten
  <2>8. Spread(held', stack', Assigned(entry', target'))
    BY <2>1, <2>6, <2>7
  <2> QED
    BY <1>2, <2>1, <2>8
       DEF ContentsInv, IdleContents, EntryContents,
           GetContents, SetContents, SelectContents
<1>5. CASE SetUndip
  <2>1. /\ pc = "set_up" /\ held # << >>
        /\ stack' = <<held[Len(held)]>> \o stack
        /\ held' = SubSeq(held, 1, Len(held) - 1)
        /\ UNCHANGED <<env, pc, target, entry>>
    BY <1>5 DEF SetUndip, Undip, LeaveDip, walk
  <2>2. Spread(held, stack, Assigned(entry, target))
    BY <2>1 DEF ContentsInv, SetContents
  <2>3. Spread(held', stack', Assigned(entry', target'))
    BY <1>1, <2>1, <2>2, LeftAgain
  <2> QED
    BY <1>2, <2>1, <2>3
       DEF ContentsInv, IdleContents, EntryContents,
           GetContents, SetContents, SelectContents
<1>6. CASE SetReturn
  <2>1. pc' = "idle" /\ env' = Tail(env) /\ env # << >>
    BY <1>6 DEF SetReturn, Return, IInv, WalkInv
  <2>2. Len(env) = Len(entry)
    BY <1>2 DEF NamesOf
  <2>3. Len(env') = Len(env) - 1
    BY <1>1, <2>1, EmptySeq, Popped
  <2> QED
    BY <1>1, <1>2, <2>1, <2>2, <2>3
       DEF ContentsInv, IdleContents, EntryContents,
           GetContents, SetContents, SelectContents
<1> QED
  BY <1>3, <1>4, <1>5, <1>6

\* The scan of select ends with the positions of a scope flagged, and with
\* the first one in a restriction under a DIP and in clear.
LEMMA ScanContentsStep ==
    ASSUME IInv, ScopeInv, ContentsInv, ScanKeep \/ ScanSkip \/ ScanEnd
    PROVE  ContentsInv'
<1>1. /\ pc = "scan" /\ UNCHANGED <<env, stack, held, floor, entry>>
      /\ target \in Nat /\ target >= floor /\ floor \in 0..1
      /\ env \in Seq(Name) /\ Len(env) \in Nat /\ entry \in Seq(Binding)
      /\ selector \in [Name -> Nat]
  BY DEF IInv, TypeOK, WalkInv, ScanKeep, ScanSkip, ScanEnd, walk
<1>2. /\ entry # << >> /\ Len(entry) <= MaxEnv /\ entry[1].name = Tmp
      /\ NamesOf(env, entry) /\ Spread(held, stack, entry)
      /\ floor = 0 => ScanFrom(2) \/ ClearScan
  BY <1>1 DEF ContentsInv, EntryContents, SelectContents
<1>3. /\ Len(entry) = Len(env) /\ Len(env) >= 1
      /\ \A i \in 1..Len(entry) : env[i] = entry[i].name
  BY <1>1, <1>2, EmptySeq DEF NamesOf
<1>4. CASE ScanKeep \/ ScanSkip
  <2>1. /\ pc' = "scan" /\ target' = target - 1
        /\ target > floor /\ target \in Nat \ {0} /\ target <= Len(env)
    BY <1>1, <1>4 DEF ScanKeep, ScanSkip, IInv, WalkInv
  <2>2. ASSUME floor = 0, ScanFrom(2) PROVE ScanFrom(2)'
    BY <1>4, <2>2, ScanAdvances
  <2>3. ASSUME floor = 0, ClearScan PROVE ClearScan'
    <3>1. /\ \A i \in 2..Len(env) : env[i] # Tmp
          /\ selector = [NoSelector EXCEPT ![Tmp] = 1]
          /\ keep = {}
      BY <2>1, <2>3 DEF ClearScan
    <3>2. /\ selector[Tmp] = 1
          /\ \A s \in Name \ {Tmp} : selector[s] = 0
      BY <3>1, TmpAssumption DEF NoSelector
    <3>3. env[target] \in Name /\ (env[target] = Tmp <=> target = 1)
      <4>1. env[1] = Tmp /\ env[target] \in Name
        BY <1>1, <1>2, <1>3, <2>1
      <4> QED
        BY <2>1, <3>1, <4>1
    <3>4. CASE ScanKeep
      <4>1. /\ selector' = [selector EXCEPT ![env[target]] = @ - 1]
            /\ keep' = keep \union {target}
            /\ selector[env[target]] > 0
        BY <3>4 DEF ScanKeep
      <4>2. target = 1 /\ env[target] = Tmp
        BY <3>2, <3>3, <4>1
      <4>3. /\ target' = 0 /\ keep' = {1}
            /\ selector' = [NoSelector EXCEPT ![Tmp] = 0]
        BY <2>1, <3>1, <4>1, <4>2, TmpAssumption DEF NoSelector
      <4> QED
        BY <1>1, <3>1, <4>3 DEF ClearScan, NoSelector
    <3>5. CASE ScanSkip
      <4>1. UNCHANGED <<selector, keep>> /\ selector[env[target]] = 0
        BY <3>5 DEF ScanSkip
      <4>2. target' # 0
        BY <2>1, <3>2, <3>3, <4>1
      <4> QED
        BY <1>1, <3>1, <4>1, <4>2 DEF ClearScan, NoSelector
    <3> QED
      BY <1>4, <3>4, <3>5
  <2>4. /\ NamesOf(env', entry') /\ Spread(held', stack', entry')
        /\ floor' = 0 => ScanFrom(2)' \/ ClearScan'
    BY <1>1, <1>2, <2>2, <2>3
  <2> QED
    BY <1>1, <1>2, <2>1, <2>4
       DEF ContentsInv, IdleContents, EntryContents,
           GetContents, SetContents, SelectContents
<1>5. CASE ScanEnd
  <2>1. /\ pc' = "select_down" /\ target = floor
        /\ UNCHANGED <<env, stack, held, keep, floor, entry>>
    BY <1>5 DEF ScanEnd, walk
  <2>2. \E b \in Nat, top \in 0..1 : KeptFrom(b, top)
    <3>1. 0 \in 0..1 /\ 1 \in 0..1 /\ 2 \in Nat
      OBVIOUS
    <3>2. CASE floor = 1
      <4>1. PICK b \in Nat : ScanFrom(b)
        BY <1>1, <3>2 DEF ScopeInv
      <4>2. keep = {i \in b..Len(entry) : i > 1}
        BY <1>3, <2>1, <3>2, <4>1 DEF ScanFrom, Kept
      <4> DEFINE c == IF b < 2 THEN 2
                      ELSE IF b > Len(entry) + 1 THEN Len(entry) + 1 ELSE b
      <4>3. c \in 2..(Len(entry) + 1) /\ c \in Nat
        BY <1>1, <1>3
      <4>4. \A i \in 1..Len(entry) : i \in keep <=> i >= c /\ i > 1
        BY <1>1, <1>3, <4>2
      <4> HIDE DEF c
      <4>5. \A i \in 1..Len(entry) :
               (i \in keep \/ i <= floor) <=> (i >= c \/ (i = 1 /\ 1 = 1))
        BY <1>1, <1>3, <3>2, <4>3, <4>4
      <4>6. KeptFrom(c, 1)
        BY <4>3, <4>5 DEF KeptFrom
      <4> QED
        BY <3>1, <4>3, <4>6
    <3>3. CASE floor = 0 /\ ScanFrom(2)
      <4>1. keep = {i \in 2..Len(entry) : i > 0}
        BY <1>3, <2>1, <3>3 DEF ScanFrom, Kept
      <4>2. KeptFrom(2, 0)
        BY <1>1, <1>3, <3>3, <4>1 DEF KeptFrom
      <4> QED
        BY <3>1, <4>2
    <3>4. CASE floor = 0 /\ ClearScan
      <4>1. keep = {1}
        BY <2>1, <3>4 DEF ClearScan
      <4>2. KeptFrom(Len(entry) + 1, 1)
        BY <1>1, <1>3, <3>4, <4>1 DEF KeptFrom
      <4>3. Len(entry) + 1 \in Nat
        BY <1>1, <1>3
      <4> QED
        BY <3>1, <4>2, <4>3
    <3>5. floor = 0 \/ floor = 1
      BY <1>1
    <3> QED
      BY <1>2, <3>2, <3>3, <3>4, <3>5
  <2>3. /\ NamesOf(env', entry') /\ Spread(held', stack', entry')
        /\ \E b \in Nat, top \in 0..1 : KeptFrom(b, top)'
    BY <1>2, <2>1, <2>2 DEF KeptFrom
  <2> QED
    BY <1>2, <2>1, <2>3
       DEF ContentsInv, IdleContents, EntryContents,
           GetContents, SetContents, SelectContents
<1> QED
  BY <1>4, <1>5

\* What is left when select has come up to position k.
Left(e, k, b, top) == Cut(e, Inner(k, b, top), b)

\* Coming up past a position that is kept leaves the same bindings; past one
\* that is not, that position is the last one above the cut and goes.
LEMMA InnerSteps ==
    ASSUME NEW k \in Nat \ {0}, NEW b \in Nat, b >= 2, NEW top \in 0..1
    PROVE  /\ Inner(k, b, top) \in Nat /\ Inner(k, b, top) < b
           /\ (k >= b \/ (k = 1 /\ top = 1)) =>
                 Inner(k - 1, b, top) = Inner(k, b, top)
           /\ ~(k >= b \/ (k = 1 /\ top = 1)) =>
                 /\ k < b /\ Inner(k, b, top) = k
                 /\ Inner(k - 1, b, top) = k - 1
BY DEF Inner

\* The instructions of select keep what is left where the walk has been.
LEMMA SelectContentsStep ==
    ASSUME IInv, ContentsInv,
           SelectDip \/ SelectBottom \/ SelectKeep \/ SelectDrop \/ SelectReturn
    PROVE  ContentsInv'
<1>1. /\ env \in Seq(Name) /\ stack \in Seq(Value) /\ held \in Seq(Value)
      /\ Len(env) \in Nat /\ Len(held) \in Nat /\ MaxEnv \in Nat
      /\ entry \in Seq(Binding) /\ Len(entry) \in Nat
  BY MaxEnvAssumption DEF IInv, TypeOK
<1>2. entry # << >> /\ Len(entry) <= MaxEnv /\ entry[1].name = Tmp
  <2>1. pc \in {"select_down", "select_up"}
    BY DEF SelectDip, SelectBottom, SelectKeep, SelectDrop, SelectReturn
  <2> QED
    BY <2>1 DEF ContentsInv, EntryContents, SelectContents
<1>3. Len(entry) >= 1
  BY <1>1, <1>2, EmptySeq
<1>4. CASE SelectDip
  <2>1. /\ pc = "select_down" /\ Len(held) < Len(env)
        /\ UNCHANGED <<env, pc, keep, floor, entry>>
        /\ held' = Append(held, Head(stack)) /\ stack' = Tail(stack)
    BY <1>4 DEF SelectDip, Dip, walk
  <2>2. /\ NamesOf(env, entry) /\ Spread(held, stack, entry)
        /\ \E b \in Nat, top \in 0..1 : KeptFrom(b, top)
    BY <2>1 DEF ContentsInv, SelectContents
  <2>3. stack # << >>
    BY <1>1, <2>1 DEF IInv, TypeOK, WalkInv, Depth
  <2>4. Spread(held', stack', entry')
    BY <1>1, <2>1, <2>2, <2>3, Entered
  <2>5. \E b \in Nat, top \in 0..1 : KeptFrom(b, top)'
    BY <2>1, <2>2 DEF KeptFrom
  <2> QED
    BY <1>2, <2>1, <2>2, <2>4, <2>5
       DEF ContentsInv, IdleContents, EntryContents,
           GetContents, SetContents, SelectContents
<1>5. CASE SelectBottom
  <2>1. /\ pc = "select_down" /\ pc' = "select_up" /\ Len(held) = Len(env)
        /\ UNCHANGED <<env, stack, held, keep, floor, entry>>
    BY <1>5 DEF SelectBottom, walk
  <2>2. NamesOf(env, entry) /\ Spread(held, stack, entry)
    BY <2>1 DEF ContentsInv, SelectContents
  <2>3. PICK b \in Nat, top \in 0..1 : KeptFrom(b, top)
    BY <2>1 DEF ContentsInv, SelectContents
  <2>4. b \in 2..(Len(entry) + 1)
    BY <2>3 DEF KeptFrom
  <2>5. Len(held) = Len(entry)
    BY <2>1, <2>2 DEF NamesOf
  <2>6. Inner(Len(held), b, top) = b - 1
    BY <1>1, <1>3, <2>4, <2>5 DEF Inner
  <2>7. Left(entry, Len(held), b, top) = entry
    BY <1>1, <2>4, <2>6, CutWhole DEF Left
  <2>8. KeptFrom(b, top)'
    BY <2>1, <2>3 DEF KeptFrom
  <2>9. /\ NamesOf(env', Left(entry', Len(held'), b, top))
        /\ Spread(held', stack', Left(entry', Len(held'), b, top))
    BY <2>1, <2>2, <2>7
  <2> QED
    BY <1>2, <2>1, <2>8, <2>9
       DEF ContentsInv, IdleContents, EntryContents,
           GetContents, SetContents, SelectContents, Left
<1>6. CASE SelectKeep \/ SelectDrop
  <2>1. /\ pc = "select_up" /\ pc' = "select_up" /\ held # << >>
        /\ held' = SubSeq(held, 1, Len(held) - 1)
        /\ UNCHANGED <<keep, floor, entry>>
    BY <1>6 DEF SelectKeep, SelectDrop, LeaveDip, walk
  <2>2. PICK b \in Nat, top \in 0..1 :
               /\ KeptFrom(b, top)
               /\ NamesOf(env, Left(entry, Len(held), b, top))
               /\ Spread(held, stack, Left(entry, Len(held), b, top))
    BY <2>1 DEF ContentsInv, SelectContents, Left
  <2>3. /\ b \in 2..(Len(entry) + 1)
        /\ \A i \in 1..Len(entry) :
              (i \in keep \/ i <= floor) <=> (i >= b \/ (i = 1 /\ top = 1))
    BY <2>2 DEF KeptFrom
  <2>4. PICK k \in Nat \ {0} : k = Len(held) /\ k - 1 = Len(held')
    BY <1>1, <2>1, TakenBack
  <2> DEFINE c == Inner(k, b, top)
  <2>5. /\ c \in Nat /\ c < b
        /\ (k >= b \/ (k = 1 /\ top = 1)) => Inner(k - 1, b, top) = c
        /\ ~(k >= b \/ (k = 1 /\ top = 1)) =>
              k < b /\ c = k /\ Inner(k - 1, b, top) = k - 1
    <3>1. b >= 2
      BY <1>1, <2>3
    <3> QED
      BY <3>1, InnerSteps
  <2> HIDE DEF c
  <2>6. k <= Len(entry)
    <3>1. Len(Cut(entry, c, b)) = c + (Len(entry) - b + 1)
      BY <1>1, <2>3, <2>5, CutAt
    <3>2. k + Len(stack) = Len(Cut(entry, c, b)) /\ Len(stack) \in Nat
      BY <1>1, <2>2, <2>4 DEF Spread, Left, c
    <3> QED
      BY <1>1, <2>3, <2>5, <3>1, <3>2
  <2>7. (k \in keep \/ k <= floor) <=> (k >= b \/ (k = 1 /\ top = 1))
    <3>1. k \in 1..Len(entry)
      BY <1>1, <2>6
    <3> QED
      BY <2>3, <3>1
  <2>8. KeptFrom(b, top)'
    BY <2>1, <2>2 DEF KeptFrom
  <2>9. CASE SelectKeep
    <3>1. /\ k >= b \/ (k = 1 /\ top = 1)
          /\ stack' = <<held[Len(held)]>> \o stack /\ env' = env
      BY <2>4, <2>7, <2>9 DEF SelectKeep, Undip
    <3>2. Left(entry', Len(held'), b, top) = Left(entry, Len(held), b, top)
      BY <2>1, <2>4, <2>5, <3>1 DEF Left, c
    <3>3. Spread(held', stack', Left(entry, Len(held), b, top))
      BY <1>1, <2>1, <2>2, <3>1, LeftAgain
    <3>4. /\ NamesOf(env', Left(entry', Len(held'), b, top))
          /\ Spread(held', stack', Left(entry', Len(held'), b, top))
      BY <2>2, <3>1, <3>2, <3>3
    <3> QED
      BY <1>2, <2>1, <2>8, <3>4
         DEF ContentsInv, IdleContents, EntryContents,
             GetContents, SetContents, SelectContents, Left
  <2>10. CASE SelectDrop
    <3>1. /\ ~(k >= b \/ (k = 1 /\ top = 1))
          /\ stack' = stack
          /\ env' = SubSeq(env, 1, Len(held) - 1)
                      \o SubSeq(env, Len(held) + 1, Len(env))
      BY <1>1, <2>4, <2>7, <2>10 DEF SelectDrop, IInv, TypeOK
    <3>2. /\ Len(held) < b
          /\ Left(entry, Len(held), b, top) = Cut(entry, Len(held), b)
          /\ Left(entry', Len(held'), b, top) = Cut(entry, Len(held) - 1, b)
      BY <2>1, <2>4, <2>5, <3>1 DEF Left, c
    <3>3. /\ NamesOf(env, Cut(entry, Len(held), b))
          /\ Spread(held, stack, Cut(entry, Len(held), b))
          /\ Len(held) < b /\ b <= Len(entry) + 1
      BY <2>2, <2>3, <3>2
    <3>4. /\ NamesOf(env', Cut(entry, Len(held) - 1, b))
          /\ Spread(held', stack', Cut(entry, Len(held) - 1, b))
      BY <1>1, <2>1, <3>1, <3>3, CutWider
    <3>5. /\ NamesOf(env', Left(entry', Len(held'), b, top))
          /\ Spread(held', stack', Left(entry', Len(held'), b, top))
      BY <3>2, <3>4
    <3> QED
      BY <1>2, <2>1, <2>8, <3>5
         DEF ContentsInv, IdleContents, EntryContents,
             GetContents, SetContents, SelectContents, Left
  <2> QED
    BY <1>6, <2>9, <2>10
<1>7. CASE SelectReturn
  <2>1. pc = "select_up" /\ pc' = "idle" /\ held = << >> /\ env' = env
    BY <1>7 DEF SelectReturn, Return
  <2>2. PICK b \in Nat, top \in 0..1 :
               /\ KeptFrom(b, top)
               /\ NamesOf(env, Left(entry, Len(held), b, top))
    BY <2>1 DEF ContentsInv, SelectContents, Left
  <2>3. b \in 2..(Len(entry) + 1) /\ Inner(Len(held), b, top) = top
    BY <2>1, <2>2 DEF KeptFrom, Inner
  <2>4. Len(Cut(entry, top, b)) = top + (Len(entry) - b + 1)
    <3>1. top \in Nat /\ top < b /\ b <= Len(entry) + 1
      BY <1>1, <2>3
    <3> QED
      BY <1>1, <3>1, CutAt
  <2>5. Len(env) = top + (Len(entry) - b + 1)
    BY <2>2, <2>3, <2>4 DEF NamesOf, Left
  <2>6. Len(env') <= MaxEnv
    BY <1>1, <1>2, <2>1, <2>3, <2>5
  <2> QED
    BY <2>1, <2>6 DEF ContentsInv, IdleContents, EntryContents,
                      GetContents, SetContents, SelectContents
<1> QED
  BY <1>4, <1>5, <1>6, <1>7

\* Every step keeps the contents where the bindings on entry say.
LEMMA ContentsStep ==
    IInv /\ ScopeInv /\ ContentsInv /\ [Next]_vars => ContentsInv'
<1> SUFFICES ASSUME IInv, ScopeInv, ContentsInv, [Next]_vars
             PROVE  ContentsInv'
  OBVIOUS
<1>1. CASE UNCHANGED vars
  <2>1. UNCHANGED <<env, stack, held, pc, target, selector, keep, floor, entry>>
    BY <1>1 DEF vars, walk
  <2> QED
    BY <2>1 DEF ContentsInv, IdleContents, EntryContents, GetContents,
                SetContents, SelectContents, ScanFrom, ClearScan, KeptFrom
<1> QED
  BY <1>1, ClientContents, GetContentsStep, SetContentsStep, ScanContentsStep,
     SelectContentsStep DEF Next, Fragment

-----------------------------------------------------------------------------
(* What the walks carry is what the abstract environment has when they     *)
(* return.                                                                 *)

\* A new binding is a new name on the names and a new value on the values.
LEMMA PairedPush ==
    ASSUME NEW e \in Seq(Binding), NEW n \in Seq(Name), NEW s \in Seq(Value),
           NamesOf(n, e), Spread(<< >>, s, e), NEW x \in Name, NEW v \in Value
    PROVE  LET f == <<[name |-> x, val |-> v]>> \o e
           IN  /\ f \in Seq(Binding)
               /\ NamesOf(<<x>> \o n, f) /\ Spread(<< >>, <<v>> \o s, f)
<1> DEFINE r == [name |-> x, val |-> v]
           f == <<r>> \o e
<1>1. r \in Binding /\ r.name = x /\ r.val = v
  BY DEF Binding
<1> HIDE DEF r
<1>2. /\ f \in Seq(Binding) /\ Len(f) = Len(e) + 1 /\ f[1] = r
      /\ \A i \in 1..Len(e) : f[i + 1] = e[i]
  BY <1>1, Pushed
<1>3. /\ Len(<<x>> \o n) = Len(n) + 1 /\ (<<x>> \o n)[1] = x
      /\ \A i \in 1..Len(n) : (<<x>> \o n)[i + 1] = n[i]
  BY Pushed
<1>4. /\ Len(<<v>> \o s) = Len(s) + 1 /\ (<<v>> \o s)[1] = v
      /\ \A i \in 1..Len(s) : (<<v>> \o s)[i + 1] = s[i]
  BY Pushed
<1>5. /\ Len(e) \in Nat /\ Len(n) = Len(e) /\ Len(s) = Len(e)
      /\ \A i \in 1..Len(e) : n[i] = e[i].name /\ s[i] = e[i].val
  BY DEF NamesOf, Spread
<1> HIDE DEF f
<1>6. ASSUME NEW i \in 1..(Len(e) + 1)
      PROVE  (<<x>> \o n)[i] = f[i].name /\ (<<v>> \o s)[i] = f[i].val
  <2>1. CASE i = 1
    BY <1>1, <1>2, <1>3, <1>4, <2>1
  <2>2. CASE i # 1
    <3>1. i - 1 \in 1..Len(e) /\ (i - 1) + 1 = i
      BY <1>5, <2>2
    <3>2. f[i] = e[i - 1]
      BY <1>2, <3>1
    <3>3. (<<x>> \o n)[i] = n[i - 1]
      BY <1>3, <1>5, <3>1
    <3>4. (<<v>> \o s)[i] = s[i - 1]
      BY <1>4, <1>5, <3>1
    <3> QED
      BY <1>5, <3>1, <3>2, <3>3, <3>4
  <2> QED
    BY <2>1, <2>2
<1>7. NamesOf(<<x>> \o n, f)
  BY <1>2, <1>3, <1>5, <1>6 DEF NamesOf
<1>8. Spread(<< >>, <<v>> \o s, f)
  BY <1>2, <1>4, <1>5, <1>6 DEF Spread
<1> QED
  BY <1>2, <1>7, <1>8 DEF f, r

\* A stack is its top above the rest.
LEMMA Rebuilt ==
    ASSUME NEW S, NEW s \in Seq(S), Len(s) >= 1
    PROVE  s = <<Head(s)>> \o Tail(s)
<1> DEFINE t == <<Head(s)>> \o Tail(s)
<1>1. /\ Len(s) \in Nat /\ Tail(s) \in Seq(S) /\ Len(Tail(s)) = Len(s) - 1
      /\ Head(s) \in S /\ Head(s) = s[1]
      /\ \A i \in 1..(Len(s) - 1) : Tail(s)[i] = s[i + 1]
  BY Popped
<1>2. /\ t \in Seq(S) /\ Len(t) = Len(Tail(s)) + 1 /\ t[1] = Head(s)
      /\ \A i \in 1..Len(Tail(s)) : t[i + 1] = Tail(s)[i]
  BY <1>1, Pushed
<1> HIDE DEF t
<1>3. ASSUME NEW i \in 1..Len(s) PROVE s[i] = t[i]
  <2>1. CASE i = 1
    BY <1>1, <1>2, <2>1
  <2>2. CASE i # 1
    <3>1. i - 1 \in 1..(Len(s) - 1) /\ (i - 1) + 1 = i
      BY <1>1, <2>2
    <3> QED
      BY <1>1, <1>2, <3>1
  <2> QED
    BY <2>1, <2>2
<1>4. Len(t) = Len(s)
  BY <1>1, <1>2
<1>5. s = t
  BY <1>2, <1>3, <1>4, SeqEqual
<1> QED
  BY <1>5 DEF t

\* A binding forgotten is a name and a value fewer.
LEMMA PairedPop ==
    ASSUME NEW e \in Seq(Binding), NEW n \in Seq(Name), NEW s \in Seq(Value),
           NamesOf(n, e), Spread(<< >>, s, e), n # << >>
    PROVE  /\ Tail(e) \in Seq(Binding) /\ Tail(n) \in Seq(Name)
           /\ Tail(s) \in Seq(Value) /\ Head(s) \in Value
           /\ Head(s) = e[1].val /\ n[1] = e[1].name
           /\ s = <<Head(s)>> \o Tail(s)
           /\ NamesOf(Tail(n), Tail(e)) /\ Spread(<< >>, Tail(s), Tail(e))
<1>1. /\ Len(e) \in Nat /\ Len(n) = Len(e) /\ Len(s) = Len(e) /\ Len(e) >= 1
      /\ \A i \in 1..Len(e) : n[i] = e[i].name /\ s[i] = e[i].val
  BY EmptySeq DEF NamesOf, Spread
<1>2. /\ Tail(e) \in Seq(Binding) /\ Len(Tail(e)) = Len(e) - 1
      /\ \A i \in 1..(Len(e) - 1) : Tail(e)[i] = e[i + 1]
  BY <1>1, Popped
<1>3. /\ Tail(n) \in Seq(Name) /\ Len(Tail(n)) = Len(n) - 1
      /\ \A i \in 1..(Len(n) - 1) : Tail(n)[i] = n[i + 1]
  BY <1>1, Popped
<1>4. /\ Tail(s) \in Seq(Value) /\ Len(Tail(s)) = Len(s) - 1
      /\ Head(s) \in Value /\ Head(s) = s[1]
      /\ \A i \in 1..(Len(s) - 1) : Tail(s)[i] = s[i + 1]
  BY <1>1, Popped
<1>5. ASSUME NEW i \in 1..(Len(e) - 1)
      PROVE  Tail(n)[i] = Tail(e)[i].name /\ Tail(s)[i] = Tail(e)[i].val
  <2>1. i + 1 \in 1..Len(e)
    BY <1>1
  <2> QED
    BY <1>1, <1>2, <1>3, <1>4, <2>1
<1>6. NamesOf(Tail(n), Tail(e))
  BY <1>1, <1>2, <1>3, <1>5 DEF NamesOf
<1>7. Spread(<< >>, Tail(s), Tail(e))
  BY <1>1, <1>2, <1>4, <1>5 DEF Spread
<1>8. s = <<Head(s)>> \o Tail(s)
  BY <1>1, Rebuilt
<1>9. 1 \in 1..Len(e)
  BY <1>1
<1> QED
  BY <1>1, <1>2, <1>3, <1>4, <1>6, <1>7, <1>8, <1>9

\* Changing the value of a binding keeps its name.
LEMMA ValueSet ==
    ASSUME NEW r \in Binding, NEW x \in Value
    PROVE  [r EXCEPT !.val = x] = [name |-> r.name, val |-> x]
BY DEF Binding

\* The assignment of the abstract environment overwrites one value.
LEMMA AssignedIs ==
    ASSUME NEW e \in Seq(Binding), NEW t \in Nat, t + 2 <= Len(e)
    PROVE  /\ Tail([e EXCEPT ![t + 2].val = e[1].val]) = Assigned(e, t)
           /\ Assigned(e, t) \in Seq(Binding)
           /\ Len(Assigned(e, t)) = Len(e) - 1
           /\ \A i \in 1..(Len(e) - 1) : Assigned(e, t)[i].name = e[i + 1].name
<1> DEFINE w == [e EXCEPT ![t + 2].val = e[1].val]
           v(i) == IF i = t + 1 THEN e[1].val ELSE e[i + 1].val
           a == [i \in 1..(Len(e) - 1) |-> [name |-> e[i + 1].name, val |-> v(i)]]
<1>1. Len(e) \in Nat /\ Len(e) >= 2 /\ t + 2 \in 1..Len(e)
  OBVIOUS
<1>2. \A i \in 1..Len(e) : /\ e[i] \in Binding
                           /\ e[i] = [name |-> e[i].name, val |-> e[i].val]
                           /\ e[i].name \in Name /\ e[i].val \in Value
  <2>1. \A i \in 1..Len(e) : e[i] \in Binding
    OBVIOUS
  <2> QED
    BY <2>1, BindingParts
<1>3. e[1].val \in Value /\ \A i \in 1..(Len(e) - 1) : v(i) \in Value
  <2>1. e[1].val \in Value
    <3>1. 1 \in 1..Len(e)
      BY <1>1
    <3> QED
      BY <1>2, <3>1
  <2>2. ASSUME NEW i \in 1..(Len(e) - 1) PROVE v(i) \in Value
    <3>1. i + 1 \in 1..Len(e)
      BY <1>1
    <3>2. e[i + 1].val \in Value
      BY <1>2, <3>1
    <3> QED
      BY <2>1, <3>2
  <2> QED
    BY <2>1, <2>2
<1>4. Assigned(e, t) = a
  BY DEF Assigned
<1>5. w = [e EXCEPT ![t + 2] = [e[t + 2] EXCEPT !.val = e[1].val]]
  OBVIOUS
<1>6. [e[t + 2] EXCEPT !.val = e[1].val]
        = [name |-> e[t + 2].name, val |-> e[1].val]
  BY <1>1, <1>2, <1>3, ValueSet
<1>7. [name |-> e[t + 2].name, val |-> e[1].val] \in Binding
  BY <1>1, <1>2, <1>3 DEF Binding
<1> HIDE DEF w, v
<1>8. /\ w \in Seq(Binding) /\ Len(w) = Len(e)
      /\ w[t + 2] = [name |-> e[t + 2].name, val |-> e[1].val]
      /\ \A i \in 1..Len(e) : i # t + 2 => w[i] = e[i]
  BY <1>1, <1>5, <1>6, <1>7
<1>9. /\ a \in Seq(Binding) /\ Len(a) = Len(e) - 1
      /\ \A i \in 1..(Len(e) - 1) : a[i] = [name |-> e[i + 1].name, val |-> v(i)]
  <2>1. \A i \in 1..(Len(e) - 1) :
           [name |-> e[i + 1].name, val |-> v(i)] \in Binding
    <3>1. \A i \in 1..(Len(e) - 1) : i + 1 \in 1..Len(e)
      BY <1>1
    <3> QED
      BY <1>2, <1>3, <3>1 DEF Binding
  <2> QED
    BY <1>1, <2>1
<1>10. /\ Tail(w) \in Seq(Binding) /\ Len(Tail(w)) = Len(w) - 1
       /\ \A i \in 1..(Len(w) - 1) : Tail(w)[i] = w[i + 1]
  <2>1. Len(w) >= 1
    BY <1>1, <1>8
  <2> QED
    BY <1>8, <2>1, Popped
<1> HIDE DEF a
<1>11. ASSUME NEW i \in 1..(Len(e) - 1) PROVE Tail(w)[i] = a[i]
  <2>1. i + 1 \in 1..Len(e) /\ (i + 1 = t + 2 <=> i = t + 1)
    BY <1>1
  <2>2. Tail(w)[i] = w[i + 1]
    BY <1>8, <1>10
  <2>3. CASE i = t + 1
    <3>1. i + 1 = t + 2 /\ v(i) = e[1].val
      BY <2>1, <2>3 DEF v
    <3> QED
      BY <1>8, <1>9, <2>2, <3>1
  <2>4. CASE i # t + 1
    <3>1. w[i + 1] = e[i + 1] /\ v(i) = e[i + 1].val
      BY <1>8, <2>1, <2>4 DEF v
    <3> QED
      BY <1>2, <1>9, <2>1, <2>2, <3>1
  <2> QED
    BY <2>3, <2>4
<1>12. Tail(w) = a
  <2>1. Len(Tail(w)) = Len(a)
    BY <1>8, <1>9, <1>10
  <2>2. \A i \in 1..Len(a) : Tail(w)[i] = a[i]
    BY <1>9, <1>11
  <2> QED
    BY <1>9, <1>10, <2>1, <2>2, SeqEqual
<1>13. ASSUME NEW i \in 1..(Len(e) - 1) PROVE a[i].name = e[i + 1].name
  <2>1. a[i] = [name |-> e[i + 1].name, val |-> v(i)]
    BY <1>9
  <2> QED
    BY <2>1
<1> QED
  BY <1>4, <1>9, <1>12, <1>13 DEF w

\* What a restriction leaves is the result and the scope, or the scope only.
LEMMA CutIs ==
    ASSUME NEW e \in Seq(Binding), e # << >>, NEW b \in 2..(Len(e) + 1)
    PROVE  /\ Cut(e, 1, b) = <<e[1]>> \o SubSeq(e, b, Len(e))
           /\ Cut(e, 0, 2) = Tail(e)
<1>1. Len(e) \in Nat /\ Len(e) >= 1 /\ b \in Nat /\ b >= 2 /\ b <= Len(e) + 1
  BY EmptySeq
<1>2. SubSeq(e, 1, 1) = <<e[1]>>
  <2>1. Len(SubSeq(e, 1, 1)) = 1 - 1 + 1
    BY <1>1, SliceLen
  <2>2. SubSeq(e, 1, 1) \in Seq(Binding) /\ SubSeq(e, 1, 1)[1] = e[1]
    BY <1>1
  <2>3. <<e[1]>> \in Seq(Binding) /\ Len(<<e[1]>>) = 1 /\ <<e[1]>>[1] = e[1]
    BY <1>1
  <2>4. \A i \in 1..1 : SubSeq(e, 1, 1)[i] = <<e[1]>>[i]
    BY <2>2, <2>3
  <2>5. Len(SubSeq(e, 1, 1)) = 1
    BY <2>1
  <2> DEFINE s == SubSeq(e, 1, 1)
             r == <<e[1]>>
  <2>6. /\ s \in Seq(Binding) /\ r \in Seq(Binding)
        /\ Len(s) = Len(r) /\ \A i \in 1..Len(s) : s[i] = r[i]
    BY <2>2, <2>3, <2>4, <2>5
  <2> HIDE DEF s, r
  <2>7. s = r
    BY <2>6, SeqEqual
  <2> QED
    BY <2>7 DEF s, r
<1>3. Cut(e, 1, b) = <<e[1]>> \o SubSeq(e, b, Len(e))
  BY <1>2 DEF Cut
<1> DEFINE r == Cut(e, 0, 2)
<1>4. /\ r \in Seq(Binding) /\ Len(r) = 0 + (Len(e) - 2 + 1)
      /\ \A j \in 1..(Len(e) - 2 + 1) : r[0 + j] = e[2 - 1 + j]
  BY <1>1, CutAt
<1>5. /\ Tail(e) \in Seq(Binding) /\ Len(Tail(e)) = Len(e) - 1
      /\ \A j \in 1..(Len(e) - 1) : Tail(e)[j] = e[j + 1]
  BY <1>1, Popped
<1> HIDE DEF r
<1>6. Len(r) = Len(Tail(e)) /\ Len(r) = Len(e) - 1
  BY <1>1, <1>4, <1>5
<1>7. ASSUME NEW j \in 1..(Len(e) - 1) PROVE r[j] = Tail(e)[j]
  <2>1. j \in 1..(Len(e) - 2 + 1) /\ 0 + j = j /\ 2 - 1 + j = j + 1
    BY <1>1
  <2> QED
    BY <1>4, <1>5, <2>1
<1>8. r = Tail(e)
  <2>1. \A j \in 1..Len(r) : r[j] = Tail(e)[j]
    BY <1>6, <1>7
  <2> QED
    BY <1>4, <1>5, <1>6, <2>1, SeqEqual
<1> QED
  BY <1>3, <1>8 DEF r

\* A fragment that returns leaves the bindings that its walk has built.
LEMMA ReturnsTo ==
    ASSUME IInv', pc # "idle", pc' = "idle", held' = << >>,
           NEW e \in Seq(Binding), NamesOf(env', e), Spread(<< >>, stack', e)
    PROVE  Abstract = entry /\ Abstract' = e
<1>1. env' \in Seq(Name) /\ stack' \in Seq(Value)
  BY DEF IInv, TypeOK
<1>2. Bindings' = [i \in 1..Len(env') |-> [name |-> env'[i], val |-> stack'[i]]]
  BY DEF Bindings
<1>3. Bindings' = e
  BY <1>1, <1>2, Paired
<1> QED
  BY <1>3 DEF Abstract

\* Between fragments a step of the client rebuilds the bindings.
LEMMA ClientRebuilds ==
    ASSUME IInv', pc = "idle", pc' = "idle",
           NEW e \in Seq(Binding), NamesOf(env', e), Spread(<< >>, stack', e)
    PROVE  Abstract = Bindings /\ Abstract' = e
<1>1. env' \in Seq(Name) /\ stack' \in Seq(Value)
  BY DEF IInv, TypeOK
<1>2. Bindings' = [i \in 1..Len(env') |-> [name |-> env'[i], val |-> stack'[i]]]
  BY DEF Bindings
<1>3. Bindings' = e
  BY <1>1, <1>2, Paired
<1> QED
  BY <1>3 DEF Abstract

\* The client's own steps are those of the abstract environment, and a call
\* changes nothing yet.
LEMMA ClientRefines ==
    ASSUME IInv, IInv', ContentsInv, Client
    PROVE  Named!Next \/ UNCHANGED Abstract
<1> DEFINE B == Bindings
<1>1. pc = "idle"
  BY DEF Client, Push, Bind, Drop, CallGet, CallSet, RestrictTo,
         RestrictBlock, Clear
<1>2. /\ B \in Seq(Binding) /\ Len(B) = Len(env) /\ NamesOf(env, B)
      /\ \A i \in 1..Len(env) : B[i].name = env[i] /\ B[i].val = stack[i]
      /\ held = << >> /\ Spread(<< >>, stack, B)
      /\ env \in Seq(Name) /\ stack \in Seq(Value) /\ Len(env) \in Nat
  BY <1>1, BindingsNow DEF IInv, TypeOK, WalkInv
<1> HIDE DEF B
<1>3. ASSUME NEW v \in Value, Push(v) PROVE Named!Next
  <2>1. /\ env' = <<Tmp>> \o env /\ stack' = <<v>> \o stack
        /\ pc' = "idle" /\ Len(env) < MaxEnv
    BY <1>3 DEF Push
  <2> DEFINE f == <<[name |-> Tmp, val |-> v]>> \o B
  <2>2. /\ f \in Seq(Binding) /\ NamesOf(<<Tmp>> \o env, f)
        /\ Spread(<< >>, <<v>> \o stack, f)
    BY <1>2, TmpAssumption, PairedPush
  <2> HIDE DEF f
  <2>3. Abstract = B /\ Abstract' = f
    BY <1>1, <2>1, <2>2, ClientRebuilds DEF B
  <2>4. Named!Produce(v)
    BY <1>2, <2>1, <2>3 DEF Named!Produce, Named!Temporary, f
  <2> QED
    BY <2>4 DEF Named!Next
<1>4. ASSUME HasResult
      PROVE  /\ B # << >> /\ B[1].name = Tmp /\ env # << >>
             /\ Tail(B) \in Seq(Binding) /\ Tail(env) \in Seq(Name)
             /\ Tail(stack) \in Seq(Value) /\ Head(stack) \in Value
             /\ Head(stack) = B[1].val
             /\ stack = <<Head(stack)>> \o Tail(stack)
             /\ NamesOf(Tail(env), Tail(B)) /\ Spread(<< >>, Tail(stack), Tail(B))
  <2>1. env # << >> /\ env[1] = Tmp
    BY <1>4 DEF HasResult
  <2>2. Len(B) >= 1
    BY <1>2, <2>1, EmptySeq
  <2>3. B # << >>
    BY <1>2, <2>2
  <2> QED
    BY <1>2, <2>1, <2>3, PairedPop
<1>5. ASSUME NEW s \in Name, Bind(s) PROVE Named!Next
  <2>1. /\ HasResult /\ s # Tmp /\ env' = <<s>> \o Tail(env)
        /\ stack' = stack /\ pc' = "idle"
    BY <1>5 DEF Bind
  <2> DEFINE f == <<[name |-> s, val |-> B[1].val]>> \o Tail(B)
  <2>2. /\ f \in Seq(Binding) /\ NamesOf(<<s>> \o Tail(env), f)
        /\ Spread(<< >>, <<Head(stack)>> \o Tail(stack), f)
    BY <1>4, <2>1, PairedPush
  <2> HIDE DEF f
  <2>3. Abstract = B /\ Abstract' = f
    BY <1>1, <1>4, <2>1, <2>2, ClientRebuilds DEF B
  <2>4. Named!Bind(s)
    BY <1>4, <2>1, <2>3 DEF Named!Bind, Named!HasResult, f
  <2> QED
    BY <2>1, <2>4 DEF Named!Next
<1>6. CASE Drop
  <2>1. /\ HasResult /\ env' = Tail(env)
        /\ stack' = Tail(stack) /\ pc' = "idle"
    BY <1>6 DEF Drop
  <2>2. Abstract = B /\ Abstract' = Tail(B)
    BY <1>1, <1>4, <2>1, ClientRebuilds DEF B
  <2>3. Named!Forget
    BY <1>4, <2>1, <2>2 DEF Named!Forget, Named!HasResult
  <2> QED
    BY <2>3 DEF Named!Next
<1>7. ASSUME pc' # "idle", entry' = Bindings PROVE UNCHANGED Abstract
  BY <1>1, <1>7 DEF Abstract
<1>8. ASSUME NEW s \in Name, CallGet(s) \/ CallSet(s) PROVE UNCHANGED Abstract
  <2>1. pc' # "idle" /\ entry' = Bindings
    BY <1>8 DEF CallGet, CallSet
  <2> QED
    BY <1>7, <2>1
<1>9. ASSUME NEW m \in 0..MaxEnv, RestrictTo(m) PROVE UNCHANGED Abstract
  <2>1. pc' # "idle" /\ entry' = Bindings
    BY <1>9 DEF RestrictTo, CallSelect
  <2> QED
    BY <1>7, <2>1
<1>10. CASE RestrictBlock \/ Clear
  <2>1. pc' # "idle" /\ entry' = Bindings
    BY <1>10 DEF RestrictBlock, Clear, CallSelect
  <2> QED
    BY <1>7, <2>1
<1> QED
  BY <1>3, <1>5, <1>6, <1>8, <1>9, <1>10 DEF Client

\* get returns with a copy of the innermost binding of its name.
LEMMA GetRefines ==
    ASSUME IInv, IInv', ContentsInv, GetReturn
    PROVE  Named!Next
<1>1. /\ pc = "get_up" /\ pc' = "idle" /\ held = << >> /\ held' = << >>
      /\ env' = <<Tmp>> \o env /\ stack' = stack
  BY DEF GetReturn, Return
<1>2. /\ NamesOf(env, entry) /\ Len(env) < MaxEnv /\ Variable(target + 1, env)
      /\ stack # << >> /\ Head(stack) = entry[target + 1].val
      /\ Spread(<< >>, Tail(stack), entry)
  BY <1>1 DEF ContentsInv, GetContents
<1>3. /\ env \in Seq(Name) /\ stack \in Seq(Value) /\ entry \in Seq(Binding)
      /\ target \in Nat /\ Len(stack) >= 1 /\ MaxEnv \in Nat
  BY <1>2, EmptySeq, MaxEnvAssumption DEF IInv, TypeOK
<1>4. /\ Head(stack) \in Value /\ Tail(stack) \in Seq(Value)
      /\ stack = <<Head(stack)>> \o Tail(stack)
  BY <1>3, Popped, Rebuilt
<1> DEFINE f == <<[name |-> Tmp, val |-> entry[target + 1].val]>> \o entry
<1>5. /\ f \in Seq(Binding) /\ NamesOf(<<Tmp>> \o env, f)
      /\ Spread(<< >>, <<Head(stack)>> \o Tail(stack), f)
  BY <1>2, <1>3, <1>4, TmpAssumption, PairedPush
<1> HIDE DEF f
<1>6. Abstract = entry /\ Abstract' = f
  BY <1>1, <1>4, <1>5, ReturnsTo
<1>7. PICK s \in Name \ {Tmp} : IsInnermost(target + 1, s, env)
  BY <1>2 DEF Variable
<1>8. /\ target + 1 \in 1..Len(env) /\ env[target + 1] = s
      /\ \A j \in 1..((target + 1) - 1) : env[j] # s
  BY <1>3, <1>7 DEF IsInnermost
<1>9. Len(entry) = Len(env) /\ \A i \in 1..Len(entry) : env[i] = entry[i].name
  BY <1>2 DEF NamesOf
<1>10. /\ target + 1 \in DOMAIN entry /\ entry[target + 1].name = s
       /\ \A j \in 1..((target + 1) - 1) : entry[j].name # s
  <2>1. \A j \in 1..((target + 1) - 1) : j \in 1..Len(entry)
    BY <1>3, <1>8, <1>9
  <2> QED
    BY <1>3, <1>8, <1>9, <2>1
<1>11. Named!Lookup(target + 1)
  BY <1>2, <1>6, <1>7, <1>9, <1>10
     DEF Named!Lookup, Named!Denotes, Named!Temporary, f
<1>12. target + 1 \in 1..MaxEnv
  BY <1>2, <1>3, <1>8
<1> QED
  BY <1>11, <1>12 DEF Named!Next

\* set returns with the innermost binding of its name overwritten.
LEMMA SetRefines ==
    ASSUME IInv, IInv', ContentsInv, SetReturn
    PROVE  Named!Next
<1>1. /\ pc = "set_up" /\ pc' = "idle" /\ held = << >> /\ held' = << >>
      /\ env' = Tail(env) /\ stack' = stack
  BY DEF SetReturn, Return
<1>2. /\ NamesOf(env, entry) /\ env[1] = Tmp /\ Variable(target + 1, Tail(env))
      /\ entry # << >> /\ Len(entry) <= MaxEnv
      /\ Spread(<< >>, stack, Assigned(entry, target))
  BY <1>1 DEF ContentsInv, SetContents, EntryContents
<1>3. /\ env \in Seq(Name) /\ entry \in Seq(Binding) /\ target \in Nat
      /\ Len(entry) \in Nat /\ Len(entry) >= 1 /\ MaxEnv \in Nat
  BY <1>2, EmptySeq, MaxEnvAssumption DEF IInv, TypeOK
<1>4. Len(entry) = Len(env) /\ \A i \in 1..Len(entry) : env[i] = entry[i].name
  BY <1>2 DEF NamesOf
<1>5. /\ Tail(env) \in Seq(Name) /\ Len(Tail(env)) = Len(entry) - 1
      /\ \A i \in 1..(Len(entry) - 1) : Tail(env)[i] = env[i + 1]
  BY <1>3, <1>4, Popped
<1>6. PICK s \in Name \ {Tmp} : IsInnermost(target + 1, s, Tail(env))
  BY <1>2 DEF Variable
<1>7. /\ target + 1 \in 1..(Len(entry) - 1) /\ Tail(env)[target + 1] = s
      /\ \A j \in 1..((target + 1) - 1) : Tail(env)[j] # s
  BY <1>3, <1>5, <1>6 DEF IsInnermost
<1>8. target + 2 \in 1..Len(entry) /\ target + 2 <= Len(entry)
  BY <1>3, <1>7
<1> DEFINE a == Assigned(entry, target)
<1>9. /\ Tail([entry EXCEPT ![target + 2].val = entry[1].val]) = a
      /\ a \in Seq(Binding) /\ Len(a) = Len(entry) - 1
      /\ \A i \in 1..(Len(entry) - 1) : a[i].name = entry[i + 1].name
  BY <1>3, <1>8, AssignedIs
<1> HIDE DEF a
<1>10. NamesOf(Tail(env), a)
  <2>1. ASSUME NEW i \in 1..(Len(entry) - 1) PROVE Tail(env)[i] = a[i].name
    <3>1. i + 1 \in 1..Len(entry)
      BY <1>3
    <3> QED
      BY <1>4, <1>5, <1>9, <3>1
  <2> QED
    BY <1>5, <1>9, <2>1 DEF NamesOf
<1>11. Abstract = entry /\ Abstract' = a
  BY <1>1, <1>2, <1>9, <1>10, ReturnsTo DEF a
<1>12. /\ entry[target + 2].name = s
       /\ \A j \in 1..((target + 2) - 1) : entry[j].name # s
  <2>1. entry[target + 2].name = s
    <3>1. (target + 1) + 1 = target + 2
      BY <1>3
    <3> QED
      BY <1>4, <1>5, <1>7, <1>8, <3>1
  <2>2. ASSUME NEW j \in 1..((target + 2) - 1) PROVE entry[j].name # s
    <3>1. CASE j = 1
      <4>1. 1 \in 1..Len(entry)
        BY <1>3
      <4> QED
        BY <1>2, <1>4, <1>6, <3>1, <4>1
    <3>2. CASE j # 1
      <4>1. /\ j - 1 \in 1..((target + 1) - 1) /\ (j - 1) + 1 = j
            /\ j - 1 \in 1..(Len(entry) - 1) /\ j \in 1..Len(entry)
        BY <1>3, <1>7, <3>2
      <4>2. Tail(env)[j - 1] # s /\ Tail(env)[j - 1] = env[j]
        BY <1>5, <1>7, <4>1
      <4> QED
        BY <1>4, <4>1, <4>2
    <3> QED
      BY <3>1, <3>2
  <2> QED
    BY <2>1, <2>2
<1>13. entry[1].name = Tmp
  <2>1. 1 \in 1..Len(entry)
    BY <1>3
  <2> QED
    BY <1>2, <1>4, <2>1
<1>14. target + 2 \in DOMAIN entry /\ target + 2 > 1
  BY <1>3, <1>8
<1>15. Named!Assign(target + 2)
  BY <1>2, <1>6, <1>9, <1>11, <1>12, <1>13, <1>14
     DEF Named!Assign, Named!HasResult, Named!Denotes
<1>16. target + 2 \in 1..MaxEnv
  BY <1>2, <1>3, <1>8
<1> QED
  BY <1>15, <1>16 DEF Named!Next

\* select returns with the bindings of a scope, below the result or alone.
LEMMA SelectRefines ==
    ASSUME IInv, IInv', ContentsInv, SelectReturn
    PROVE  Named!Next
<1>1. /\ pc = "select_up" /\ pc' = "idle" /\ held = << >> /\ held' = << >>
      /\ env' = env /\ stack' = stack
  BY DEF SelectReturn, Return
<1>2. PICK b \in Nat, top \in 0..1 :
             /\ KeptFrom(b, top)
             /\ NamesOf(env, Left(entry, Len(held), b, top))
             /\ Spread(held, stack, Left(entry, Len(held), b, top))
  BY <1>1 DEF ContentsInv, SelectContents, Left
<1>3. /\ entry # << >> /\ Len(entry) <= MaxEnv /\ entry[1].name = Tmp
      /\ entry \in Seq(Binding) /\ Len(entry) \in Nat /\ Len(entry) >= 1
      /\ MaxEnv \in Nat
  BY <1>1, EmptySeq, MaxEnvAssumption
     DEF ContentsInv, SelectContents, EntryContents, IInv, TypeOK
<1>4. /\ b \in 2..(Len(entry) + 1) /\ (top = 0 => b = 2)
      /\ Inner(Len(held), b, top) = top
  BY <1>1, <1>2 DEF KeptFrom, Inner
<1> DEFINE c == Cut(entry, top, b)
<1>5. c \in Seq(Binding)
  BY <1>3, <1>4, CutAt
<1>6. NamesOf(env, c) /\ Spread(<< >>, stack, c)
  BY <1>1, <1>2, <1>4 DEF Left
<1> HIDE DEF c
<1>7. Abstract = entry /\ Abstract' = c
  BY <1>1, <1>5, <1>6, ReturnsTo
<1>8. CASE top = 1
  <2> DEFINE m == Len(entry) + 1 - b
  <2>1. m \in 0..MaxEnv /\ m < Len(entry) /\ Len(entry) - m + 1 = b
    BY <1>3, <1>4
  <2> HIDE DEF m
  <2>2. c = <<entry[1]>> \o SubSeq(entry, Len(entry) - m + 1, Len(entry))
    BY <1>3, <1>4, <1>8, <2>1, CutIs DEF c
  <2>3. Named!Leave(m)
    BY <1>3, <1>7, <2>1, <2>2 DEF Named!Leave, Named!HasResult
  <2> QED
    BY <2>1, <2>3 DEF Named!Next
<1>9. CASE top = 0
  <2>1. c = Tail(entry)
    BY <1>3, <1>4, <1>9, CutIs DEF c
  <2>2. Named!Forget
    BY <1>3, <1>7, <2>1 DEF Named!Forget, Named!HasResult
  <2> QED
    BY <2>2 DEF Named!Next
<1> QED
  BY <1>8, <1>9

\* The environments start empty.
LEMMA InitRefines == Init => Named!Init
<1> SUFFICES ASSUME Init PROVE Abstract = << >>
  BY DEF Named!Init
<1>1. pc = "idle" /\ env = << >>
  BY DEF Init
<1>2. Len(env) = 0
  BY <1>1
<1>3. Bindings = [i \in 1..0 |-> [name |-> env[i], val |-> stack[i]]]
  BY <1>2 DEF Bindings
<1>4. Bindings \in Seq(Binding) /\ Len(Bindings) = 0
  BY <1>3
<1>5. Bindings = << >>
  BY <1>4, EmptySeq
<1> QED
  BY <1>1, <1>5 DEF Abstract

\* Each step of the walks is a step of the abstract environment or none.
LEMMA StepRefines ==
    IInv /\ IInv' /\ ContentsInv /\ [Next]_vars => [Named!Next]_Abstract
<1> SUFFICES ASSUME IInv, IInv', ContentsInv, [Next]_vars
             PROVE  Named!Next \/ UNCHANGED Abstract
  OBVIOUS
<1>1. CASE Client
  BY <1>1, ClientRefines
<1>2. CASE GetReturn \/ SetReturn \/ SelectReturn
  BY <1>2, GetRefines, SetRefines, SelectRefines
<1>3. CASE UNCHANGED vars
  <2>1. UNCHANGED <<env, stack, pc, entry>>
    BY <1>3 DEF vars
  <2> QED
    BY <2>1 DEF Abstract, Bindings
<1>4. CASE \/ GetDip \/ GetDup \/ GetSwap
           \/ SetSwapDip \/ SetDrop \/ SetUndip
           \/ ScanKeep \/ ScanSkip \/ ScanEnd
           \/ SelectDip \/ SelectBottom \/ SelectKeep \/ SelectDrop
  <2>1. pc # "idle" /\ pc' # "idle" /\ entry' = entry
    BY <1>4 DEF GetDip, GetDup, GetSwap, SetSwapDip, SetDrop, SetUndip,
                ScanKeep, ScanSkip, ScanEnd, SelectDip, SelectBottom,
                SelectKeep, SelectDrop
  <2> QED
    BY <2>1 DEF Abstract
<1> QED
  BY <1>1, <1>2, <1>3, <1>4 DEF Next, Fragment

\* Nothing has been walked at the start.
LEMMA InitContents == Init => ScopeInv /\ ContentsInv
BY MaxEnvAssumption
   DEF Init, ScopeInv, ContentsInv, IdleContents, EntryContents, GetContents,
       SetContents, SelectContents

-----------------------------------------------------------------------------
(* Results. *)

\* The environment, the stack and the locals of a fragment keep their types
\* over every sequence of calls of get, set, select and clear.
THEOREM TypeCorrect == Spec => []TypeOK
<1>1. IInv => TypeOK
  BY DEF IInv
<1> QED
  BY InvariantHolds, <1>1, PTL

\* Between two fragments each stack element has exactly one name: a walk of
\* get adds one, a walk of set removes one, a walk of select as many as names.
THEOREM StackMatches == Spec => []StackMatchesEnvironment
<1>1. IInv => StackMatchesEnvironment
  BY DEF IInv, WalkInv, StackMatchesEnvironment
<1> QED
  BY InvariantHolds, <1>1, PTL

\* No fragment runs an instruction on a stack too short for it, at any depth.
THEOREM NoUnderflow == Spec => []OperandsPresent
<1>1. IInv => OperandsPresent
  BY DEF IInv, TypeOK, WalkInv, Depth, OperandsPresent
<1> QED
  BY InvariantHolds, <1>1, PTL

\* Leaving a scope keeps the bindings of the outer scope and none that is
\* further in, however often the names of the one are bound in the other.
THEOREM OuterScopeKept == Spec => []RestrictKeepsOuterScope
<1>1. Init => ScopeInv
  BY DEF Init, ScopeInv
<1>2. IInv /\ ScopeInv => RestrictKeepsOuterScope
  <2> SUFFICES ASSUME IInv, ScopeInv, pc = "select_down", floor = 1,
                      NEW i \in keep, NEW j \in i..Len(env)
               PROVE  j \in keep
    BY DEF RestrictKeepsOuterScope
  <2>1. target \in Nat /\ Len(env) \in Nat
    BY DEF IInv, TypeOK
  <2>2. PICK b \in Nat : keep = Kept(env, b, target)
    BY DEF ScopeInv, ScanFrom
  <2> QED
    BY <2>1, <2>2 DEF Kept
<1> QED
  BY InvariantHolds, ScopeStep, <1>1, <1>2, PTL DEF Spec

\* Get, set, select and clear, run instruction by instruction on a stack,
\* implement a list of named bindings in which a variable is read, assigned
\* and forgotten in one step: for every environment, every depth of DIPs and
\* every sequence of calls.
THEOREM EnvironmentImplemented == Spec => ImplementsNamedEnvironment
<1>1. Spec => [](IInv /\ ScopeInv /\ ContentsInv)
  BY InvariantHolds, InitContents, ScopeStep, ContentsStep, PTL DEF Spec
<1>2. IInv /\ IInv' /\ ContentsInv /\ [Next]_vars => [Named!Next]_Abstract
  BY StepRefines
<1> QED
  BY InitRefines, <1>1, <1>2, PTL
     DEF Spec, ImplementsNamedEnvironment, Named!Spec
=============================================================================

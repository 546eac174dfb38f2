--------------------------- MODULE ClosuresProofs ---------------------------
(***************************************************************************)
(* Theorems about the life of a lambda, for every set of names, every      *)
(* environment and every body: what it captures, how that is packed and    *)
(* unpacked, and what a call leaves of its caller's stack.                 *)
(***************************************************************************)
EXTENDS Closures, FiniteSetTheorems, WellFoundedInduction, TLAPS

-----------------------------------------------------------------------------
(* Stacks: what an instruction does to a sequence of values of any kind.   *)

IsSeq(s) == \E S : s \in Seq(S)

\* One value is pushed: every other goes down by one.
LEMMA Pushed ==
    ASSUME NEW s, IsSeq(s), NEW x
    PROVE  /\ IsSeq(<<x>> \o s)
           /\ Len(s) \in Nat
           /\ Len(<<x>> \o s) = Len(s) + 1
           /\ (<<x>> \o s)[1] = x
           /\ \A i \in 1..Len(s) : (<<x>> \o s)[i + 1] = s[i]
<1>1. PICK S : s \in Seq(S)
  BY DEF IsSeq
<1>2. s \in Seq(S \union {x}) /\ <<x>> \in Seq(S \union {x})
  BY <1>1
<1>3. <<x>> \o s \in Seq(S \union {x})
  BY <1>2
<1> QED
  BY <1>2, <1>3 DEF IsSeq

\* Two values are pushed.
LEMMA PushedTwo ==
    ASSUME NEW s, IsSeq(s), NEW x, NEW y
    PROVE  /\ IsSeq(<<x, y>> \o s)
           /\ Len(<<x, y>> \o s) = Len(s) + 2
           /\ (<<x, y>> \o s)[1] = x
           /\ (<<x, y>> \o s)[2] = y
           /\ \A i \in 1..Len(s) : (<<x, y>> \o s)[i + 2] = s[i]
<1>1. PICK S : s \in Seq(S)
  BY DEF IsSeq
<1>2. s \in Seq(S \union {x, y}) /\ <<x, y>> \in Seq(S \union {x, y})
  BY <1>1
<1>3. <<x, y>> \o s \in Seq(S \union {x, y})
  BY <1>2
<1> QED
  BY <1>2, <1>3 DEF IsSeq

\* The top is taken away.
LEMMA Popped ==
    ASSUME NEW s, IsSeq(s), Len(s) >= 1
    PROVE  /\ IsSeq(Tail(s))
           /\ Head(s) = s[1]
           /\ Len(Tail(s)) = Len(s) - 1
           /\ \A i \in 1..(Len(s) - 1) : Tail(s)[i] = s[i + 1]
<1>1. PICK S : s \in Seq(S)
  BY DEF IsSeq
<1>2. s # << >>
  BY <1>1
<1>3. Tail(s) \in Seq(S)
  BY <1>1, <1>2
<1> QED
  BY <1>1, <1>2, <1>3 DEF IsSeq

\* What is below the first m values.
LEMMA Below ==
    ASSUME NEW s, IsSeq(s), NEW m \in Nat, m <= Len(s)
    PROVE  /\ IsSeq(SubSeq(s, m + 1, Len(s)))
           /\ Len(SubSeq(s, m + 1, Len(s))) = Len(s) - m
           /\ \A i \in 1..(Len(s) - m) : SubSeq(s, m + 1, Len(s))[i] = s[i + m]
<1>1. PICK S : s \in Seq(S)
  BY DEF IsSeq
<1>2. PICK n \in Nat : n = Len(s)
  BY <1>1
<1>3. SubSeq(s, m + 1, n) \in Seq(S)
  BY <1>1, <1>2
<1>4. Len(SubSeq(s, m + 1, n)) = n - m
  BY <1>1, <1>2
<1>5. \A i \in 1..(n - m) : SubSeq(s, m + 1, n)[i] = s[i + m]
  BY <1>1, <1>2
<1> QED
  BY <1>2, <1>3, <1>4, <1>5 DEF IsSeq

\* A DIP sets the top aside.
LEMMA SetAside ==
    ASSUME NEW s, IsSeq(s), NEW x
    PROVE  /\ IsSeq(Append(s, x))
           /\ Len(Append(s, x)) = Len(s) + 1
           /\ Append(s, x)[Len(s) + 1] = x
           /\ \A i \in 1..Len(s) : Append(s, x)[i] = s[i]
<1>1. PICK S : s \in Seq(S)
  BY DEF IsSeq
<1>2. s \in Seq(S \union {x})
  BY <1>1
<1>3. Append(s, x) \in Seq(S \union {x})
  BY <1>2
<1> QED
  BY <1>2, <1>3 DEF IsSeq

\* Leaving a DIP takes back what was set aside last.
LEMMA TakenBack ==
    ASSUME NEW s, IsSeq(s), s # << >>
    PROVE  /\ Len(s) \in Nat \ {0}
           /\ IsSeq(SubSeq(s, 1, Len(s) - 1))
           /\ Len(SubSeq(s, 1, Len(s) - 1)) = Len(s) - 1
           /\ \A i \in 1..(Len(s) - 1) : SubSeq(s, 1, Len(s) - 1)[i] = s[i]
<1>1. PICK S : s \in Seq(S)
  BY DEF IsSeq
<1>2. PICK n \in Nat : n + 1 = Len(s)
  BY <1>1
<1>3. SubSeq(s, 1, n) \in Seq(S)
  BY <1>1, <1>2
<1>4. Len(SubSeq(s, 1, n)) = n
  BY <1>1, <1>2
<1>5. \A i \in 1..n : SubSeq(s, 1, n)[i] = s[i]
  BY <1>1, <1>2
<1>6. n = Len(s) - 1
  BY <1>2
<1> QED
  BY <1>2, <1>3, <1>4, <1>5, <1>6 DEF IsSeq

\* The top is replaced by one value.
LEMMA Replaced ==
    ASSUME NEW s, IsSeq(s), Len(s) >= 1, NEW x
    PROVE  /\ IsSeq(<<x>> \o Tail(s))
           /\ Len(<<x>> \o Tail(s)) = Len(s)
           /\ (<<x>> \o Tail(s))[1] = x
           /\ \A i \in 1..(Len(s) - 1) : (<<x>> \o Tail(s))[i + 1] = s[i + 1]
<1>1. PICK t : t = Tail(s)
  OBVIOUS
<1>2. /\ IsSeq(t) /\ Len(t) = Len(s) - 1
      /\ \A i \in 1..(Len(s) - 1) : t[i] = s[i + 1]
  BY <1>1, Popped
<1>3. /\ IsSeq(<<x>> \o t) /\ Len(<<x>> \o t) = Len(t) + 1 /\ Len(t) \in Nat
      /\ (<<x>> \o t)[1] = x /\ \A i \in 1..Len(t) : (<<x>> \o t)[i + 1] = t[i]
  BY <1>2, Pushed
<1>4. Len(s) \in Nat
  BY Pushed
<1> QED
  BY <1>1, <1>2, <1>3, <1>4

\* The top is replaced by two values.
LEMMA ReplacedByTwo ==
    ASSUME NEW s, IsSeq(s), Len(s) >= 1, NEW x, NEW y
    PROVE  /\ IsSeq(<<x, y>> \o Tail(s))
           /\ Len(<<x, y>> \o Tail(s)) = Len(s) + 1
           /\ (<<x, y>> \o Tail(s))[1] = x
           /\ (<<x, y>> \o Tail(s))[2] = y
           /\ \A i \in 1..(Len(s) - 1) : (<<x, y>> \o Tail(s))[i + 2] = s[i + 1]
<1>1. PICK t : t = Tail(s)
  OBVIOUS
<1>2. /\ IsSeq(t) /\ Len(t) = Len(s) - 1
      /\ \A i \in 1..(Len(s) - 1) : t[i] = s[i + 1]
  BY <1>1, Popped
<1>3. /\ IsSeq(<<x, y>> \o t) /\ Len(<<x, y>> \o t) = Len(t) + 2
      /\ (<<x, y>> \o t)[1] = x /\ (<<x, y>> \o t)[2] = y
      /\ \A i \in 1..Len(t) : (<<x, y>> \o t)[i + 2] = t[i]
  BY <1>2, PushedTwo
<1>4. Len(s) \in Nat
  BY Pushed
<1> QED
  BY <1>1, <1>2, <1>3, <1>4

-----------------------------------------------------------------------------
(* Finite sets of positions, enumerated in order.                          *)

Positions(n) == SUBSET (1..n)

\* How many positions of K there are up to i.
UpTo(K, i) == {j \in K : j <= i}
Rank(K, i) == Cardinality(UpTo(K, i))

\* A position of a set of them is a number from 1 to n.
LEMMA PositionsBound ==
    ASSUME NEW n \in Nat, NEW K \in Positions(n), NEW j \in K
    PROVE  j \in Int /\ j \in Nat /\ 1 <= j /\ j <= n /\ j \in 1..n /\ j - 1 \in 0..n
BY DEF Positions

\* There are finitely many positions, and ranks count them.
LEMMA RankType ==
    ASSUME NEW n \in Nat, NEW K \in Positions(n), NEW i
    PROVE  /\ IsFiniteSet(K) /\ Cardinality(K) \in Nat
           /\ IsFiniteSet(UpTo(K, i)) /\ Rank(K, i) \in Nat
<1>1. IsFiniteSet(K)
  <2>1. IsFiniteSet(1..n) /\ K \subseteq 1..n
    BY FS_Interval DEF Positions
  <2> QED BY <2>1, FS_Subset
<1>2. UpTo(K, i) \subseteq K
  BY DEF UpTo
<1> QED
  BY <1>1, <1>2, FS_Subset, FS_CardinalityType DEF Rank

\* A position counts itself.
LEMMA RankStep ==
    ASSUME NEW n \in Nat, NEW K \in Positions(n), NEW i \in 1..n
    PROVE  Rank(K, i) = IF i \in K THEN Rank(K, i - 1) + 1 ELSE Rank(K, i - 1)
<1>1. \A j \in K : j \in Int
  BY PositionsBound
<1>2. IsFiniteSet(UpTo(K, i - 1)) /\ i \notin UpTo(K, i - 1)
  <2>1. i \notin UpTo(K, i - 1)
    BY DEF UpTo
  <2> QED BY <2>1, RankType
<1>3. CASE i \in K
  <2>1. UpTo(K, i) = UpTo(K, i - 1) \union {i}
    <3>1. \A j \in Int : j <= i <=> j <= i - 1 \/ j = i
      OBVIOUS
    <3> QED BY <1>1, <1>3, <3>1 DEF UpTo
  <2> QED BY <1>2, <1>3, <2>1, FS_AddElement DEF Rank
<1>4. CASE i \notin K
  <2>1. UpTo(K, i) = UpTo(K, i - 1)
    BY <1>1, <1>4 DEF UpTo
  <2> QED BY <1>4, <2>1 DEF Rank
<1> QED
  BY <1>3, <1>4

\* Nothing comes before the first position; all come up to the last.
LEMMA RankEnds ==
    ASSUME NEW n \in Nat, NEW K \in Positions(n)
    PROVE  Rank(K, 0) = 0 /\ Rank(K, n) = Cardinality(K)
<1>1. \A j \in K : j \in Nat /\ 1 <= j /\ j <= n
  BY PositionsBound
<1>2. UpTo(K, 0) = {} /\ UpTo(K, n) = K
  BY <1>1 DEF UpTo
<1> QED
  BY <1>2, FS_EmptySet DEF Rank

\* Of two positions the later one has the larger rank.
LEMMA RankGrows ==
    ASSUME NEW n \in Nat, NEW K \in Positions(n), NEW i \in Int, NEW j \in K, i < j
    PROVE  Rank(K, i) < Rank(K, j)
<1>1. j \in 1..n /\ \A k \in K : k \in Int
  BY PositionsBound
<1>2. UpTo(K, i) \subseteq UpTo(K, j - 1)
  <2>1. \A k \in Int : k <= i => k <= j - 1
    BY <1>1
  <2> QED BY <1>1, <2>1 DEF UpTo
<1>3. Rank(K, i) <= Rank(K, j - 1)
  BY <1>2, RankType, FS_Subset DEF Rank
<1>4. Rank(K, j) = Rank(K, j - 1) + 1
  BY <1>1, RankStep
<1>5. Rank(K, i) \in Nat /\ Rank(K, j - 1) \in Nat
  BY RankType
<1> QED
  BY <1>3, <1>4, <1>5

\* Induction on a set of natural numbers, from the order of the numbers.
LEMMA LeastOf ==
    ASSUME NEW T, T \subseteq Nat, T # {}
    PROVE  \E n \in T : \A m \in T : n <= m
<1> DEFINE Less == {p \in Nat \X Nat : p[1] < p[2]}
<1>1. IsWellFoundedOn(Less, Nat)
  <2>1. OpToRel(<, Nat) = Less
    BY DEF OpToRel
  <2> QED BY <2>1, NatLessThanWellFounded
<1>2. PICK n \in T : \A m \in T : ~ (<<m, n>> \in Less)
  BY <1>1, WFMin
<1>3. ASSUME NEW m \in T
      PROVE  n <= m
  <2>1. n \in Nat /\ m \in Nat
    OBVIOUS
  <2>2. m < n => <<m, n>> \in Less
    BY <2>1
  <2> QED BY <1>2, <2>1, <2>2
<1> QED
  BY <1>3

\* Every rank is that of exactly one position.
LEMMA RankMet ==
    ASSUME NEW n \in Nat, NEW K \in Positions(n), NEW r \in Nat,
           1 <= r, r <= Cardinality(K)
    PROVE  \E i \in K : Rank(K, i) = r /\ \A j \in K : Rank(K, j) = r => j = i
<1> DEFINE T == {i \in 1..n : Rank(K, i) >= r}
<1>1. n # 0
  BY RankEnds
<1>2. n \in T /\ T \subseteq Nat
  BY <1>1, RankEnds
<1>3. PICK i \in T : \A m \in T : i <= m
  BY <1>2, LeastOf
<1>4. i \in 1..n /\ Rank(K, i) >= r
  BY <1>3
<1>5. Rank(K, i - 1) < r
  <2>1. CASE i = 1
    <3>1. Rank(K, i - 1) = 0
      BY <2>1, RankEnds
    <3> QED BY <3>1
  <2>2. CASE i # 1
    <3>1. i - 1 \in 1..n /\ i - 1 < i
      BY <1>4, <2>2
    <3>2. i - 1 \notin T
      BY <1>3, <1>4, <3>1
    <3>3. ~(Rank(K, i - 1) >= r)
      BY <3>1, <3>2
    <3>4. Rank(K, i - 1) \in Nat
      BY RankType
    <3> QED BY <3>3, <3>4
  <2> QED BY <2>1, <2>2
<1> HIDE DEF T
<1>6. Rank(K, i) = IF i \in K THEN Rank(K, i - 1) + 1 ELSE Rank(K, i - 1)
  BY <1>4, RankStep
<1>7. i \in K /\ Rank(K, i) = r
  <2> DEFINE a == Rank(K, i)
             b == Rank(K, i - 1)
  <2>1. a \in Nat /\ b \in Nat
    BY RankType
  <2>2. a >= r /\ b < r /\ a = IF i \in K THEN b + 1 ELSE b
    BY <1>4, <1>5, <1>6
  <2> HIDE DEF a, b
  <2>3. i \in K /\ a = r
    BY <2>1, <2>2
  <2> QED BY <2>3 DEF a
<1>8. ASSUME NEW j \in K, Rank(K, j) = r
      PROVE  j = i
  <2>1. j \in Int /\ i \in Int
    BY <1>7, PositionsBound
  <2>2. i < j => Rank(K, i) < Rank(K, j)
    BY <2>1, RankGrows
  <2>3. j < i => Rank(K, j) < Rank(K, i)
    BY <1>7, <2>1, RankGrows
  <2> QED BY <1>7, <1>8, <2>1, <2>2, <2>3
<1> QED
  BY <1>7, <1>8

-----------------------------------------------------------------------------
(* The captured variables in their order, and the pairs that hold them: K  *)
(* is the set of their positions, o the values of all variables.           *)

\* The position of the k-th captured variable, and the last of them.
Nth(K, k) == CHOOSE i \in K : Rank(K, i) = k
Bottom(K) == CHOOSE i \in K : \A j \in K : j <= i

\* i is the first captured position after h.
Follows(K, i, h) == i \in K /\ h < i /\ \A j \in K : ~(h < j /\ j < i)

\* v holds the variables captured after position h, nested to the right: f is
\* the pair that begins at each of them.
Packed(K, o, v, h) ==
    \E f : /\ \A i, j \in K : h < i /\ Follows(K, j, i) => f[i] = Pair(o[i], f[j])
           /\ f[Bottom(K)] = o[Bottom(K)]
           /\ \A i \in K : Follows(K, i, h) => v = f[i]

\* There is a last position, of the largest rank.
LEMMA BottomLast ==
    ASSUME NEW n \in Nat, NEW K \in Positions(n), K # {}
    PROVE  /\ Bottom(K) \in K
           /\ \A j \in K : j <= Bottom(K)
           /\ Cardinality(K) \in Nat /\ Cardinality(K) >= 1
           /\ Rank(K, Bottom(K)) = Cardinality(K)
<1> DEFINE c == Cardinality(K)
<1>1. c \in Nat /\ c >= 1
  BY RankType, FS_EmptySet
<1>2. PICK i \in K : Rank(K, i) = c
  BY <1>1, RankMet
<1>3. ASSUME NEW j \in K
      PROVE  j <= i
  <2>1. UpTo(K, j) \subseteq K
    BY DEF UpTo
  <2>2. Rank(K, j) <= c /\ Rank(K, j) \in Nat
    BY <2>1, RankType, FS_Subset DEF Rank
  <2>3. i \in Int /\ j \in Int
    BY PositionsBound
  <2>4. i < j => Rank(K, i) < Rank(K, j)
    BY <2>3, RankGrows
  <2> QED BY <1>1, <1>2, <2>2, <2>3, <2>4
<1>4. Bottom(K) \in K /\ \A j \in K : j <= Bottom(K)
  BY <1>3 DEF Bottom
<1>5. Bottom(K) = i
  BY <1>3, <1>4, PositionsBound
<1> QED
  BY <1>1, <1>2, <1>4, <1>5

\* The positions are enumerated without gaps, up to the last.
LEMMA NthKept ==
    ASSUME NEW n \in Nat, NEW K \in Positions(n),
           NEW k \in Nat, 1 <= k, k <= Cardinality(K)
    PROVE  /\ Nth(K, k) \in K /\ Rank(K, Nth(K, k)) = k
           /\ k = 1 => Follows(K, Nth(K, k), 0)
           /\ k = Cardinality(K) <=> Nth(K, k) = Bottom(K)
           /\ k < Cardinality(K) =>
                Follows(K, Nth(K, k + 1), Nth(K, k)) /\ Nth(K, k) < Bottom(K)
<1> DEFINE c == Cardinality(K)
<1>1. c \in Nat
  BY RankType
<1>2. ASSUME NEW r \in Nat, 1 <= r, r <= c
      PROVE  Nth(K, r) \in K /\ Rank(K, Nth(K, r)) = r
  <2>1. \E i \in K : Rank(K, i) = r
    BY <1>2, RankMet
  <2> QED BY <2>1 DEF Nth
<1>3. Nth(K, k) \in K /\ Rank(K, Nth(K, k)) = k
  BY <1>2
<1>4. \A i, j \in K : i < j => Rank(K, i) < Rank(K, j)
  BY PositionsBound, RankGrows
<1>5. \A i \in K : i \in Nat /\ 1 <= i /\ Rank(K, i) \in Nat
  BY PositionsBound, RankType
<1>6. \A i \in K : Rank(K, i) >= 1
  BY <1>5, RankEnds, RankGrows
<1>7. k = 1 => Follows(K, Nth(K, k), 0)
  BY <1>3, <1>4, <1>5, <1>6 DEF Follows
<1>8. Bottom(K) \in K /\ Rank(K, Bottom(K)) = c /\ \A j \in K : j <= Bottom(K)
  BY <1>3, BottomLast
<1>9. k = c <=> Nth(K, k) = Bottom(K)
  BY <1>3, <1>4, <1>5, <1>8
<1>10. ASSUME k < c
       PROVE  Follows(K, Nth(K, k + 1), Nth(K, k)) /\ Nth(K, k) < Bottom(K)
  <2>1. Nth(K, k + 1) \in K /\ Rank(K, Nth(K, k + 1)) = k + 1
    BY <1>1, <1>2, <1>10
  <2>2. Nth(K, k) < Nth(K, k + 1)
    <3>1. Nth(K, k) # Nth(K, k + 1)
      BY <1>3, <2>1
    <3> QED BY <1>3, <1>4, <1>5, <2>1, <3>1
  <2>3. ASSUME NEW j \in K
        PROVE  ~(Nth(K, k) < j /\ j < Nth(K, k + 1))
    <3>1. Rank(K, j) \in Nat
      BY <1>5
    <3>2. Nth(K, k) < j => k < Rank(K, j)
      BY <1>3, <1>4
    <3>3. j < Nth(K, k + 1) => Rank(K, j) < k + 1
      BY <2>1, <1>4
    <3> QED BY <3>1, <3>2, <3>3
  <2>4. Nth(K, k) < Bottom(K)
    BY <1>3, <1>5, <1>8, <1>9, <1>10
  <2> QED BY <2>1, <2>2, <2>3, <2>4 DEF Follows
<1> QED
  BY <1>3, <1>7, <1>9, <1>10

\* A position has the number of its rank.
LEMMA NthOfRank ==
    ASSUME NEW n \in Nat, NEW K \in Positions(n), NEW i \in K
    PROVE  /\ Rank(K, i) \in 1..Cardinality(K)
           /\ Nth(K, Rank(K, i)) = i
           /\ \A k \in 1..Cardinality(K) : Nth(K, k) = i => k = Rank(K, i)
<1> DEFINE r == Rank(K, i)
           c == Cardinality(K)
<1>1. \A j \in K : j \in Nat /\ 1 <= j
  BY PositionsBound
<1>2. c \in Nat /\ r \in Nat
  BY RankType
<1>3. r >= 1
  BY <1>1, <1>2, RankEnds, RankGrows
<1>4. r <= c
  <2>1. UpTo(K, i) \subseteq K
    BY DEF UpTo
  <2> QED BY <2>1, RankType, FS_Subset DEF Rank
<1>5. Nth(K, r) \in K /\ Rank(K, Nth(K, r)) = r
  BY <1>2, <1>3, <1>4, NthKept
<1>6. PICK m \in K : Rank(K, m) = r /\ \A j \in K : Rank(K, j) = r => j = m
  BY <1>2, <1>3, <1>4, RankMet
<1>7. Nth(K, r) = i
  BY <1>5, <1>6
<1>8. \A k \in 1..c : Rank(K, Nth(K, k)) = k
  BY <1>2, NthKept
<1> QED
  BY <1>2, <1>3, <1>4, <1>7, <1>8

\* The last variable alone, before anything is packed.
LEMMA PackedLast ==
    ASSUME NEW n \in Nat, NEW K \in Positions(n), K # {}, NEW o,
           NEW h \in Nat, h + 1 = Bottom(K)
    PROVE  Packed(K, o, o[Bottom(K)], h)
<1>1. Bottom(K) \in K /\ \A j \in K : j \in Nat /\ j <= Bottom(K)
  BY BottomLast, PositionsBound
<1> DEFINE f == [i \in K |-> o[Bottom(K)]]
<1>2. \A i, j \in K : ~(h < i /\ Follows(K, j, i))
  BY <1>1 DEF Follows
<1>3. f[Bottom(K)] = o[Bottom(K)]
  BY <1>1
<1>4. \A i \in K : o[Bottom(K)] = f[i]
  OBVIOUS
<1> HIDE DEF f
<1> QED
  BY <1>2, <1>3, <1>4 DEF Packed

\* Going up over a position that is not captured.
LEMMA PackedSkip ==
    ASSUME NEW n \in Nat, NEW K \in Positions(n), NEW o,
           NEW v, NEW h \in Nat, h >= 1, h \notin K, Packed(K, o, v, h)
    PROVE  Packed(K, o, v, h - 1)
<1>1. PICK f : /\ \A i, j \in K : h < i /\ Follows(K, j, i) => f[i] = Pair(o[i], f[j])
               /\ f[Bottom(K)] = o[Bottom(K)]
               /\ \A i \in K : Follows(K, i, h) => v = f[i]
  BY DEF Packed
<1>2. \A i \in K : h - 1 < i => h < i
  BY PositionsBound
<1>3. \A i \in K : Follows(K, i, h - 1) => Follows(K, i, h)
  <2>1. \A j \in K : h < j => h - 1 < j
    BY PositionsBound
  <2> QED BY <1>2, <2>1 DEF Follows
<1> QED
  BY <1>1, <1>2, <1>3 DEF Packed

\* Going up over a captured position.
LEMMA PackedMore ==
    ASSUME NEW n \in Nat, NEW K \in Positions(n), NEW o,
           NEW v, NEW h \in K, h < Bottom(K), Packed(K, o, v, h)
    PROVE  Packed(K, o, Pair(o[h], v), h - 1)
<1>1. PICK f : /\ \A i, j \in K : h < i /\ Follows(K, j, i) => f[i] = Pair(o[i], f[j])
               /\ f[Bottom(K)] = o[Bottom(K)]
               /\ \A i \in K : Follows(K, i, h) => v = f[i]
  BY DEF Packed
<1>2. \A i \in K : i \in Nat /\ 1 <= i
  BY PositionsBound
<1>3. Bottom(K) \in K
  BY BottomLast
<1> DEFINE p == Pair(o[h], v)
           g == [i \in K |-> IF i = h THEN p ELSE f[i]]
<1>4. \A i \in K : i # h => g[i] = f[i]
  OBVIOUS
<1>5. g[h] = p
  OBVIOUS
<1> HIDE DEF g
<1>6. g[Bottom(K)] = o[Bottom(K)]
  BY <1>1, <1>2, <1>3, <1>4
<1>7. ASSUME NEW i \in K, NEW j \in K, h - 1 < i, Follows(K, j, i)
      PROVE  g[i] = Pair(o[i], g[j])
  <2>1. i < j /\ h <= i
    BY <1>2, <1>7 DEF Follows
  <2>2. g[j] = f[j]
    BY <1>2, <1>4, <2>1
  <2>3. CASE i = h
    BY <1>1, <1>5, <1>7, <2>2, <2>3
  <2>4. CASE i # h
    BY <1>1, <1>2, <1>4, <1>7, <2>1, <2>2, <2>4
  <2> QED BY <2>3, <2>4
<1>8. ASSUME NEW i \in K, Follows(K, i, h - 1)
      PROVE  p = g[i]
  BY <1>2, <1>5, <1>8 DEF Follows
<1> QED
  BY <1>6, <1>7, <1>8 DEF Packed

\* UNPAIR splits off the next captured variable.
LEMMA PackedSplit ==
    ASSUME NEW n \in Nat, NEW K \in Positions(n), NEW o,
           NEW v, NEW h \in Nat, NEW i \in K, NEW j \in K,
           Follows(K, i, h), Follows(K, j, i), Packed(K, o, v, h)
    PROVE  v.fst = o[i] /\ Packed(K, o, v.snd, i)
<1>1. PICK f : /\ \A a, b \in K : h < a /\ Follows(K, b, a) => f[a] = Pair(o[a], f[b])
               /\ f[Bottom(K)] = o[Bottom(K)]
               /\ \A a \in K : Follows(K, a, h) => v = f[a]
  BY DEF Packed
<1>2. h < i /\ i \in Nat /\ \A a \in K : a \in Nat
  BY PositionsBound DEF Follows
<1>3. v = Pair(o[i], f[j])
  BY <1>1, <1>2
<1>4. v.fst = o[i] /\ v.snd = f[j]
  BY <1>3 DEF Pair
<1>5. \A a \in K : Follows(K, a, i) => a = j
  BY <1>2 DEF Follows
<1>6. \A a \in K : i < a => h < a
  BY <1>2
<1> QED
  BY <1>1, <1>4, <1>5, <1>6 DEF Packed

\* At the last one, the variable itself is left.
LEMMA PackedEnd ==
    ASSUME NEW K, NEW o, NEW v, NEW h, Bottom(K) \in K, Follows(K, Bottom(K), h),
           Packed(K, o, v, h)
    PROVE  v = o[Bottom(K)]
  BY DEF Packed

-----------------------------------------------------------------------------
(* The invariant.  It says for every step of the code what each place of   *)
(* the stack holds, o being the values of the variables.                   *)

\* Below m values of s every variable is found, as it was or assigned since.
VarsBelow(o, s, m) == \A i \in 1..Len(o) : s[i + m] \in {o[i], Written}

\* The value of the lambda, and what its code is applied to.
IsLambda(K, o, v) == IF K = {} THEN v = Quote ELSE v.fst = Quote /\ Packed(K, o, v.snd, 0)
IsArgument(K, o, v) ==
    IF K = {} THEN v = Argument ELSE v.fst = Argument /\ Packed(K, o, v.snd, 0)

\* What the body should find at each place, and the position behind which the
\* rest is still packed when h values have been split off.
BodyVal(K, o, k) == IF k = 1 THEN Argument ELSE o[Nth(K, k - 1)]
Before(K, h) == IF h = 1 THEN 0 ELSE Nth(K, h - 1)

\* The variables on s, below as many values as above says, are those not set
\* aside on d.
Walked(o, s, d, above) ==
    /\ Len(s) + Len(d) = Len(o) + above
    /\ \A i \in 1..Len(d) : d[i] = o[i]
    /\ \A i \in 1..(Len(s) - above) : s[i + above] = o[i + Len(d)]

\* A free variable that is not shadowed is captured once it has been passed.
Wanted(i) == uses[env[i]] > 0 /\ ~Shadowed(env[i])
SelectInv ==
    /\ Len(env) <= MaxEnv /\ scan <= Len(env)
    /\ \A s \in Name : uses[s] > 0 => \E i \in DOMAIN env : env[i] = s
    /\ \A i \in 1..Len(env) : Wanted(i) =>
         IF pc = "select" /\ i <= scan THEN selector[env[i]] = uses[env[i]] ELSE i \in keep

ShapeInv ==
    /\ original = [i \in 1..Len(env) |-> Atom("var", i)]
    /\ IsSeq(stack) /\ IsSeq(held) /\ IsSeq(caller)
    /\ pc \notin {"pack_down", "pack_up", "unpack_down", "unpack_up"} => held = << >>
    /\ pc \in {"pack_down", "pack_up", "argument", "closure", "append", "swap", "load",
               "unpack_down", "unpack_up"} => keep # {}

PackInv ==
    /\ pc \in {"select", "check"} => Walked(original, stack, held, 0)
    /\ pc = "close" /\ keep = {} => Walked(original, stack, held, 0)
    /\ pc = "pack_down" => Walked(original, stack, held, 0) /\ Len(held) < Bottom(keep)
    /\ pc = "pack_up" \/ (pc = "close" /\ keep # {}) =>
         /\ Walked(original, stack, held, 1) /\ Len(held) < Bottom(keep)
         /\ Packed(keep, original, stack[1], Len(held))

ApplyInv ==
    /\ pc = "made" =>
         /\ Len(stack) = Len(original) + 1 /\ VarsBelow(original, stack, 1)
         /\ IsLambda(keep, original, stack[1])
    /\ pc = "argument" =>
         /\ Len(stack) = Len(original) + 2 /\ VarsBelow(original, stack, 2)
         /\ stack[1] = Argument /\ IsLambda(keep, original, stack[2])
    /\ pc = "closure" =>
         /\ Len(stack) = Len(original) + 3 /\ VarsBelow(original, stack, 3)
         /\ IsLambda(keep, original, stack[1]) /\ stack[2] = Argument
    /\ pc = "append" =>
         /\ Len(stack) = Len(original) + 4 /\ VarsBelow(original, stack, 4)
         /\ Packed(keep, original, stack[2], 0) /\ stack[3] = Argument
    /\ pc = "swap" =>
         /\ Len(stack) = Len(original) + 3 /\ VarsBelow(original, stack, 3)
         /\ IsArgument(keep, original, stack[2])
    /\ pc = "exec" =>
         /\ Len(stack) = Len(original) + 3 /\ VarsBelow(original, stack, 3)
         /\ IsArgument(keep, original, stack[1])

BodyInv ==
    /\ pc \in {"load", "unpack_down", "unpack_up", "body", "return"} =>
         Len(caller) = Len(original) + 1 /\ VarsBelow(original, caller, 1)
    /\ pc = "load" => Len(stack) = 1 /\ IsArgument(keep, original, stack[1])
    /\ pc = "unpack_down" =>
         /\ Len(stack) = 1 /\ Len(held) <= Cardinality(keep)
         /\ \A k \in 1..Len(held) : held[k] = BodyVal(keep, original, k)
         /\ IF held = << >> THEN IsArgument(keep, original, stack[1])
            ELSE Packed(keep, original, stack[1], Before(keep, Len(held)))
    /\ pc \in {"unpack_up", "body"} =>
         /\ Len(held) + Len(stack) = Cardinality(keep) + 1
         /\ \A k \in 1..Len(held) : held[k] = BodyVal(keep, original, k)
         /\ \A k \in 1..Len(stack) : stack[k] = BodyVal(keep, original, k + Len(held))
    /\ pc = "return" => Len(stack) = 1 /\ stack[1] = Result
    /\ pc = "done" =>
         /\ Len(stack) = Len(original) + 2 /\ VarsBelow(original, stack, 2)
         /\ stack[1] = Result

StackInv == ShapeInv /\ PackInv /\ ApplyInv /\ BodyInv
IInv == TypeOK /\ SelectInv /\ StackInv

-----------------------------------------------------------------------------
(* Going down the stack and up again.                                      *)

\* DIP sets the next variable aside.
LEMMA WalkDown ==
    ASSUME NEW o, NEW s, NEW d, IsSeq(s), IsSeq(d), Len(o) \in Nat,
           Walked(o, s, d, 0), Len(d) < Len(o)
    PROVE  /\ Walked(o, Tail(s), Append(d, Head(s)), 0)
           /\ IsSeq(Tail(s)) /\ IsSeq(Append(d, Head(s)))
           /\ Len(Append(d, Head(s))) = Len(d) + 1
<1>1. /\ Len(s) \in Nat /\ Len(d) \in Nat /\ Len(s) + Len(d) = Len(o)
      /\ \A i \in 1..Len(d) : d[i] = o[i]
      /\ \A i \in 1..Len(s) : s[i] = o[i + Len(d)]
  BY Pushed DEF Walked
<1>2. PICK t, e : t = Tail(s) /\ e = Append(d, Head(s))
  OBVIOUS
<1>3. /\ IsSeq(t) /\ Len(t) = Len(s) - 1 /\ Head(s) = s[1]
      /\ \A i \in 1..(Len(s) - 1) : t[i] = s[i + 1]
  BY <1>1, <1>2, Popped
<1>4. /\ IsSeq(e) /\ Len(e) = Len(d) + 1 /\ e[Len(d) + 1] = Head(s)
      /\ \A i \in 1..Len(d) : e[i] = d[i]
  BY <1>2, SetAside
<1>5. Walked(o, t, e, 0)
  <2>1. Len(t) + Len(e) = Len(o)
    BY <1>1, <1>3, <1>4
  <2>2. \A i \in 1..Len(e) : e[i] = o[i]
    <3>1. \A i \in 1..Len(e) : i \in 1..Len(d) \/ i = Len(d) + 1
      BY <1>1, <1>4
    <3>2. s[1] = o[1 + Len(d)]
      BY <1>1
    <3> QED BY <1>1, <1>3, <1>4, <3>1, <3>2
  <2>3. \A i \in 1..Len(t) : t[i] = o[i + Len(e)]
    <3>1. ASSUME NEW i \in 1..Len(t)
          PROVE  t[i] = o[i + Len(e)]
      <4>1. i \in 1..(Len(s) - 1) /\ i + 1 \in 1..Len(s)
        BY <1>1, <1>3
      <4>2. (i + 1) + Len(d) = i + Len(e)
        BY <1>1, <1>4
      <4> QED BY <1>1, <1>3, <4>1, <4>2
    <3> QED BY <3>1
  <2>4. Len(t) \in Nat
    BY <1>1, <1>3
  <2>5. \A i \in 1..(Len(t) - 0) : t[i + 0] = o[i + Len(e)]
    BY <2>3, <2>4
  <2> QED BY <2>1, <2>2, <2>5, <1>1 DEF Walked
<1> QED
  BY <1>2, <1>3, <1>4, <1>5

\* DUP copies the variable that has been reached.
LEMMA WalkCopy ==
    ASSUME NEW o, NEW s, NEW d, IsSeq(s), IsSeq(d), Len(o) \in Nat,
           Walked(o, s, d, 0), Len(d) < Len(o)
    PROVE  /\ Walked(o, <<Head(s)>> \o s, d, 1)
           /\ IsSeq(<<Head(s)>> \o s)
           /\ (<<Head(s)>> \o s)[1] = o[Len(d) + 1]
<1>1. /\ Len(s) \in Nat /\ Len(d) \in Nat /\ Len(s) + Len(d) = Len(o)
      /\ \A i \in 1..Len(d) : d[i] = o[i]
      /\ \A i \in 1..Len(s) : s[i] = o[i + Len(d)]
  BY Pushed DEF Walked
<1>2. Head(s) = s[1] /\ s[1] = o[Len(d) + 1]
  BY <1>1, Popped
<1>3. PICK x, t : x = Head(s) /\ t = <<x>> \o s
  OBVIOUS
<1>4. /\ IsSeq(t) /\ Len(t) = Len(s) + 1 /\ t[1] = x
      /\ \A i \in 1..Len(s) : t[i + 1] = s[i]
  BY <1>3, Pushed
<1>5. Walked(o, t, d, 1)
  <2>1. Len(t) + Len(d) = Len(o) + 1
    BY <1>1, <1>4
  <2>2. \A i \in 1..(Len(t) - 1) : t[i + 1] = o[i + Len(d)]
    BY <1>1, <1>4
  <2> QED BY <1>1, <2>1, <2>2 DEF Walked
<1> QED
  BY <1>2, <1>3, <1>4, <1>5

\* Leaving a DIP puts the variable back, under the value that goes up.
LEMMA WalkUp ==
    ASSUME NEW o, NEW s, NEW d, NEW v, IsSeq(s), IsSeq(d), Len(o) \in Nat,
           Walked(o, s, d, 1), d # << >>, Len(d) < Len(o)
    PROVE  /\ Walked(o, <<v, d[Len(d)]>> \o Tail(s), SubSeq(d, 1, Len(d) - 1), 1)
           /\ IsSeq(<<v, d[Len(d)]>> \o Tail(s)) /\ IsSeq(SubSeq(d, 1, Len(d) - 1))
           /\ (<<v, d[Len(d)]>> \o Tail(s))[1] = v
           /\ Len(SubSeq(d, 1, Len(d) - 1)) = Len(d) - 1
           /\ d[Len(d)] = o[Len(d)] /\ Head(s) = s[1]
<1>1. /\ Len(s) \in Nat /\ Len(d) \in Nat \ {0} /\ Len(s) + Len(d) = Len(o) + 1
      /\ \A i \in 1..Len(d) : d[i] = o[i]
      /\ \A i \in 1..(Len(s) - 1) : s[i + 1] = o[i + Len(d)]
  BY Pushed, TakenBack DEF Walked
<1>2. PICK x, t, e : /\ x = d[Len(d)] /\ t = <<v, x>> \o Tail(s)
                     /\ e = SubSeq(d, 1, Len(d) - 1)
  OBVIOUS
<1>3. Len(s) >= 1 /\ Head(s) = s[1]
  BY <1>1, Popped
<1>4. /\ IsSeq(t) /\ Len(t) = Len(s) + 1 /\ t[1] = v /\ t[2] = x
      /\ \A i \in 1..(Len(s) - 1) : t[i + 2] = s[i + 1]
  BY <1>2, <1>3, ReplacedByTwo
<1>5. /\ IsSeq(e) /\ Len(e) = Len(d) - 1
      /\ \A i \in 1..(Len(d) - 1) : e[i] = d[i]
  BY <1>2, TakenBack
<1>6. Walked(o, t, e, 1)
  <2>1. Len(t) + Len(e) = Len(o) + 1
    <3> DEFINE a == Len(s)
               b == Len(d)
               c == Len(o)
    <3>1. a \in Int /\ b \in Int /\ c \in Int /\ a + b = c + 1
      BY <1>1
    <3>2. Len(t) = a + 1 /\ Len(e) = b - 1
      BY <1>4, <1>5
    <3> HIDE DEF a, b, c
    <3>3. (a + 1) + (b - 1) = c + 1
      BY <3>1
    <3> QED BY <3>2, <3>3 DEF c
  <2>2. \A i \in 1..Len(e) : e[i] = o[i]
    BY <1>1, <1>5
  <2>3. ASSUME NEW i \in 1..(Len(t) - 1)
        PROVE  t[i + 1] = o[i + Len(e)]
    <3>1. CASE i = 1
      <4>1. i + 1 = 2 /\ i + Len(e) = Len(d) /\ Len(d) \in 1..Len(d)
        BY <1>1, <1>5, <3>1
      <4> QED BY <1>1, <1>2, <1>4, <4>1
    <3>2. CASE i # 1
      <4> DEFINE j == i - 1
      <4>1. j \in 1..(Len(s) - 1) /\ j + 2 = i + 1 /\ j + Len(d) = i + Len(e)
        BY <1>1, <1>4, <1>5, <3>2
      <4> HIDE DEF j
      <4>2. t[j + 2] = s[j + 1] /\ s[j + 1] = o[j + Len(d)]
        BY <1>1, <1>4, <4>1
      <4> QED BY <4>1, <4>2
    <3> QED BY <3>1, <3>2
  <2> QED BY <2>1, <2>2, <2>3 DEF Walked
<1> QED
  BY <1>1, <1>2, <1>3, <1>4, <1>5, <1>6

-----------------------------------------------------------------------------
\* What the lemmas about positions and sequences ask for.
LEMMA Scope ==
    ASSUME TypeOK, ShapeInv
    PROVE  /\ Len(env) \in Nat /\ keep \in Positions(Len(env))
           /\ IsSeq(original) /\ Len(original) = Len(env)
           /\ \A i \in 1..Len(env) : original[i] = Atom("var", i)
           /\ Len(stack) \in Nat /\ Len(held) \in Nat /\ Len(caller) \in Nat
           /\ Deepest = Bottom(keep)
           /\ keep # {} => /\ Bottom(keep) \in keep /\ Bottom(keep) \in Nat
                           /\ 1 <= Bottom(keep) /\ Bottom(keep) <= Len(env)
<1>1. Len(env) \in Nat /\ keep \in Positions(Len(env))
  BY DEF TypeOK, Positions
<1> DEFINE n == Len(env)
<1>2. original = [i \in 1..n |-> Atom("var", i)]
  BY DEF ShapeInv
<1>3. n \in Nat
  BY <1>1
<1> HIDE DEF n
<1>4. original \in Seq({original[i] : i \in 1..n}) /\ Len(original) = n
  BY <1>2, <1>3
<1>5. \A i \in 1..n : original[i] = Atom("var", i)
  BY <1>2
<1>6. \A x : IsSeq(x) => Len(x) \in Nat
  BY DEF IsSeq
<1>7. Deepest = Bottom(keep)
  BY DEF Deepest, Bottom
<1>8. keep # {} => /\ Bottom(keep) \in keep /\ Bottom(keep) \in Nat
                   /\ 1 <= Bottom(keep) /\ Bottom(keep) <= Len(env)
  BY <1>1, BottomLast, PositionsBound
<1> QED
  BY <1>1, <1>4, <1>5, <1>6, <1>7, <1>8 DEF ShapeInv, IsSeq, n

\* Once the variables are selected, the scope stays as it is.
LEMMA ScopeKept ==
    ASSUME TypeOK, SelectInv, pc # "select",
           UNCHANGED compileVars, pc' \in PCs, pc' # "select"
    PROVE  TypeOK' /\ SelectInv'
  BY DEF TypeOK, SelectInv, compileVars, Wanted, Shadowed

\* Selection scans the environment and leaves the stack alone.
LEMMA CompileStep ==
    ASSUME IInv, Compile
    PROVE  IInv'
<1> USE DEF IInv, StackInv
<1>0. /\ Len(env) \in Nat
      /\ scan > 0 /\ scan <= Len(env) => scan \in 1..Len(env) /\ env[scan] \in Name
  BY DEF TypeOK, SelectInv
<1>1. ASSUME pc = "select", pc' \in {"select", "check"}, scan' \in 0..MaxEnv,
             UNCHANGED <<env, uses, stack, held, caller, original>>
      PROVE  StackInv'
  BY <1>1 DEF ShapeInv, PackInv, ApplyInv, BodyInv
<1>2. CASE MatchName
  <2>1. scan \in 1..Len(env) /\ env[scan] \in Name
    BY <1>0, <1>2 DEF MatchName, SelectInv
  <2>2. TypeOK'
    <3>1. selector[env[scan]] \in 0..MaxUses /\ selector[env[scan]] - 1 \in 0..MaxUses
      BY <1>2, <2>1, BoundsAssumption DEF MatchName, TypeOK
    <3>2. selector' \in [Name -> 0..MaxUses]
      BY <1>2, <2>1, <3>1 DEF MatchName, TypeOK
    <3>3. scan' \in 0..MaxEnv
      BY <1>2, BoundsAssumption DEF MatchName, TypeOK
    <3>4. keep' \subseteq DOMAIN env'
      BY <1>2, <2>1 DEF MatchName, TypeOK
    <3> QED BY <1>2, <3>2, <3>3, <3>4 DEF MatchName, TypeOK
  <2>3. SelectInv'
    <3>1. Len(env') <= MaxEnv /\ scan' <= Len(env')
      BY <1>0, <1>2, <2>1 DEF MatchName, SelectInv
    <3>2. ASSUME NEW i \in 1..Len(env), Wanted(i)
          PROVE  IF i <= scan - 1 THEN selector'[env[i]] = uses[env[i]] ELSE i \in keep'
      <4>1. i < scan => env[i] # env[scan]
        BY <2>1, <3>2 DEF Wanted, Shadowed, TypeOK
      <4>2. env[i] \in Name
        BY DEF TypeOK
      <4> QED BY <1>0, <1>2, <2>1, <3>2, <4>1, <4>2 DEF MatchName, SelectInv, TypeOK
    <3> QED
      BY <1>2, <3>1, <3>2 DEF MatchName, SelectInv, Wanted, Shadowed
  <2> QED BY <1>1, <1>2, <2>1, <2>2, <2>3 DEF MatchName, TypeOK
<1>3. CASE SkipName
  <2>1. scan \in 1..Len(env) /\ env[scan] \in Name
    BY <1>0, <1>3 DEF SkipName, SelectInv
  <2>2. TypeOK'
    <3>1. scan' \in 0..MaxEnv
      BY <1>3, BoundsAssumption DEF SkipName, TypeOK
    <3> QED BY <1>3, <3>1 DEF SkipName, TypeOK
  <2>3. SelectInv'
    <3>1. Len(env') <= MaxEnv /\ scan' <= Len(env')
      BY <1>0, <1>3, <2>1 DEF SkipName, SelectInv
    <3>2. ASSUME NEW i \in 1..Len(env), Wanted(i)
          PROVE  IF i <= scan - 1 THEN selector[env[i]] = uses[env[i]] ELSE i \in keep
      <4>1. i # scan
        BY <1>3, <2>1, <3>2 DEF SkipName, Wanted, SelectInv, TypeOK
      <4> QED BY <1>0, <1>3, <2>1, <3>2, <4>1 DEF SkipName, SelectInv
    <3> QED
      BY <1>3, <3>1, <3>2 DEF SkipName, SelectInv, Wanted, Shadowed
  <2> QED BY <1>1, <1>3, <2>1, <2>2, <2>3 DEF SkipName, TypeOK
<1>4. CASE SelectEnd
  <2>1. TypeOK'
    BY <1>4 DEF SelectEnd, TypeOK, PCs, compileVars
  <2>2. SelectInv'
    BY <1>4 DEF SelectEnd, SelectInv, compileVars, Wanted, Shadowed
  <2> QED BY <1>1, <1>4, <2>1, <2>2 DEF SelectEnd, TypeOK, compileVars
<1>5. CASE Accept
  <2>1. TypeOK' /\ SelectInv'
    BY <1>5, ScopeKept DEF Accept, PCs
  <2>2. keep # {} => Len(held) = 0 /\ 0 < Bottom(keep)
    BY <1>5, Scope DEF Accept, ShapeInv
  <2>3. StackInv'
    BY <1>5, <2>2 DEF Accept, ShapeInv, PackInv, ApplyInv, BodyInv, compileVars
  <2> QED BY <2>1, <2>3
<1>6. CASE Reject
  <2>1. TypeOK' /\ SelectInv'
    BY <1>6, ScopeKept DEF Reject, PCs
  <2>2. StackInv'
    BY <1>6 DEF Reject, ShapeInv, PackInv, ApplyInv, BodyInv, compileVars
  <2> QED BY <2>1, <2>2
<1> QED
  BY <1>2, <1>3, <1>4, <1>5, <1>6 DEF Compile

\* The environment of the body: the binder, then the captured variables in
\* the order of their positions.
LEMMA BodyNames ==
    ASSUME TypeOK, ShapeInv
    PROVE  /\ IsSeq(BodyEnv) /\ Cardinality(keep) \in Nat
           /\ Len(BodyEnv) = Cardinality(keep) + 1
           /\ BodyEnv[1] = Binder
           /\ \A k \in 1..Cardinality(keep) : BodyEnv[k + 1] = env[Nth(keep, k)]
<1> DEFINE c == Cardinality(keep)
           named == [k \in 1..c |-> env[Nth(keep, k)]]
<1>1. c \in Nat
  BY Scope, RankType
<1>2. CapturedEnv = named
  BY DEF CapturedEnv, Nth, Rank, UpTo
<1>3. named \in Seq({named[k] : k \in 1..c}) /\ Len(named) = c
  BY <1>1
<1>4. \A k \in 1..c : named[k] = env[Nth(keep, k)]
  OBVIOUS
<1> HIDE DEF named
<1>5. IsSeq(named)
  BY <1>3 DEF IsSeq
<1>6. BodyEnv = <<Binder>> \o named
  BY <1>2 DEF BodyEnv
<1> HIDE DEF c
<1>7. /\ IsSeq(<<Binder>> \o named) /\ Len(<<Binder>> \o named) = Len(named) + 1
      /\ (<<Binder>> \o named)[1] = Binder
      /\ \A k \in 1..Len(named) : (<<Binder>> \o named)[k + 1] = named[k]
  <2>1. PICK t : t = named
    OBVIOUS
  <2>2. /\ IsSeq(<<Binder>> \o t) /\ Len(<<Binder>> \o t) = Len(t) + 1
        /\ (<<Binder>> \o t)[1] = Binder
        /\ \A k \in 1..Len(t) : (<<Binder>> \o t)[k + 1] = t[k]
    BY <1>5, <2>1, Pushed
  <2> QED BY <2>1, <2>2
<1>8. /\ IsSeq(BodyEnv) /\ Len(BodyEnv) = c + 1 /\ BodyEnv[1] = Binder
      /\ \A k \in 1..c : BodyEnv[k + 1] = named[k]
  BY <1>3, <1>6, <1>7, Zenon
<1> QED
  BY <1>1, <1>4, <1>8 DEF c

\* Every run starts with the names in scope and their values.
LEMMA InitIInv ==
    ASSUME Init
    PROVE  IInv
<1>1. PICK n \in 0..MaxEnv : env \in [1..n -> Name]
  BY DEF Init
<1>2. n \in Nat /\ n <= MaxEnv /\ env \in Seq(Name) /\ Len(env) = n
  BY <1>1, BoundsAssumption
<1>3. TypeOK
  BY <1>2, BoundsAssumption DEF Init, TypeOK, PCs
<1>4. SelectInv
  BY <1>2 DEF Init, SelectInv
<1> DEFINE atoms == [i \in 1..n |-> Atom("var", i)]
<1>5. atoms \in Seq({atoms[i] : i \in 1..n}) /\ Len(atoms) = n
  BY <1>2
<1>6. stack = atoms /\ original = atoms
  BY <1>2 DEF Init
<1> HIDE DEF atoms
<1>7. ShapeInv
  <2>1. IsSeq(atoms)
    BY <1>5 DEF IsSeq
  <2>2. IsSeq(<< >>)
    BY DEF IsSeq
  <2>3. original = [i \in 1..Len(env) |-> Atom("var", i)]
    BY DEF Init
  <2> QED BY <1>6, <2>1, <2>2, <2>3 DEF Init, ShapeInv
<1>8. PackInv
  <2>1. Walked(atoms, atoms, << >>, 0)
    BY <1>2, <1>5 DEF Walked
  <2> QED BY <1>6, <2>1 DEF Init, PackInv
<1>9. ApplyInv /\ BodyInv
  BY DEF Init, ApplyInv, BodyInv
<1> QED
  BY <1>3, <1>4, <1>7, <1>8, <1>9 DEF IInv, StackInv

\* Packing goes down to the deepest captured variable and carries its copy,
\* then the pair, up over the others.
LEMMA CreateStep ==
    ASSUME IInv, Create
    PROVE  IInv'
<1> USE DEF IInv, StackInv
<1>0. /\ Len(env) \in Nat /\ keep \in Positions(Len(env)) /\ Len(original) = Len(env)
      /\ IsSeq(stack) /\ IsSeq(held) /\ IsSeq(caller)
      /\ Len(stack) \in Nat /\ Len(held) \in Nat
      /\ Deepest = Bottom(keep)
      /\ keep # {} => /\ Bottom(keep) \in keep /\ Bottom(keep) \in Nat
                      /\ 1 <= Bottom(keep) /\ Bottom(keep) <= Len(env)
  BY Scope DEF ShapeInv
<1>1. ASSUME PackDip \/ PackDup \/ PackSwap \/ PackPair \/ PackEnd \/ MakeQuote \/ MakeClosure
      PROVE  TypeOK' /\ SelectInv'
  <2>1. /\ UNCHANGED compileVars
        /\ pc \in {"pack_down", "pack_up", "close"}
        /\ pc' \in {"pack_down", "pack_up", "close", "made"}
    BY <1>1 DEF PackDip, PackDup, PackSwap, PackPair, PackEnd, MakeQuote, MakeClosure
  <2> QED BY <2>1, ScopeKept DEF PCs
<1>2. CASE PackDip
  <2>1. /\ Walked(original, stack, held, 0) /\ Len(held) + 1 < Bottom(keep) /\ keep # {}
    BY <1>0, <1>2 DEF PackDip, PackInv, ShapeInv
  <2>2. Len(held) < Len(original)
    BY <1>0, <2>1
  <2>3. /\ Walked(original, stack', held', 0) /\ IsSeq(stack') /\ IsSeq(held')
        /\ Len(held') = Len(held) + 1
    BY <1>0, <1>2, <2>1, <2>2, WalkDown DEF PackDip
  <2>4. Len(held') < Bottom(keep)
    BY <2>1, <2>3
  <2>5. ShapeInv'
    BY <1>2, <2>1, <2>3 DEF PackDip, ShapeInv, compileVars
  <2>6. PackInv'
    BY <1>2, <2>3, <2>4 DEF PackDip, PackInv, compileVars
  <2>7. ApplyInv' /\ BodyInv'
    BY <1>2 DEF PackDip, ApplyInv, BodyInv
  <2> QED BY <1>1, <1>2, <2>5, <2>6, <2>7
<1>3. CASE PackDup
  <2>1. /\ Walked(original, stack, held, 0) /\ Len(held) + 1 = Bottom(keep) /\ keep # {}
    BY <1>0, <1>3 DEF PackDup, PackInv, ShapeInv
  <2>2. Len(held) < Len(original)
    BY <1>0, <2>1
  <2>3. /\ Walked(original, stack', held, 1) /\ IsSeq(stack')
        /\ stack'[1] = original[Bottom(keep)]
    BY <1>0, <1>3, <2>1, <2>2, WalkCopy DEF PackDup
  <2>4. Len(held) < Bottom(keep)
    BY <1>0, <2>1
  <2>5. Packed(keep, original, stack'[1], Len(held))
    BY <1>0, <2>1, <2>3, PackedLast
  <2>6. ShapeInv'
    BY <1>3, <2>1, <2>3 DEF PackDup, ShapeInv, compileVars
  <2>7. PackInv'
    BY <1>3, <2>3, <2>4, <2>5 DEF PackDup, PackInv, compileVars
  <2>8. ApplyInv' /\ BodyInv'
    BY <1>3 DEF PackDup, ApplyInv, BodyInv
  <2> QED BY <1>1, <1>3, <2>6, <2>7, <2>8
<1>4. ASSUME NEW v, pc = "pack_up", held # << >>,
             stack' = <<v, held[Len(held)]>> \o Tail(stack),
             held' = SubSeq(held, 1, Len(held) - 1),
             UNCHANGED <<compileVars, pc, caller, original>>,
             Walked(original, stack, held, 1) /\ Len(held) < Bottom(keep)
               /\ held[Len(held)] = original[Len(held)] /\ Head(stack) = stack[1]
             => Packed(keep, original, v, Len(held) - 1)
      PROVE  StackInv'
  <2>1. /\ Walked(original, stack, held, 1) /\ Len(held) < Bottom(keep) /\ keep # {}
    BY <1>4 DEF PackInv, ShapeInv
  <2>2. Len(held) < Len(original)
    BY <1>0, <2>1
  <2>3. /\ Walked(original, stack', held', 1) /\ IsSeq(stack') /\ IsSeq(held')
        /\ stack'[1] = v /\ Len(held') = Len(held) - 1
        /\ held[Len(held)] = original[Len(held)] /\ Head(stack) = stack[1]
    <3>1. PICK o, a, d : o = original /\ a = stack /\ d = held
      OBVIOUS
    <3>2. /\ IsSeq(a) /\ IsSeq(d) /\ Len(o) \in Nat /\ Walked(o, a, d, 1)
          /\ d # << >> /\ Len(d) < Len(o)
      BY <1>0, <1>4, <2>1, <2>2, <3>1
    <3>3. /\ Walked(o, <<v, d[Len(d)]>> \o Tail(a), SubSeq(d, 1, Len(d) - 1), 1)
          /\ IsSeq(<<v, d[Len(d)]>> \o Tail(a)) /\ IsSeq(SubSeq(d, 1, Len(d) - 1))
          /\ (<<v, d[Len(d)]>> \o Tail(a))[1] = v
          /\ Len(SubSeq(d, 1, Len(d) - 1)) = Len(d) - 1
          /\ d[Len(d)] = o[Len(d)] /\ Head(a) = a[1]
      BY <3>2, WalkUp
    <3> QED BY <1>4, <3>1, <3>3
  <2>4. Len(held') < Bottom(keep)
    BY <1>0, <2>1, <2>3
  <2>5. Packed(keep, original, stack'[1], Len(held'))
    BY <1>4, <2>1, <2>3
  <2>6. ShapeInv'
    BY <1>4, <2>1, <2>3 DEF ShapeInv, compileVars
  <2>7. PackInv'
    BY <1>4, <2>3, <2>4, <2>5 DEF PackInv, compileVars
  <2>8. ApplyInv' /\ BodyInv'
    BY <1>4 DEF ApplyInv, BodyInv
  <2> QED BY <2>6, <2>7, <2>8
<1>5. CASE PackSwap
  <2>1. /\ Packed(keep, original, stack[1], Len(held)) /\ Len(held) \notin keep
        /\ Len(held) >= 1
    BY <1>0, <1>5, TakenBack DEF PackSwap, PackInv
  <2>2. Packed(keep, original, stack[1], Len(held) - 1)
    BY <1>0, <2>1, PackedSkip
  <2>3. StackInv'
    <3>1. PICK v : v = Head(stack)
      OBVIOUS
    <3>2. Head(stack) = stack[1] => Packed(keep, original, v, Len(held) - 1)
      BY <2>2, <3>1
    <3> QED BY <1>4, <1>5, <3>1, <3>2 DEF PackSwap, LeaveDip, Undip
  <2> QED BY <1>1, <1>5, <2>3
<1>6. CASE PackPair
  <2>1. /\ Packed(keep, original, stack[1], Len(held)) /\ Len(held) \in keep
        /\ Len(held) < Bottom(keep)
    BY <1>6 DEF PackPair, PackInv
  <2>2. Packed(keep, original, Pair(original[Len(held)], stack[1]), Len(held) - 1)
    BY <1>0, <2>1, PackedMore
  <2>3. StackInv'
    <3>1. PICK v : v = Pair(held[Len(held)], Head(stack))
      OBVIOUS
    <3>2. held[Len(held)] = original[Len(held)] /\ Head(stack) = stack[1]
            => Packed(keep, original, v, Len(held) - 1)
      BY <2>2, <3>1
    <3> QED BY <1>4, <1>6, <3>1, <3>2 DEF PackPair, LeaveDip, Undip
  <2> QED BY <1>1, <1>6, <2>3
<1>7. CASE PackEnd
  <2>1. ShapeInv'
    BY <1>7 DEF PackEnd, ShapeInv, compileVars
  <2>2. PackInv'
    BY <1>7 DEF PackEnd, PackInv, ShapeInv, compileVars
  <2>3. ApplyInv' /\ BodyInv'
    BY <1>7 DEF PackEnd, ApplyInv, BodyInv
  <2> QED BY <1>1, <1>7, <2>1, <2>2, <2>3
<1>8. CASE MakeQuote
  <2>1. Walked(original, stack, held, 0) /\ held = << >>
    BY <1>8 DEF MakeQuote, PackInv, ShapeInv
  <2>2. /\ Len(stack) = Len(original) /\ \A j \in 1..Len(stack) : stack[j] = original[j]
    BY <1>0, <2>1 DEF Walked
  <2>3. /\ IsSeq(stack') /\ Len(stack') = Len(stack) + 1 /\ stack'[1] = Quote
        /\ \A j \in 1..Len(stack) : stack'[j + 1] = stack[j]
    <3>1. stack' = <<Quote>> \o stack
      BY <1>8 DEF MakeQuote
    <3>2. /\ IsSeq(<<Quote>> \o stack) /\ Len(<<Quote>> \o stack) = Len(stack) + 1
          /\ (<<Quote>> \o stack)[1] = Quote
          /\ \A j \in 1..Len(stack) : (<<Quote>> \o stack)[j + 1] = stack[j]
      BY <1>0, Pushed
    <3> QED BY <3>1, <3>2
  <2>4. VarsBelow(original, stack', 1)
    BY <2>2, <2>3 DEF VarsBelow
  <2>5. ShapeInv'
    BY <1>8, <2>3 DEF MakeQuote, ShapeInv, compileVars
  <2>6. PackInv' /\ BodyInv'
    BY <1>8 DEF MakeQuote, PackInv, BodyInv
  <2>7. ApplyInv'
    BY <1>8, <2>2, <2>3, <2>4 DEF MakeQuote, ApplyInv, IsLambda, compileVars
  <2> QED BY <1>1, <1>8, <2>5, <2>6, <2>7
<1>9. CASE MakeClosure
  <2>1. Walked(original, stack, held, 1) /\ held = << >> /\ Packed(keep, original, stack[1], 0)
    BY <1>9 DEF MakeClosure, PackInv, ShapeInv
  <2>2. /\ Len(stack) = Len(original) + 1 /\ Len(stack) >= 1
        /\ \A j \in 1..Len(original) : stack[j + 1] = original[j]
    BY <1>0, <2>1 DEF Walked
  <2>3. Head(stack) = stack[1]
    BY <1>0, <2>2, Popped
  <2>4. /\ IsSeq(stack') /\ Len(stack') = Len(stack)
        /\ stack'[1] = Pair(Quote, Head(stack))
        /\ \A j \in 1..(Len(stack) - 1) : stack'[j + 1] = stack[j + 1]
    BY <1>0, <1>9, <2>2, Replaced DEF MakeClosure
  <2>5. VarsBelow(original, stack', 1)
    BY <1>0, <2>2, <2>4 DEF VarsBelow
  <2>6. IsLambda(keep, original, stack'[1])
    BY <1>9, <2>1, <2>3, <2>4 DEF MakeClosure, IsLambda, Pair
  <2>7. ShapeInv'
    BY <1>9, <2>4 DEF MakeClosure, ShapeInv, compileVars
  <2>8. PackInv' /\ BodyInv'
    BY <1>9 DEF MakeClosure, PackInv, BodyInv
  <2>9. ApplyInv'
    BY <1>9, <2>2, <2>4, <2>5, <2>6 DEF MakeClosure, ApplyInv, compileVars
  <2> QED BY <1>1, <1>9, <2>7, <2>8, <2>9
<1> QED
  BY <1>2, <1>3, <1>5, <1>6, <1>7, <1>8, <1>9 DEF Create

-----------------------------------------------------------------------------
(* The variables below the values of a call: o their values, s a stack     *)
(* that has m values above them.                                           *)

OnTop(o, s, m) ==
    Len(o) \in Nat /\ IsSeq(s) /\ Len(s) = Len(o) + m /\ VarsBelow(o, s, m)

\* One value on s, and two in the place of the first k.
OneOn(s, x) == <<x>> \o s
TwoOn(s, k, x, y) == <<x, y>> \o SubSeq(s, k + 1, Len(s))

\* Every variable goes down by one.
LEMMA OneMore ==
    ASSUME NEW o, NEW s, NEW m \in Nat, OnTop(o, s, m), NEW x
    PROVE  /\ OnTop(o, OneOn(s, x), m + 1)
           /\ OneOn(s, x)[1] = x
           /\ \A i \in 1..m : OneOn(s, x)[i + 1] = s[i]
<1>1. PICK t : t = OneOn(s, x)
  OBVIOUS
<1>2. /\ IsSeq(t) /\ Len(t) = Len(s) + 1 /\ t[1] = x
      /\ \A i \in 1..Len(s) : t[i + 1] = s[i]
  BY <1>1, Pushed DEF OneOn, OnTop
<1>3. ASSUME NEW i \in 1..Len(o)
      PROVE  t[i + (m + 1)] = s[i + m]
  <2>1. i + m \in 1..Len(s) /\ (i + m) + 1 = i + (m + 1)
    BY DEF OnTop
  <2> QED BY <1>2, <2>1
<1>4. VarsBelow(o, t, m + 1)
  BY <1>3 DEF VarsBelow, OnTop
<1> QED
  BY <1>1, <1>2, <1>4 DEF OnTop

\* Every variable is moved by as many as were replaced.
LEMMA TwoInPlace ==
    ASSUME NEW o, NEW s, NEW m \in Nat, OnTop(o, s, m), NEW k \in 0..m, NEW x, NEW y
    PROVE  /\ OnTop(o, TwoOn(s, k, x, y), m - k + 2)
           /\ TwoOn(s, k, x, y)[1] = x /\ TwoOn(s, k, x, y)[2] = y
           /\ \A i \in 1..(m - k) : TwoOn(s, k, x, y)[i + 2] = s[i + k]
<1>1. PICK t, r : t = TwoOn(s, k, x, y) /\ r = SubSeq(s, k + 1, Len(s))
  OBVIOUS
<1>2. k \in Nat /\ k <= Len(s) /\ Len(s) \in Nat /\ IsSeq(s)
  BY DEF OnTop
<1>3. /\ IsSeq(r) /\ Len(r) = Len(s) - k
      /\ \A i \in 1..(Len(s) - k) : r[i] = s[i + k]
  BY <1>1, <1>2, Below
<1>4. /\ IsSeq(<<x, y>> \o r) /\ Len(<<x, y>> \o r) = Len(r) + 2
      /\ (<<x, y>> \o r)[1] = x /\ (<<x, y>> \o r)[2] = y
      /\ \A i \in 1..Len(r) : (<<x, y>> \o r)[i + 2] = r[i]
  BY <1>3, PushedTwo
<1>5. t = <<x, y>> \o r
  BY <1>1 DEF TwoOn
<1>6. \A i \in 1..(Len(s) - k) : t[i + 2] = s[i + k]
  BY <1>3, <1>4, <1>5
<1>7. ASSUME NEW i \in 1..Len(o)
      PROVE  t[i + (m - k + 2)] = s[i + m]
  <2>1. /\ i + m - k \in 1..(Len(s) - k)
        /\ (i + m - k) + 2 = i + (m - k + 2) /\ (i + m - k) + k = i + m
    BY <1>2 DEF OnTop
  <2> QED BY <1>6, <2>1
<1>8. VarsBelow(o, t, m - k + 2)
  BY <1>7 DEF VarsBelow, OnTop
<1>9. Len(t) = Len(o) + (m - k + 2)
  BY <1>2, <1>3, <1>4, <1>5 DEF OnTop
<1>10. \A i \in 1..(m - k) : i \in 1..(Len(s) - k)
  BY <1>2 DEF OnTop
<1> QED
  BY <1>1, <1>4, <1>5, <1>6, <1>8, <1>9, <1>10 DEF OnTop

\* An assigned variable holds Written, and the others what they held.
LEMMA AssignOne ==
    ASSUME NEW o, NEW s, OnTop(o, s, 1), NEW i \in 1..Len(o)
    PROVE  /\ OnTop(o, [s EXCEPT ![i + 1] = Written], 1)
           /\ [s EXCEPT ![i + 1] = Written][1] = s[1]
<1>1. PICK t : t = [s EXCEPT ![i + 1] = Written]
  OBVIOUS
<1>2. PICK S : s \in Seq(S)
  BY DEF OnTop, IsSeq
<1>3. i + 1 \in 1..Len(s) /\ Len(s) = Len(o) + 1 /\ Len(o) \in Nat
  BY DEF OnTop
<1>4. PICK w : w = Written
  OBVIOUS
<1>5. s \in Seq(S \union {w}) /\ w \in S \union {w}
  BY <1>2
<1>6. t = [s EXCEPT ![i + 1] = w]
  BY <1>1, <1>4
<1>7. t \in Seq(S \union {w}) /\ Len(t) = Len(s)
  BY <1>3, <1>5, <1>6
<1>8. \A j \in 1..Len(s) : t[j] = IF j = i + 1 THEN w ELSE s[j]
  BY <1>5, <1>6
<1>9. VarsBelow(o, t, 1)
  BY <1>3, <1>4, <1>8 DEF VarsBelow, OnTop
<1>10. t[1] = s[1]
  BY <1>3, <1>8
<1> QED
  BY <1>1, <1>3, <1>7, <1>9, <1>10 DEF OnTop, IsSeq

-----------------------------------------------------------------------------
\* What the steps of a call find where the code has come to.
LEMMA CallScope ==
    ASSUME IInv
    PROVE  /\ Len(original) \in Nat /\ Len(original) = Len(env)
           /\ IsSeq(stack) /\ IsSeq(held) /\ IsSeq(caller)
           /\ Len(stack) \in Nat /\ Len(held) \in Nat /\ Len(caller) \in Nat
           /\ Cardinality(keep) \in Nat /\ (keep = {} <=> Cardinality(keep) = 0)
<1>1. TypeOK /\ ShapeInv
  BY DEF IInv, StackInv
<1>2. keep \in Positions(Len(env)) /\ Len(env) \in Nat
  BY <1>1, Scope
<1>3. IsFiniteSet(keep) /\ Cardinality(keep) \in Nat
  BY <1>2, RankType
<1>4. keep = {} <=> Cardinality(keep) = 0
  BY <1>3, FS_EmptySet
<1> QED
  BY <1>1, <1>3, <1>4, Scope DEF ShapeInv

\* An assignment changes one of the variables, never the lambda above them.
LEMMA AssignStep ==
    ASSUME IInv, NEW i \in 1..Len(env), AssignVariable(i)
    PROVE  IInv'
<1> USE DEF IInv, StackInv
<1>1. TypeOK' /\ SelectInv'
  BY ScopeKept DEF AssignVariable, PCs
<1>2. PICK o, s, t : o = original /\ s = stack /\ t = stack'
  OBVIOUS
<1>3. OnTop(o, s, 1) /\ IsLambda(keep, o, s[1]) /\ i \in 1..Len(o)
  BY <1>2, CallScope DEF AssignVariable, ApplyInv, OnTop
<1>4. t = [s EXCEPT ![i + 1] = Written]
  BY <1>2 DEF AssignVariable
<1>5. OnTop(o, t, 1) /\ t[1] = s[1]
  BY <1>3, <1>4, AssignOne
<1>6. ShapeInv'
  BY <1>2, <1>5 DEF AssignVariable, ShapeInv, compileVars, OnTop
<1>7. PackInv' /\ BodyInv'
  BY DEF AssignVariable, PackInv, BodyInv
<1>8. ApplyInv'
  BY <1>2, <1>3, <1>5 DEF AssignVariable, ApplyInv, compileVars, OnTop
<1> QED
  BY <1>1, <1>6, <1>7, <1>8

\* A call takes the lambda from its variable and joins what it captured with
\* the argument.
LEMMA ApplyStep ==
    ASSUME IInv, Apply
    PROVE  IInv'
<1> USE DEF IInv, StackInv
<1>0. PICK o, s, t, b : o = original /\ s = stack /\ t = stack' /\ b = caller'
  OBVIOUS
<1>1. /\ Len(o) \in Nat /\ IsSeq(s) /\ Len(s) \in Nat
      /\ Cardinality(keep) \in Nat /\ (keep = {} <=> Cardinality(keep) = 0)
  BY <1>0, CallScope
<1>2. TypeOK' /\ SelectInv'
  <2>1. /\ UNCHANGED compileVars
        /\ pc \in {"made", "argument", "closure", "append", "swap", "exec"}
        /\ pc' \in {"exec", "argument", "closure", "append", "swap", "body", "load"}
    BY DEF Apply, ApplyQuote, PushArgument, GetClosure, UnpairClosure, AppendArgument,
           SwapClosure, Exec
  <2> QED BY <2>1, ScopeKept DEF PCs
<1>3. CASE ApplyQuote
  <2>1. /\ OnTop(o, s, 1) /\ s[1] = Quote /\ keep = {}
        /\ t = <<Argument, Head(s)>> \o s
    BY <1>0, <1>1, <1>3 DEF ApplyQuote, ApplyInv, IsLambda, OnTop
  <2>2. t = TwoOn(s, 0, Argument, Head(s))
    <3>1. PICK S : s \in Seq(S)
      BY <1>1 DEF IsSeq
    <3>2. s = SubSeq(s, 0 + 1, Len(s))
      BY <3>1
    <3> QED BY <2>1, <3>2 DEF TwoOn
  <2>3. OnTop(o, t, 3) /\ t[1] = Argument
    <3>1. 0 \in 0..1 /\ 1 - 0 + 2 = 3
      OBVIOUS
    <3>2. OnTop(o, TwoOn(s, 0, Argument, Head(s)), 1 - 0 + 2)
      BY <2>1, <3>1, TwoInPlace
    <3>3. TwoOn(s, 0, Argument, Head(s))[1] = Argument
      BY <2>1, <3>1, TwoInPlace
    <3> QED BY <2>2, <3>1, <3>2, <3>3
  <2>4. ShapeInv' /\ PackInv' /\ BodyInv'
    BY <1>0, <1>3, <2>3 DEF ApplyQuote, ShapeInv, PackInv, BodyInv, compileVars, OnTop
  <2>5. ApplyInv'
    BY <1>0, <1>3, <2>1, <2>3 DEF ApplyQuote, ApplyInv, IsArgument, compileVars, OnTop
  <2> QED BY <1>2, <2>4, <2>5
<1>4. CASE PushArgument
  <2>1. /\ OnTop(o, s, 1) /\ IsLambda(keep, o, s[1]) /\ keep # {}
        /\ t = OneOn(s, Argument)
    BY <1>0, <1>1, <1>4 DEF PushArgument, ApplyInv, OnTop, OneOn
  <2>2. /\ OnTop(o, t, 2) /\ t[1] = Argument
        /\ \A i \in 1..1 : t[i + 1] = s[i]
    BY <2>1, OneMore
  <2>3. t[2] = s[1]
    BY <2>2
  <2>4. ShapeInv' /\ PackInv' /\ BodyInv'
    BY <1>0, <1>4, <2>1, <2>2 DEF PushArgument, ShapeInv, PackInv, BodyInv, compileVars,
       OnTop
  <2>5. ApplyInv'
    BY <1>0, <1>4, <2>1, <2>2, <2>3 DEF PushArgument, ApplyInv, compileVars, OnTop
  <2> QED BY <1>2, <2>4, <2>5
<1>5. CASE GetClosure
  <2>1. /\ OnTop(o, s, 2) /\ s[1] = Argument
        /\ IsLambda(keep, o, s[2]) /\ keep # {} /\ t = OneOn(s, s[2])
    BY <1>0, <1>1, <1>5 DEF GetClosure, ApplyInv, ShapeInv, OnTop, OneOn
  <2>2. /\ OnTop(o, t, 3) /\ t[1] = s[2]
        /\ \A i \in 1..2 : t[i + 1] = s[i]
    BY <2>1, OneMore
  <2>3. t[2] = s[1]
    BY <2>2
  <2>4. ShapeInv' /\ PackInv' /\ BodyInv'
    BY <1>0, <1>5, <2>1, <2>2 DEF GetClosure, ShapeInv, PackInv, BodyInv, compileVars,
       OnTop
  <2>5. ApplyInv'
    BY <1>0, <1>5, <2>1, <2>2, <2>3 DEF GetClosure, ApplyInv, compileVars, OnTop
  <2> QED BY <1>2, <2>4, <2>5
<1>6. CASE UnpairClosure
  <2>1. /\ OnTop(o, s, 3) /\ s[2] = Argument
        /\ IsLambda(keep, o, s[1]) /\ keep # {}
        /\ t = <<Head(s).fst, Head(s).snd>> \o Tail(s)
    BY <1>0, <1>1, <1>6 DEF UnpairClosure, ApplyInv, ShapeInv, OnTop
  <2>2. t = TwoOn(s, 1, s[1].fst, s[1].snd)
    <3>1. PICK S : s \in Seq(S)
      BY <1>1 DEF IsSeq
    <3>2. Len(s) >= 3
      BY <1>1, <2>1 DEF OnTop
    <3>3. Head(s) = s[1] /\ Tail(s) = SubSeq(s, 1 + 1, Len(s))
      BY <3>1, <3>2
    <3> QED BY <2>1, <3>3 DEF TwoOn
  <2>3. /\ OnTop(o, t, 4) /\ t[2] = s[1].snd
        /\ \A i \in 1..2 : t[i + 2] = s[i + 1]
    <3>1. PICK x, y : x = s[1].fst /\ y = s[1].snd
      OBVIOUS
    <3>2. t = TwoOn(s, 1, x, y)
      BY <2>2, <3>1
    <3>3. OnTop(o, t, 4) /\ t[2] = y
      <4>1. 3 \in Nat /\ 1 \in 0..3 /\ 3 - 1 + 2 = 4
        OBVIOUS
      <4>2. OnTop(o, TwoOn(s, 1, x, y), 3 - 1 + 2)
        BY <2>1, <4>1, TwoInPlace
      <4>3. TwoOn(s, 1, x, y)[2] = y
        BY <2>1, <4>1, TwoInPlace
      <4> QED BY <3>2, <4>1, <4>2, <4>3
    <3>4. \A i \in 1..(3 - 1) : TwoOn(s, 1, x, y)[i + 2] = s[i + 1]
      BY <2>1, TwoInPlace
    <3> QED BY <3>1, <3>2, <3>3, <3>4
  <2>4. t[3] = s[2]
    BY <2>3
  <2>5. Packed(keep, o, t[2], 0)
    BY <2>1, <2>3 DEF IsLambda
  <2>6. ShapeInv' /\ PackInv' /\ BodyInv'
    BY <1>0, <1>6, <2>1, <2>3 DEF UnpairClosure, ShapeInv, PackInv, BodyInv, compileVars,
       OnTop
  <2>7. ApplyInv'
    BY <1>0, <1>6, <2>1, <2>3, <2>4, <2>5 DEF UnpairClosure, ApplyInv, compileVars, OnTop
  <2> QED BY <1>2, <2>6, <2>7
<1>7. CASE AppendArgument
  <2>1. /\ OnTop(o, s, 4) /\ Packed(keep, o, s[2], 0)
        /\ s[3] = Argument /\ keep # {}
        /\ t = TwoOn(s, 3, s[1], Pair(s[3], s[2]))
    BY <1>0, <1>1, <1>7 DEF AppendArgument, ApplyInv, ShapeInv, OnTop, TwoOn
  <2>2. OnTop(o, t, 3) /\ t[2] = Pair(s[3], s[2])
    BY <2>1, TwoInPlace
  <2>3. IsArgument(keep, o, t[2])
    BY <2>1, <2>2 DEF IsArgument, Pair
  <2>4. ShapeInv' /\ PackInv' /\ BodyInv'
    BY <1>0, <1>7, <2>1, <2>2 DEF AppendArgument, ShapeInv, PackInv, BodyInv, compileVars,
       OnTop
  <2>5. ApplyInv'
    BY <1>0, <1>7, <2>2, <2>3 DEF AppendArgument, ApplyInv, compileVars, OnTop
  <2> QED BY <1>2, <2>4, <2>5
<1>8. CASE SwapClosure
  <2>1. /\ OnTop(o, s, 3) /\ IsArgument(keep, o, s[2])
        /\ t = TwoOn(s, 2, s[2], s[1])
    BY <1>0, <1>1, <1>8 DEF SwapClosure, ApplyInv, OnTop, TwoOn
  <2>2. OnTop(o, t, 3) /\ t[1] = s[2]
    BY <2>1, TwoInPlace
  <2>3. ShapeInv' /\ PackInv' /\ BodyInv'
    BY <1>0, <1>8, <2>2 DEF SwapClosure, ShapeInv, PackInv, BodyInv, compileVars, OnTop
  <2>4. ApplyInv'
    BY <1>0, <1>8, <2>1, <2>2 DEF SwapClosure, ApplyInv, compileVars, OnTop
  <2> QED BY <1>2, <2>3, <2>4
<1>9. CASE Exec
  <2>1. /\ Len(s) = Len(o) + 3 /\ VarsBelow(o, s, 3) /\ IsArgument(keep, o, s[1])
        /\ held = << >> /\ b = SubSeq(s, 2 + 1, Len(s)) /\ t = <<Head(s)>>
    BY <1>0, <1>9 DEF Exec, ApplyInv, ShapeInv
  <2>2. IsSeq(t) /\ Len(t) = 1 /\ t[1] = s[1]
    <3>1. Head(s) = s[1]
      BY <1>1, <2>1, Popped
    <3>2. t = <<s[1]>> /\ <<s[1]>> \in Seq({s[1]})
      BY <2>1, <3>1
    <3> QED BY <3>2 DEF IsSeq
  <2>3. /\ IsSeq(b) /\ Len(b) = Len(s) - 2
        /\ \A j \in 1..(Len(s) - 2) : b[j] = s[j + 2]
    BY <1>1, <2>1, Below
  <2>4. Len(b) = Len(o) + 1 /\ VarsBelow(o, b, 1)
    <3>1. ASSUME NEW j \in 1..Len(o)
          PROVE  b[j + 1] = s[j + 3]
      <4>1. j + 1 \in 1..(Len(s) - 2) /\ (j + 1) + 2 = j + 3
        BY <1>1, <2>1
      <4> QED BY <2>3, <4>1
    <3> QED BY <1>1, <2>1, <2>3, <3>1 DEF VarsBelow
  <2>5. ShapeInv' /\ PackInv' /\ ApplyInv'
    BY <1>0, <1>9, <2>2, <2>3 DEF Exec, ShapeInv, PackInv, ApplyInv, compileVars
  <2>6. keep = {} => t[1] = Argument /\ Cardinality(keep) = 0
    BY <1>1, <2>1, <2>2 DEF IsArgument
  <2>7. pc' = "load" => Len(t) = 1 /\ IsArgument(keep, o, t[1])
    BY <2>1, <2>2
  <2>8. pc' = "body" =>
          /\ Len(held) + Len(t) = Cardinality(keep) + 1
          /\ \A k \in 1..Len(held) : held[k] = BodyVal(keep, o, k)
          /\ \A k \in 1..Len(t) : t[k] = BodyVal(keep, o, k + Len(held))
    BY <1>1, <1>9, <2>1, <2>2, <2>6 DEF Exec, BodyVal
  <2>9. BodyInv'
    BY <1>0, <1>9, <2>1, <2>4, <2>7, <2>8 DEF Exec, BodyInv, compileVars
  <2> QED BY <1>2, <2>5, <2>9
<1> QED
  BY <1>3, <1>4, <1>5, <1>6, <1>7, <1>8, <1>9 DEF Apply

\* The next captured variable follows those that are split off.
LEMMA BeforeNext ==
    ASSUME NEW n \in Nat, NEW K \in Positions(n),
           NEW h \in Nat, 1 <= h, h <= Cardinality(K)
    PROVE  Follows(K, Nth(K, h), Before(K, h)) /\ Before(K, h) \in Nat
<1>1. CASE h = 1
  BY <1>1, NthKept DEF Before
<1>2. CASE h # 1
  <2>1. PICK g \in Nat : g = h - 1
    OBVIOUS
  <2>2. 1 <= g /\ g + 1 = h /\ g < Cardinality(K) /\ g <= Cardinality(K)
    BY <1>2, <2>1, RankType
  <2>3. Nth(K, g) \in K /\ Follows(K, Nth(K, g + 1), Nth(K, g))
    BY <2>2, NthKept
  <2>4. Before(K, h) = Nth(K, g)
    BY <1>2, <2>1 DEF Before
  <2> QED BY <2>2, <2>3, <2>4, PositionsBound
<1> QED
  BY <1>1, <1>2

\* One UNPAIR more.
LEMMA UnpairOne ==
    ASSUME NEW n \in Nat, NEW K \in Positions(n), NEW o, NEW v,
           NEW h \in Nat, h < Cardinality(K), Cardinality(K) \in Nat,
           h = 0 => v.fst = Argument /\ Packed(K, o, v.snd, 0),
           h # 0 => Packed(K, o, v, Before(K, h))
    PROVE  v.fst = BodyVal(K, o, h + 1) /\ Packed(K, o, v.snd, Before(K, h + 1))
<1>1. CASE h = 0
  BY <1>1 DEF BodyVal, Before
<1>2. CASE h # 0
  <2>1. 1 <= h /\ h <= Cardinality(K)
    BY <1>2
  <2>2. Follows(K, Nth(K, h), Before(K, h)) /\ Before(K, h) \in Nat
    BY <2>1, BeforeNext
  <2>3. Nth(K, h) \in K /\ Follows(K, Nth(K, h + 1), Nth(K, h))
    BY <2>1, NthKept
  <2>4. Nth(K, h + 1) \in K
    BY <2>3 DEF Follows
  <2>5. v.fst = o[Nth(K, h)] /\ Packed(K, o, v.snd, Nth(K, h))
    BY <1>2, <2>2, <2>3, <2>4, PackedSplit
  <2>6. h + 1 # 1 /\ (h + 1) - 1 = h
    BY <1>2
  <2> QED BY <2>5, <2>6 DEF BodyVal, Before
<1> QED
  BY <1>1, <1>2

\* The stack of the body is filled with what its environment names.
LEMMA EnterStep ==
    ASSUME IInv, Enter
    PROVE  IInv'
<1> USE DEF IInv, StackInv
<1>0. PICK o, s, t, d, e, K, c :
        /\ o = original /\ s = stack /\ t = stack' /\ d = held /\ e = held'
        /\ K = keep /\ c = Cardinality(K)
  OBVIOUS
<1>1. /\ IsSeq(s) /\ IsSeq(d) /\ Len(d) \in Nat /\ Len(s) \in Nat
      /\ Len(env) \in Nat /\ K \in Positions(Len(env))
      /\ c \in Nat /\ (K = {} <=> c = 0)
      /\ Len(BodyEnv) = c + 1
  BY <1>0, CallScope, Scope, BodyNames
<1>2. ASSUME UNCHANGED <<compileVars, caller, original>>,
             pc \in {"load", "unpack_down", "unpack_up"},
             pc' \in {"unpack_down", "unpack_up", "body"},
             IsSeq(t), IsSeq(e), pc' = "body" => e = << >>,
             pc' # "body" => K # {},
             pc' = "unpack_down" =>
               /\ Len(t) = 1 /\ Len(e) <= c
               /\ \A k \in 1..Len(e) : e[k] = BodyVal(K, o, k)
               /\ IF e = << >> THEN IsArgument(K, o, t[1])
                  ELSE Packed(K, o, t[1], Before(K, Len(e))),
             pc' # "unpack_down" =>
               /\ Len(e) + Len(t) = c + 1
               /\ \A k \in 1..Len(e) : e[k] = BodyVal(K, o, k)
               /\ \A k \in 1..Len(t) : t[k] = BodyVal(K, o, k + Len(e))
      PROVE  IInv'
  <2>1. TypeOK' /\ SelectInv'
    BY <1>2, ScopeKept DEF PCs
  <2>2. ShapeInv'
    BY <1>0, <1>2 DEF ShapeInv, compileVars
  <2>3. PackInv' /\ ApplyInv'
    BY <1>2 DEF PackInv, ApplyInv
  <2>4. BodyInv'
    BY <1>0, <1>2 DEF BodyInv, compileVars
  <2> QED BY <2>1, <2>2, <2>3, <2>4
<1>3. CASE LoadArgument
  <2>1. Len(s) = 1 /\ IsArgument(K, o, s[1]) /\ d = << >> /\ K # {} /\ t = <<Head(s)>> /\ e = d
    BY <1>0, <1>3 DEF LoadArgument, BodyInv, ShapeInv
  <2>2. IsSeq(t) /\ Len(t) = 1 /\ t[1] = s[1]
    <3>1. Head(s) = s[1]
      BY <1>1, <2>1, Popped
    <3>2. t = <<s[1]>> /\ <<s[1]>> \in Seq({s[1]})
      BY <2>1, <3>1
    <3> QED BY <3>2 DEF IsSeq
  <2>3. UNCHANGED <<compileVars, caller, original>> /\ pc = "load" /\ pc' = "unpack_down"
    BY <1>3 DEF LoadArgument
  <2>4. Len(e) = 0
    BY <2>1
  <2> QED BY <1>1, <1>2, <2>1, <2>2, <2>3, <2>4
<1>4. CASE UnpackDip
  <2>1. /\ Len(s) = 1 /\ Len(d) < c /\ K # {}
        /\ \A k \in 1..Len(d) : d[k] = BodyVal(K, o, k)
        /\ IF d = << >> THEN IsArgument(K, o, s[1])
           ELSE Packed(K, o, s[1], Before(K, Len(d)))
    BY <1>0, <1>1, <1>4 DEF UnpackDip, BodyInv, ShapeInv
  <2>2. PICK v : v = s[1]
    OBVIOUS
  <2>3. Head(s) = v
    BY <1>1, <2>1, <2>2, Popped
  <2>4. e = Append(d, v.fst) /\ t = <<v.snd>> \o Tail(s)
    BY <1>0, <1>4, <2>3 DEF UnpackDip
  <2>5. Len(d) = 0 <=> d = << >>
    BY <1>1, TakenBack
  <2>6. v.fst = BodyVal(K, o, Len(d) + 1) /\ Packed(K, o, v.snd, Before(K, Len(d) + 1))
    <3>1. PICK h \in Nat : h = Len(d)
      BY <1>1
    <3>2. h = 0 => v.fst = Argument /\ Packed(K, o, v.snd, 0)
      BY <2>1, <2>2, <2>5, <3>1 DEF IsArgument
    <3>3. h # 0 => Packed(K, o, v, Before(K, h))
      BY <2>1, <2>2, <2>5, <3>1
    <3>4. h < c
      BY <2>1, <3>1
    <3> QED BY <1>0, <1>1, <3>1, <3>2, <3>3, <3>4, UnpairOne
  <2>7. /\ IsSeq(e) /\ Len(e) = Len(d) + 1 /\ e[Len(d) + 1] = v.fst
        /\ \A i \in 1..Len(d) : e[i] = d[i]
    BY <1>1, <2>4, SetAside
  <2>8. IsSeq(t) /\ Len(t) = 1 /\ t[1] = v.snd
    <3>1. PICK y : y = v.snd
      OBVIOUS
    <3>2. t = <<y>> \o Tail(s)
      BY <2>4, <3>1
    <3> QED BY <1>1, <2>1, <3>1, <3>2, Replaced
  <2>9. \A k \in 1..Len(e) : e[k] = BodyVal(K, o, k)
    <3>1. \A k \in 1..Len(e) : k \in 1..Len(d) \/ k = Len(d) + 1
      BY <1>1, <2>7
    <3> QED BY <2>1, <2>6, <2>7, <3>1
  <2>10. Len(e) # 0 /\ e # << >> /\ Len(e) <= c
    BY <1>1, <2>1, <2>7
  <2>11. UNCHANGED <<compileVars, caller, original>> /\ pc = "unpack_down" /\ pc' = "unpack_down"
    BY <1>4 DEF UnpackDip
  <2> QED BY <1>2, <2>1, <2>6, <2>7, <2>8, <2>9, <2>10, <2>11
<1>5. CASE UnpackBottom
  <2>1. /\ Len(s) = 1 /\ Len(d) = c /\ K # {}
        /\ \A k \in 1..Len(d) : d[k] = BodyVal(K, o, k)
        /\ IF d = << >> THEN IsArgument(K, o, s[1])
           ELSE Packed(K, o, s[1], Before(K, Len(d)))
    BY <1>0, <1>1, <1>5 DEF UnpackBottom, BodyInv, ShapeInv
  <2>2. 1 <= c /\ d # << >>
    BY <1>1, <2>1
  <2>3. Follows(K, Nth(K, c), Before(K, c)) /\ Nth(K, c) = Bottom(K) /\ Nth(K, c) \in K
    BY <1>0, <1>1, <2>2, BeforeNext, NthKept
  <2>4. s[1] = o[Bottom(K)]
    BY <2>1, <2>2, <2>3, PackedEnd
  <2>5. s[1] = BodyVal(K, o, 1 + Len(d))
    BY <1>1, <2>1, <2>2, <2>3, <2>4 DEF BodyVal
  <2>6. \A k \in 1..Len(s) : s[k] = BodyVal(K, o, k + Len(d))
    BY <2>1, <2>5
  <2>7. /\ UNCHANGED <<compileVars, caller, original>> /\ pc = "unpack_down"
        /\ pc' = "unpack_up" /\ t = s /\ e = d
    BY <1>0, <1>5 DEF UnpackBottom
  <2>8. Len(e) + Len(t) = c + 1
    BY <2>1, <2>7
  <2> QED BY <1>1, <1>2, <2>1, <2>6, <2>7, <2>8
<1>6. CASE UnpackUndip
  <2>1. /\ Len(d) + Len(s) = c + 1 /\ K # {} /\ d # << >>
        /\ \A k \in 1..Len(d) : d[k] = BodyVal(K, o, k)
        /\ \A k \in 1..Len(s) : s[k] = BodyVal(K, o, k + Len(d))
    BY <1>0, <1>1, <1>6 DEF UnpackUndip, BodyInv, ShapeInv
  <2>2. PICK x, h : x = d[Len(d)] /\ h = Len(d)
    OBVIOUS
  <2>3. h \in Nat \ {0} /\ x = BodyVal(K, o, h)
    BY <1>1, <2>1, <2>2, TakenBack
  <2>4. e = SubSeq(d, 1, Len(d) - 1) /\ t = <<x>> \o s
    BY <1>0, <1>6, <2>2 DEF UnpackUndip, LeaveDip, Undip
  <2>5. /\ IsSeq(e) /\ Len(e) = h - 1
        /\ \A i \in 1..(h - 1) : e[i] = d[i]
    BY <1>1, <2>1, <2>2, <2>4, TakenBack
  <2>6. /\ IsSeq(t) /\ Len(t) = Len(s) + 1 /\ t[1] = x
        /\ \A i \in 1..Len(s) : t[i + 1] = s[i]
    BY <1>1, <2>4, Pushed
  <2>7. Len(e) + Len(t) = c + 1
    BY <1>1, <2>1, <2>2, <2>3, <2>5, <2>6
  <2>8. \A k \in 1..Len(e) : e[k] = BodyVal(K, o, k)
    BY <2>1, <2>2, <2>3, <2>5
  <2>9. ASSUME NEW k \in 1..Len(t)
        PROVE  t[k] = BodyVal(K, o, k + Len(e))
    <3>1. CASE k = 1
      <4>1. k + Len(e) = h
        BY <2>3, <2>5, <3>1
      <4> QED BY <2>3, <2>6, <3>1, <4>1
    <3>2. CASE k # 1
      <4>1. PICK j \in 1..Len(s) : j + 1 = k
        BY <1>1, <2>6, <3>2
      <4>2. j + h = k + Len(e)
        BY <2>3, <2>5, <4>1
      <4> QED BY <2>1, <2>2, <2>6, <4>1, <4>2
    <3> QED BY <3>1, <3>2
  <2>10. /\ UNCHANGED <<compileVars, caller, original>> /\ pc = "unpack_up"
         /\ pc' = "unpack_up"
    BY <1>6 DEF UnpackUndip
  <2> QED BY <1>2, <2>1, <2>5, <2>6, <2>7, <2>8, <2>9, <2>10
<1>7. CASE UnpackEnd
  <2>1. /\ Len(d) + Len(s) = c + 1 /\ d = << >>
        /\ \A k \in 1..Len(d) : d[k] = BodyVal(K, o, k)
        /\ \A k \in 1..Len(s) : s[k] = BodyVal(K, o, k + Len(d))
    BY <1>0, <1>7 DEF UnpackEnd, BodyInv
  <2>2. /\ UNCHANGED <<compileVars, caller, original>> /\ pc = "unpack_up"
        /\ pc' = "body" /\ t = s /\ e = d
    BY <1>0, <1>7 DEF UnpackEnd
  <2> QED BY <1>1, <1>2, <2>1, <2>2
<1> QED
  BY <1>3, <1>4, <1>5, <1>6, <1>7 DEF Enter

\* The body leaves its result alone on its stack, and the call puts it on the
\* caller's.
LEMMA ReturnStep ==
    ASSUME IInv, RunBody \/ ReturnResult
    PROVE  IInv'
<1> USE DEF IInv, StackInv
<1>1. CASE RunBody
  <2>1. TypeOK' /\ SelectInv'
    BY <1>1, ScopeKept DEF RunBody, PCs
  <2>2. PICK x, t : x = Result /\ t = stack'
    OBVIOUS
  <2>3. t = <<x>> /\ <<x>> \in Seq({x})
    BY <1>1, <2>2 DEF RunBody
  <2>4. IsSeq(t) /\ Len(t) = 1 /\ t[1] = x
    BY <2>3 DEF IsSeq
  <2>5. ShapeInv' /\ PackInv' /\ ApplyInv'
    BY <1>1, <2>2, <2>4 DEF RunBody, ShapeInv, PackInv, ApplyInv, compileVars
  <2>6. BodyInv'
    BY <1>1, <2>2, <2>4 DEF RunBody, BodyInv, compileVars
  <2> QED BY <2>1, <2>5, <2>6
<1>2. CASE ReturnResult
  <2>1. TypeOK' /\ SelectInv'
    BY <1>2, ScopeKept DEF ReturnResult, PCs
  <2>2. PICK o, s, t, b, x :
          o = original /\ s = stack /\ t = stack' /\ b = caller /\ x = Result
    OBVIOUS
  <2>3. /\ OnTop(o, b, 1) /\ IsSeq(s) /\ Len(s) = 1 /\ s[1] = x /\ t = s \o b
    BY <1>2, <2>2, CallScope DEF ReturnResult, BodyInv, OnTop
  <2>4. t = OneOn(b, x)
    <3>1. PICK S : s \in Seq(S)
      BY <2>3 DEF IsSeq
    <3>2. s = <<x>>
      BY <2>3, <3>1
    <3> QED BY <2>3, <3>2 DEF OneOn
  <2>5. OnTop(o, t, 2) /\ t[1] = x
    BY <2>3, <2>4, OneMore
  <2>6. IsSeq(<< >>)
    BY DEF IsSeq
  <2>7. ShapeInv' /\ PackInv' /\ ApplyInv'
    BY <1>2, <2>2, <2>5, <2>6 DEF ReturnResult, ShapeInv, PackInv, ApplyInv, compileVars,
       OnTop
  <2>8. BodyInv'
    BY <1>2, <2>2, <2>5 DEF ReturnResult, BodyInv, compileVars, OnTop
  <2> QED BY <2>1, <2>7, <2>8
<1> QED
  BY <1>1, <1>2

-----------------------------------------------------------------------------
(* The theorems. *)

\* Every step of the compiler, of the interpreter and of an assignment keeps
\* the invariant.
LEMMA Inductive == Spec => []IInv
<1>1. Init => IInv
  BY InitIInv
<1>2. ASSUME IInv, [Next]_vars
      PROVE  IInv'
  <2>1. CASE Step
    BY <1>2, <2>1, CompileStep, CreateStep, ApplyStep, EnterStep, ReturnStep DEF Step
  <2>2. CASE \E i \in 1..Len(env) : AssignVariable(i)
    BY <1>2, <2>2, AssignStep
  <2>3. CASE UNCHANGED vars
    <3>1. TypeOK'
      BY <1>2, <2>3 DEF IInv, TypeOK, vars, compileVars
    <3>2. SelectInv'
      BY <1>2, <2>3 DEF IInv, SelectInv, Wanted, Shadowed, vars, compileVars
    <3>3. ShapeInv' /\ PackInv'
      BY <1>2, <2>3 DEF IInv, StackInv, ShapeInv, PackInv, vars, compileVars
    <3>4. ApplyInv' /\ BodyInv'
      BY <1>2, <2>3 DEF IInv, StackInv, ApplyInv, BodyInv, vars, compileVars
    <3> QED BY <3>1, <3>2, <3>3, <3>4 DEF IInv, StackInv
  <2> QED BY <1>2, <2>1, <2>2, <2>3 DEF Next
<1> QED
  BY <1>1, <1>2, PTL DEF Spec

\* The state of the compiler and of the interpreter keeps its type: the
\* selector never counts below zero, and only positions of the environment are
\* captured (Environment.select in mini_c/environment.ml).
THEOREM ClosureTypes == Spec => []TypeOK
BY Inductive, PTL DEF IInv

\* A free variable that is not shadowed has one position, and is captured.
LEMMA UsedOnce ==
    ASSUME IInv, pc = "body", NEW s \in Name, uses[s] > 0, ~Shadowed(s)
    PROVE  \E i \in keep : /\ i \in DOMAIN env /\ env[i] = s
                           /\ \A j \in DOMAIN env : env[j] = s => j = i
<1>1. PICK i \in DOMAIN env : env[i] = s
  BY DEF IInv, SelectInv
<1>2. \A j \in DOMAIN env : env[j] = s => j = i
  BY <1>1 DEF Shadowed
<1>3. i \in 1..Len(env)
  BY <1>1 DEF IInv, TypeOK
<1>4. i \in keep
  BY <1>1, <1>3 DEF IInv, SelectInv, Wanted
<1> QED
  BY <1>1, <1>2, <1>4

\* The body finds such a variable, and its parameter, at the one place of the
\* stack that its environment names so.
LEMMA BodySees ==
    ASSUME IInv, pc = "body"
    PROVE  /\ Loaded(Binder) = Argument
           /\ \A s \in Name : uses[s] > 0 /\ ~Shadowed(s) => Loaded(s) = Visible(s)
<1> DEFINE c == Cardinality(keep)
<1>1. /\ Len(BodyEnv) = c + 1 /\ c \in Nat /\ IsSeq(BodyEnv) /\ BodyEnv[1] = Binder
      /\ \A k \in 1..c : BodyEnv[k + 1] = env[Nth(keep, k)]
  BY BodyNames DEF IInv, StackInv
<1>2. \A k \in 1..(c + 1) : stack[k] = BodyVal(keep, original, k)
  <2>1. held = << >> /\ Len(held) = 0 /\ Len(held) + Len(stack) = c + 1
    BY DEF IInv, StackInv, ShapeInv, BodyInv
  <2>2. Len(stack) = c + 1
    BY <1>1, <2>1, CallScope
  <2>3. \A k \in 1..Len(stack) : stack[k] = BodyVal(keep, original, k + Len(held))
    BY DEF IInv, StackInv, BodyInv
  <2> QED BY <2>1, <2>2, <2>3
<1>3. PICK E : E = BodyEnv
  OBVIOUS
<1>4. DOMAIN E = 1..(c + 1)
  BY <1>1, <1>3 DEF IsSeq
<1>5. Loaded(Binder) = Argument
  <2>1. IsInnermost(1, Binder, E)
    BY <1>1, <1>3, <1>4 DEF IsInnermost
  <2>2. ASSUME NEW i \in DOMAIN E, IsInnermost(i, Binder, E)
        PROVE  i = 1
    <3>1. i \in Nat /\ (i # 1 => 1 \in 1..(i - 1))
      BY <1>1, <1>4
    <3> QED BY <1>1, <1>3, <2>2, <3>1 DEF IsInnermost
  <2>3. (CHOOSE i \in DOMAIN E : IsInnermost(i, Binder, E)) = 1
    BY <1>1, <1>4, <2>1, <2>2
  <2>4. stack[1] = Argument
    BY <1>1, <1>2 DEF BodyVal
  <2> QED BY <1>3, <2>3, <2>4 DEF Loaded
<1>6. ASSUME NEW s \in Name, uses[s] > 0, ~Shadowed(s)
      PROVE  Loaded(s) = Visible(s)
  <2>1. PICK i \in keep : /\ i \in DOMAIN env /\ env[i] = s
                          /\ \A j \in DOMAIN env : env[j] = s => j = i
    BY <1>6, UsedOnce
  <2>2. Visible(s) = original[i]
    <3>1. ASSUME NEW j \in 1..(i - 1)
          PROVE  env[j] # s
      <4>1. j \in DOMAIN env /\ j # i
        BY <2>1 DEF IInv, TypeOK
      <4> QED BY <2>1, <4>1
    <3>2. IsInnermost(i, s, env)
      BY <2>1, <3>1 DEF IsInnermost
    <3>3. \A j \in DOMAIN env : IsInnermost(j, s, env) => j = i
      BY <2>1 DEF IsInnermost
    <3>4. (CHOOSE j \in DOMAIN env : IsInnermost(j, s, env)) = i
      BY <2>1, <3>2, <3>3
    <3> QED BY <3>4 DEF Visible
  <2>3. Len(env) \in Nat /\ keep \in Positions(Len(env))
    BY Scope DEF IInv, StackInv
  <2>4. PICK r : r = Rank(keep, i)
    OBVIOUS
  <2>5. /\ r \in 1..c /\ Nth(keep, r) = i
        /\ \A k \in 1..c : Nth(keep, k) = i => k = r
    BY <2>3, <2>4, NthOfRank
  <2>6. \A k \in 1..c : Nth(keep, k) \in DOMAIN env
    <3>1. \A k \in 1..c : Nth(keep, k) \in keep
      BY <1>1, <2>3, NthKept
    <3> QED BY <3>1 DEF IInv, TypeOK
  <2>7. E[r + 1] = s /\ r + 1 \in DOMAIN E
    BY <1>1, <1>3, <1>4, <2>1, <2>5
  <2>8. ASSUME NEW k \in DOMAIN E, E[k] = s
        PROVE  k = r + 1
    <3>1. k # 1
      BY <1>1, <1>3, <2>8, BinderAssumption
    <3>2. PICK j \in 1..c : j + 1 = k
      <4>1. k \in Nat /\ 1 <= k - 1 /\ k - 1 <= c /\ (k - 1) + 1 = k
        BY <1>1, <1>4, <3>1
      <4>2. k - 1 \in 1..c
        BY <1>1, <4>1
      <4> QED BY <4>1, <4>2
    <3>3. env[Nth(keep, j)] = s
      BY <1>1, <1>3, <2>8, <3>2
    <3>4. j = r
      BY <2>1, <2>5, <2>6, <3>3
    <3> QED BY <3>2, <3>4
  <2>9. IsInnermost(r + 1, s, E)
    <3>1. ASSUME NEW k \in 1..((r + 1) - 1)
          PROVE  E[k] # s
      <4>1. k \in DOMAIN E /\ k # r + 1
        BY <1>1, <1>4, <2>5
      <4> QED BY <2>8, <4>1
    <3> QED BY <2>7, <3>1 DEF IsInnermost
  <2>10. (CHOOSE k \in DOMAIN E : IsInnermost(k, s, E)) = r + 1
    BY <2>7, <2>8, <2>9 DEF IsInnermost
  <2>11. stack[r + 1] = original[i]
    <3>1. r + 1 \in 1..(c + 1) /\ r + 1 # 1 /\ (r + 1) - 1 = r
      BY <1>1, <2>5
    <3> QED BY <1>2, <2>5, <3>1 DEF BodyVal
  <2> QED BY <1>3, <2>2, <2>10, <2>11 DEF Loaded
<1> QED
  BY <1>5, <1>6

\* Packing at the creation of a closure (compiler_environment.ml, pack_select)
\* and unpacking in its body (unpack) agree, for every set of names and every
\* environment: each free variable that is not shadowed is found with the
\* value it had when the lambda was made.
THEOREM CaptureCorrect == Spec => []UnshadowedCapture
<1>1. IInv => UnshadowedCapture
  BY BodySees DEF UnshadowedCapture, SeesVisible
<1> QED
  BY <1>1, Inductive, PTL

\* A body starts on as many plain values as its environment has names: no pair
\* is left packed, and none is split too far (compiler_environment.ml, unpack).
THEOREM BodyAlignment == Spec => []BodyAligned
<1>1. ASSUME IInv, pc = "body"
      PROVE  Len(stack) = Len(BodyEnv) /\ \A i \in DOMAIN stack : ~IsPair(stack[i])
  <2> DEFINE c == Cardinality(keep)
  <2>1. Len(BodyEnv) = c + 1 /\ c \in Nat
    BY <1>1, BodyNames DEF IInv, StackInv
  <2>2. held = << >> /\ Len(held) = 0 /\ Len(held) + Len(stack) = c + 1
    BY <1>1 DEF IInv, StackInv, ShapeInv, BodyInv
  <2>3. Len(stack) = c + 1 /\ IsSeq(stack)
    BY <1>1, <2>1, <2>2, CallScope
  <2>4. ASSUME NEW i \in DOMAIN stack
        PROVE  ~IsPair(stack[i])
    <3>1. i \in 1..Len(stack) /\ i + Len(held) = i
      BY <2>2, <2>3 DEF IsSeq
    <3>2. stack[i] = BodyVal(keep, original, i)
      <4>1. stack[i] = BodyVal(keep, original, i + Len(held))
        BY <1>1, <3>1 DEF IInv, StackInv, BodyInv
      <4> QED BY <3>1, <4>1
    <3>3. \A k, p : ~IsPair(Atom(k, p))
      BY DEF IsPair, Atom
    <3>4. CASE i = 1
      BY <3>2, <3>3, <3>4 DEF BodyVal, Argument
    <3>5. CASE i # 1
      <4>1. PICK r \in 1..c : r = i - 1
        BY <2>1, <2>3, <3>1, <3>5
      <4>2. Len(env) \in Nat /\ keep \in Positions(Len(env))
        BY <1>1, Scope DEF IInv, StackInv
      <4>3. Nth(keep, r) \in 1..Len(env)
        BY <2>1, <4>1, <4>2, NthKept, PositionsBound
      <4>4. stack[i] = original[Nth(keep, r)]
        BY <3>2, <3>5, <4>1 DEF BodyVal
      <4>5. original[Nth(keep, r)] = Atom("var", Nth(keep, r))
        BY <1>1, <4>3, Scope DEF IInv, StackInv
      <4> QED BY <3>3, <4>4, <4>5
    <3> QED BY <3>4, <3>5
  <2> QED BY <2>1, <2>3, <2>4
<1>2. IInv => BodyAligned
  BY <1>1 DEF BodyAligned
<1> QED
  BY <1>2, Inductive, PTL

\* pack_select copies: once the lambda has been made, every variable is where
\* it was below it, with its value or one assigned since.
THEOREM PackingCopies == Spec => []PackingLeavesEnvironment
<1>1. ASSUME IInv, pc = "made"
      PROVE  \A i \in DOMAIN env : stack[i + 1] \in {original[i], Written}
  <2>1. VarsBelow(original, stack, 1) /\ DOMAIN env = 1..Len(original)
    BY <1>1, CallScope DEF IInv, StackInv, ApplyInv, TypeOK
  <2> QED BY <2>1 DEF VarsBelow
<1>2. IInv => PackingLeavesEnvironment
  BY <1>1 DEF PackingLeavesEnvironment
<1> QED
  BY <1>2, Inductive, PTL

\* A call (compiler_program.ml, E_application) puts its result on its caller's
\* stack, and takes nothing of it.
THEOREM CallerKept == Spec => []CallerIntact
<1>1. ASSUME IInv, pc = "done"
      PROVE  /\ Len(stack) = Len(env) + 2 /\ Head(stack) = Result
             /\ \A i \in DOMAIN env : stack[i + 2] \in {original[i], Written}
  <2>1. /\ Len(stack) = Len(original) + 2 /\ VarsBelow(original, stack, 2)
        /\ stack[1] = Result
    BY <1>1 DEF IInv, StackInv, BodyInv
  <2>2. DOMAIN env = 1..Len(original) /\ Len(original) = Len(env) /\ Len(original) \in Nat
    BY <1>1, CallScope DEF IInv, TypeOK
  <2>3. Head(stack) = stack[1]
    BY <1>1, <2>1, <2>2, CallScope, Popped
  <2> QED BY <2>1, <2>2, <2>3 DEF VarsBelow
<1>2. IInv => CallerIntact
  BY <1>1 DEF CallerIntact
<1> QED
  BY <1>2, Inductive, PTL
=============================================================================

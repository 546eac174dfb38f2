------------------------------ MODULE Field5x52 ------------------------------
(***************************************************************************)
(* Elements of the same field as field_5x52_impl.h holds them, for words   *)
(* of 64 bits: N limbs of W bits (5 of 52), the last of T (48), modulo     *)
(* P == 2^(W*(N-1)+T) - C (C = 0x1000003D1, less than a limb).  The        *)
(* products are those of field_5x52_int128_impl.h.                         *)
(***************************************************************************)
EXTENDS Integers, Limbs

CONSTANTS N, W, T, C,
          Word,     \* bits of a limb's word (64)
          DWord     \* bits of an accumulator (128)

Mask == 2^W - 1
TopMask == 2^T - 1
P == 2^(W * (N - 1) + T) - C
R == C * 2^(W - T)      \* 2^(W*N) modulo P

Top(t) == t[N - 1]
Cut(x) == LowBits(x, Word)

----------------------------------------------------------------------------
(* secp256k1_fe_verify. *)
FeVerify(a) ==
    LET m == IF a.normalized THEN 1 ELSE 2 * a.magnitude IN
    /\ \A i \in 0 .. N - 2 : a.n[i] <= Mask * m
    /\ Top(a.n) <= TopMask * m
    /\ a.normalized => a.magnitude <= 1 /\ ValueOf(a.n, W) < P

FirstPass(t) ==
    CarryPass([t EXCEPT ![N - 1] = LowBits(@, T), ![0] = Cut(@ + Shifted(Top(t), T) * C)],
              W, Word)

ReachesP(t) ==
    /\ Top(t) = TopMask
    /\ \A i \in 1 .. N - 2 : t[i] = Mask
    /\ t[0] >= Mask - (C - 1)

(* The final reduction: P is subtracted by adding C and dropping the bit   *)
(* that leaves the top limb.                                               *)
DropP(t, x) ==
    LET u == CarryPass([t EXCEPT ![0] = Cut(@ + x * C)], W, Word)
    IN [u EXCEPT ![N - 1] = LowBits(@, T)]

FeNormalize(a) ==
    LET t == FirstPass(a.n)
        x == IF Shifted(Top(t), T) = 1 \/ ReachesP(t) THEN 1 ELSE 0
    IN [n |-> DropP(t, x), magnitude |-> 1, normalized |-> TRUE]

FeNormalizeWeak(a) == [a EXCEPT !.n = FirstPass(a.n), !.magnitude = 1]

FeNormalizeVar(a) ==
    LET t == FirstPass(a.n) IN
    [n |-> IF Shifted(Top(t), T) = 1 \/ ReachesP(t) THEN DropP(t, 1) ELSE t,
     magnitude |-> 1, normalized |-> TRUE]

PLimb(i) == CASE i = 0 -> Mask - (C - 1)
              [] i = N - 1 -> TopMask
              [] OTHER -> Mask

FeNormalizesToZero(a) ==
    LET t == FirstPass(a.n) IN
    \/ \A i \in 0 .. N - 1 : t[i] = 0
    \/ \A i \in 0 .. N - 1 : t[i] = PLimb(i)

FeNormalizesToZeroVar(a) ==
    LET low == LowBits(Cut(a.n[0] + Shifted(Top(a.n), T) * C), W) IN
    /\ low \in {0, PLimb(0)}
    /\ FeNormalizesToZero(a)

FeSetInt(v) == [n |-> [i \in 0 .. N - 1 |-> IF i = 0 THEN v ELSE 0],
                magnitude |-> 1, normalized |-> TRUE]
FeClear == [n |-> [i \in 0 .. N - 1 |-> 0], magnitude |-> 0, normalized |-> TRUE]
FeIsZero(a) == \A i \in 0 .. N - 1 : a.n[i] = 0
FeIsOdd(a) == a.n[0] % 2 = 1

FeCmpVar(a, b) ==
    LET D == {i \in 0 .. N - 1 : a.n[i] # b.n[i]}
        top == CHOOSE i \in D : \A j \in D : j <= i
    IN IF D = {} THEN 0 ELSE IF a.n[top] > b.n[top] THEN 1 ELSE -1

FeSetB32(v) ==
    LET t == DigitsOf(v, N, W) IN
    [ok |-> ~ReachesP(t), fe |-> [n |-> t, magnitude |-> 1, normalized |-> TRUE]]
FeGetB32(a) == ValueOf(a.n, W)

FeNegate(a, m) ==
    [n |-> [i \in 0 .. N - 1 |-> Cut(PLimb(i) * 2 * (m + 1) - a.n[i])],
     magnitude |-> m + 1, normalized |-> FALSE]
FeMulInt(a, k) ==
    [n |-> [i \in 0 .. N - 1 |-> Cut(a.n[i] * k)],
     magnitude |-> a.magnitude * k, normalized |-> FALSE]
FeAdd(r, a) ==
    [n |-> [i \in 0 .. N - 1 |-> Cut(r.n[i] + a.n[i])],
     magnitude |-> r.magnitude + a.magnitude, normalized |-> FALSE]

----------------------------------------------------------------------------
(* Products: columns N-2 and N-1 come first, with the highest one folded   *)
(* into them, so that the excess of the top limb is known when the columns *)
(* from 0 up take in those from N up.                                      *)
Acc(x) == LowBits(x, DWord)

TopColumns(col(_)) ==
    LET c == Acc(col(2 * N - 2))
        d0 == Acc(col(N - 2) + LowBits(c, W) * R)
        d1 == Acc(Shifted(d0, W) + col(N - 1) + Shifted(c, W) * R)
        top == LowBits(d1, W)
    IN [t |-> LowBits(d0, W), top |-> LowBits(top, T), excess |-> Shifted(top, T),
        d |-> Shifted(d1, W)]

(* Limb 0 takes column N and the excess of the top limb. *)
LowestColumn(s, col(_)) ==
    LET d == Acc(s.d + col(N))
        u == LowBits(d, W) * 2^(W - T) + s.excess
        c == Acc(col(0) + u * C)
    IN [r |-> [i \in {0} |-> LowBits(c, W)], c |-> Shifted(c, W), d |-> Shifted(d, W)]

(* Limb k takes column N + k. *)
NextColumn(s, k, col(_)) ==
    LET d == Acc(s.d + col(N + k))
        c == Acc(s.c + col(k) + LowBits(d, W) * R)
    IN [r |-> [i \in 0 .. k |-> IF i = k THEN LowBits(c, W) ELSE s.r[i]],
        c |-> Shifted(c, W), d |-> Shifted(d, W)]

Product(col(_)) ==
    LET high == TopColumns(col)
        low[k \in 0 .. N - 3] == IF k = 0 THEN LowestColumn(high, col)
                                 ELSE NextColumn(low[k - 1], k, col)
        last == low[N - 3]
        c == Acc(last.c + last.d * R + high.t)
    IN [i \in 0 .. N - 1 |-> CASE i = N - 1 -> Cut(Shifted(c, W) + high.top)
                               [] i = N - 2 -> LowBits(c, W)
                               [] OTHER -> last.r[i]]

MulInner(a, b) == LET col(k) == Column(a, b, k) IN Product(col)
SqrInner(a) == LET col(k) == SquareColumn(a, k, Word) IN Product(col)

FeMul(a, b) == [n |-> MulInner(a.n, b.n), magnitude |-> 1, normalized |-> FALSE]
FeSqr(a) == [n |-> SqrInner(a.n), magnitude |-> 1, normalized |-> FALSE]

----------------------------------------------------------------------------
FeCmov(r, a, flag) ==
    [n |-> IF flag THEN a.n ELSE r.n,
     magnitude |-> IF a.magnitude > r.magnitude THEN a.magnitude ELSE r.magnitude,
     normalized |-> r.normalized /\ a.normalized]

StorageWords == (W * (N - 1) + T + Word - 1) \div Word
FeToStorage(a) == DigitsOf(ValueOf(a.n, W), StorageWords, Word)
FeFromStorage(s) ==
    [n |-> DigitsOf(ValueOf(s, Word), N, W), magnitude |-> 1, normalized |-> TRUE]
FeStorageCmov(r, a, flag) == IF flag THEN a ELSE r
=============================================================================

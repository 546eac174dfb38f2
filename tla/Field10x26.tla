----------------------------- MODULE Field10x26 -----------------------------
(***************************************************************************)
(* Elements of the field of secp256k1 as field_10x26_impl.h holds them:    *)
(* N limbs of W bits (10 of 26), the last of T (22), in words with room    *)
(* for more, modulo P == 2^(W*(N-1)+T) - (C1*2^W + C0) (C1 = 0x40,         *)
(* C0 = 0x3D1).  Results are reduced as late as possible: a magnitude says *)
(* how far the limbs may exceed their bits, and each operation has its     *)
(* limit on the magnitudes it takes.                                       *)
(***************************************************************************)
EXTENDS Integers, Limbs

CONSTANTS N, W, T, C0, C1,
          Word,     \* bits of a limb's word (32)
          DWord     \* bits of an accumulator (64)

Mask == 2^W - 1
TopMask == 2^T - 1
P == 2^(W * (N - 1) + T) - (C1 * 2^W + C0)
R0 == C0 * 2^(W - T)      \* 2^(W*N) is R1*2^W + R0 modulo P
R1 == C1 * 2^(W - T)

Top(t) == t[N - 1]
Cut(x) == LowBits(x, Word)

----------------------------------------------------------------------------
(* secp256k1_fe_verify: what the limbs may be at a magnitude.              *)
FeVerify(a) ==
    LET m == IF a.normalized THEN 1 ELSE 2 * a.magnitude IN
    /\ \A i \in 0 .. N - 2 : a.n[i] <= Mask * m
    /\ Top(a.n) <= TopMask * m
    /\ a.normalized => a.magnitude <= 1 /\ ValueOf(a.n, W) < P

(* The multiple of 2^(W*(N-1)+T) in the top limb comes back at the bottom. *)
FoldTop(t, x) ==
    [t EXCEPT ![N - 1] = LowBits(@, T), ![0] = Cut(@ + x * C0), ![1] = Cut(@ + x * C1)]

FirstPass(t) == CarryPass(FoldTop(t, Shifted(Top(t), T)), W, Word)

(* The test of a value that has no carries left against P. *)
ReachesP(t) ==
    /\ Top(t) = TopMask
    /\ \A i \in 2 .. N - 2 : t[i] = Mask
    /\ t[1] + C1 + Shifted(t[0] + C0, W) > Mask

\* Mutant: P and what lies above it, up to a power of two, stay as they are.
FeNormalizeAbove(a) == [n |-> FirstPass(a.n), magnitude |-> 1, normalized |-> TRUE]

FeNormalize(a) ==
    LET t == FirstPass(a.n)
        x == IF Shifted(Top(t), T) = 1 \/ ReachesP(t) THEN 1 ELSE 0
        u == CarryPass([t EXCEPT ![0] = @ + x * C0, ![1] = @ + x * C1], W, Word)
    IN [n |-> [u EXCEPT ![N - 1] = LowBits(@, T)], magnitude |-> 1, normalized |-> TRUE]

FeNormalizeWeak(a) == [a EXCEPT !.n = FirstPass(a.n), !.magnitude = 1]

FeNormalizeVar(a) ==
    LET t == FirstPass(a.n) IN
    [n |-> IF Shifted(Top(t), T) = 1 \/ ReachesP(t)
           THEN LET u == CarryPass([t EXCEPT ![0] = @ + C0, ![1] = @ + C1], W, Word)
                IN [u EXCEPT ![N - 1] = LowBits(@, T)]
           ELSE t,
     magnitude |-> 1, normalized |-> TRUE]

(* After one pass zero is the raw value 0 or the raw value P. *)
PLimb(i) == CASE i = 0 -> Mask - (C0 - 1)
              [] i = 1 -> Mask - C1
              [] i = N - 1 -> TopMask
              [] OTHER -> Mask

FeNormalizesToZero(a) ==
    LET t == FirstPass(a.n) IN
    \/ \A i \in 0 .. N - 1 : t[i] = 0
    \/ \A i \in 0 .. N - 1 : t[i] = PLimb(i)

(* The same, after a look at the lowest limb alone. *)
FeNormalizesToZeroVar(a) ==
    LET low == LowBits(Cut(a.n[0] + Shifted(Top(a.n), T) * C0), W) IN
    /\ low \in {0, PLimb(0)}
    /\ FeNormalizesToZero(a)

FeSetInt(v) == [n |-> [i \in 0 .. N - 1 |-> IF i = 0 THEN v ELSE 0],
                magnitude |-> 1, normalized |-> TRUE]
FeClear == [n |-> [i \in 0 .. N - 1 |-> 0], magnitude |-> 0, normalized |-> TRUE]
FeIsZero(a) == \A i \in 0 .. N - 1 : a.n[i] = 0
FeIsOdd(a) == a.n[0] % 2 = 1

(* The first limb from the top that differs decides. *)
FeCmpVar(a, b) ==
    LET D == {i \in 0 .. N - 1 : a.n[i] # b.n[i]}
        top == CHOOSE i \in D : \A j \in D : j <= i
    IN IF D = {} THEN 0 ELSE IF a.n[top] > b.n[top] THEN 1 ELSE -1

(* The bytes are a number v; the result is refused when v is P or more. *)
FeSetB32(v) ==
    LET t == DigitsOf(v, N, W) IN
    [ok |-> ~ReachesP(t), fe |-> [n |-> t, magnitude |-> 1, normalized |-> TRUE]]
FeGetB32(a) == ValueOf(a.n, W)

(* 2*(m+1)*P - a, limb by limb. *)
FeNegate(a, m) ==
    [n |-> [i \in 0 .. N - 1 |-> Cut(PLimb(i) * 2 * (m + 1) - a.n[i])],
     magnitude |-> m + 1, normalized |-> FALSE]
FeMulInt(a, k) ==
    [n |-> [i \in 0 .. N - 1 |-> Cut(a.n[i] * k)],
     magnitude |-> a.magnitude * k, normalized |-> FALSE]
FeAdd(r, a) ==
    [n |-> [i \in 0 .. N - 1 |-> Cut(r.n[i] + a.n[i])],
     magnitude |-> r.magnitude + a.magnitude, normalized |-> FALSE]

----------------------------------------------------------------------------
(* Products.  c runs over the columns from 0 up and d over those from N    *)
(* up, each handing its low bits on: those of c are limbs of the result,   *)
(* those of d (u) are folded into c as u*R0 and, a limb further, u*R1.     *)
(* Column(k) is column k of the product.                                   *)
Acc(x) == LowBits(x, DWord)

FoldColumn(prev, k, low, high) ==
    LET d == Acc(prev.d + high)
        u == LowBits(d, W)
        c == Acc(prev.c + low + u * R0)
    IN [d |-> Shifted(d, W), c |-> Acc(Shifted(c, W) + u * R1),
        t |-> [prev.t EXCEPT ![k] = LowBits(c, W)]]

(* What is left of c and d, and the top limb's excess, are folded last.    *)
FoldRest(s) ==
    LET c == Acc(s.c + s.d * R0 + s.t[N - 1])
        over == Acc(Shifted(c, T) + s.d * R1 * 2^(W - T))
        d0 == Acc(over * C0 + s.t[0])
        d1 == Acc(Shifted(d0, W) + over * C1 + s.t[1])
    IN [s.t EXCEPT ![N - 1] = LowBits(c, T), ![0] = LowBits(d0, W), ![1] = LowBits(d1, W),
                   ![2] = Cut(Shifted(d1, W) + @)]

MulInner(a, b) ==
    LET first == Acc(Column(a, b, N - 1))
        fold[k \in 0 .. N - 1] ==
            IF k = 0
            THEN [d |-> Shifted(first, W), c |-> 0,
                  t |-> [i \in 0 .. N - 1 |-> IF i = N - 1 THEN LowBits(first, W) ELSE 0]]
            ELSE FoldColumn(fold[k - 1], k - 1, Column(a, b, k - 1), Column(a, b, N + k - 1))
    IN FoldRest(fold[N - 1])

SqrInner(a) ==
    LET col(k) == SquareColumn(a, k, Word)
        first == Acc(col(N - 1))
        fold[k \in 0 .. N - 1] ==
            IF k = 0
            THEN [d |-> Shifted(first, W), c |-> 0,
                  t |-> [i \in 0 .. N - 1 |-> IF i = N - 1 THEN LowBits(first, W) ELSE 0]]
            ELSE FoldColumn(fold[k - 1], k - 1, col(k - 1), col(N + k - 1))
    IN FoldRest(fold[N - 1])

FeMul(a, b) == [n |-> MulInner(a.n, b.n), magnitude |-> 1, normalized |-> FALSE]
FeSqr(a) == [n |-> SqrInner(a.n), magnitude |-> 1, normalized |-> FALSE]

----------------------------------------------------------------------------
FeCmov(r, a, flag) ==
    [n |-> IF flag THEN a.n ELSE r.n,
     magnitude |-> IF a.magnitude > r.magnitude THEN a.magnitude ELSE r.magnitude,
     normalized |-> r.normalized /\ a.normalized]

(* Storage packs the bits of a normalized element into whole words. *)
StorageWords == (W * (N - 1) + T + Word - 1) \div Word
FeToStorage(a) == DigitsOf(ValueOf(a.n, W), StorageWords, Word)
FeFromStorage(s) ==
    [n |-> DigitsOf(ValueOf(s, Word), N, W), magnitude |-> 1, normalized |-> TRUE]
FeStorageCmov(r, a, flag) == IF flag THEN a ELSE r
=============================================================================

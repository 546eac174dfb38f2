------------------------------- MODULE Scalar -------------------------------
(***************************************************************************)
(* Numbers modulo the order of the group as scalar_4x64_impl.h holds them: *)
(* L words of W bits (4 of 64), always below Order, which is               *)
(* 2^(L*W) - NC for a number NC of half the width whose last word is 1.    *)
(* scalar_8x32_impl.h has the same steps over eight words of 32.           *)
(***************************************************************************)
EXTENDS Integers, Limbs, TLC

CONSTANTS L, W,
          NC        \* the words of 2^(L*W) modulo the order

Order == 2^(L * W) - ValueOf(NC, W)
OrderWords == DigitsOf(Order, L, W)
HalfWords == DigitsOf(Order \div 2, L, W)

(* Written with @@, which TLC evaluates at once. *)
Words(f(_)) == [i \in 0 .. L - 1 |-> f(i)] @@ << >>

(* Sums of words, carried from each to the next in an accumulator of       *)
(* `size' words.                                                           *)
Carried(s, size) ==
    LET n == CHOOSE k \in DOMAIN s : k + 1 \notin DOMAIN s
        acc[k \in 0 .. n] ==
            LowBits(s[k] + (IF k = 0 THEN 0 ELSE Shifted(acc[k - 1], W)), size * W)
    IN [d |-> [k \in 0 .. n |-> LowBits(acc[k], W)] @@ << >>, carry |-> Shifted(acc[n], W)]

ScalarClear == Words(LAMBDA i : 0)
ScalarSetInt(v) == Words(LAMBDA i : IF i = 0 THEN v ELSE 0)

(* Bits of one word; bits of two neighbours are put together.              *)
GetBits(a, offset, count) ==
    LowBits(Shifted(a[offset \div W], offset % W), count)
GetBitsVar(a, offset, count) ==
    LET i == offset \div W IN
    IF (offset + count - 1) \div W = i
    THEN GetBits(a, offset, count)
    ELSE LowBits(Shifted(a[i], offset % W) + a[i + 1] * 2^(W - (offset % W)), count)

----------------------------------------------------------------------------
(* The words are compared from the top until one is smaller. *)
CheckOverflow(a) ==
    \E i \in 0 .. L - 1 :
        /\ a[i] > OrderWords[i] \/ (i = 0 /\ a[0] = OrderWords[0])
        /\ \A j \in i + 1 .. L - 1 : a[j] >= OrderWords[j]
IsHigh(a) ==
    \E i \in 0 .. L - 1 :
        a[i] > HalfWords[i] /\ \A j \in i + 1 .. L - 1 : a[j] >= HalfWords[j]

Bit(b) == IF b THEN 1 ELSE 0

(* overflow (0 or 1) times the order is taken off by adding NC.            *)
Reduce(a, overflow) ==
    Carried(Words(LAMBDA i : a[i] + (IF i \in DOMAIN NC THEN overflow * NC[i] ELSE 0)), 2).d

Taken(d, overflow) == [r |-> Reduce(d, overflow), overflow |-> overflow]
SumReduced(sum) == Taken(sum.d, sum.carry + Bit(CheckOverflow(sum.d)))
ScalarAdd(a, b) == SumReduced(Carried(Words(LAMBDA i : a[i] + b[i]), 2))

CaddBit(a, bit, flag) ==
    Carried(Words(LAMBDA i : a[i] + (IF flag /\ bit \div W = i THEN 2^(bit % W) ELSE 0)), 2).d

ScalarSetB32(v) ==
    LET t == DigitsOf(v, L, W) IN
    [r |-> Reduce(t, Bit(CheckOverflow(t))), overflow |-> CheckOverflow(t)]
ScalarGetB32(a) == ValueOf(a, W)

IsZero(a) == \A i \in 0 .. L - 1 : a[i] = 0
IsOne(a) == \A i \in 0 .. L - 1 : a[i] = (IF i = 0 THEN 1 ELSE 0)
ScalarEq(a, b) == \A i \in 0 .. L - 1 : a[i] = b[i]
IsEven(a) == a[0] % 2 = 0

(* The complement of a, plus the order and one; zero is masked. *)
Masked(d, nonzero) == Words(LAMBDA i : IF nonzero THEN d[i] ELSE 0)
Complement(x) == 2^W - 1 - x
ScalarNegate(a) ==
    Masked(Carried(Words(LAMBDA i : Complement(a[i]) + OrderWords[i] + (IF i = 0 THEN 1 ELSE 0)), 2).d,
           ~IsZero(a))
(* The flag masks the complement and what is added. *)
CondNegate(a, flag) ==
    LET word(i) == IF flag THEN Complement(a[i]) + LowBits(OrderWords[i] + (IF i = 0 THEN 1 ELSE 0), W)
                   ELSE a[i]
    IN [r |-> Masked(Carried(Words(word), 2).d, ~IsZero(a)), sign |-> IF flag THEN -1 ELSE 1]

----------------------------------------------------------------------------
(* Products.  The columns of the product are summed in an accumulator of   *)
(* three words, from which the lowest is extracted after each.             *)
Mul512(a, b) ==
    Carried([k \in 0 .. 2 * L - 1 |-> Column(a, b, k)], 3).d

(* Products off the diagonal are taken once and added twice.               *)
Sqr512(a) ==
    Carried([k \in 0 .. 2 * L - 1 |-> SquareColumn(a, k, 3 * W)], 3).d

(* `count' words of low + high*NC, low being the first L words.            *)
Folded(low, high, count) ==
    Carried([k \in 0 .. count - 1 |-> (IF k < L THEN low[k] ELSE 0) + Column(high, NC, k)], 3).d
Above(l, n) == [i \in 0 .. n - L |-> l[L + i]] @@ << >>

(* What stands above the first L words is folded three times: what is left *)
(* above them has as many words as NC, then one of at most 2, then a carry *)
(* of at most 1.                                                           *)
TopOfNC == CHOOSE i \in DOMAIN NC : i + 1 \notin DOMAIN NC
To385(l) == Folded(l, Above(l, 2 * L - 1), L + TopOfNC + 1)
To258(m) == Folded(m, Above(m, L + TopOfNC), L + 1)
To256(p) == Folded(p, Above(p, L), L + 1)

Top(r) == Reduce(Words(LAMBDA i : r[i]), r[L] + Bit(CheckOverflow(r)))
Reduce512(l) == Top(To256(To258(To385(l))))

ScalarMul(a, b) == Reduce512(Mul512(a, b))
ScalarSqr(a) == Reduce512(Sqr512(a))

(* The word above gives its low bits to the one below. *)
ShrInt(a, n) ==
    [ret |-> LowBits(a[0], n),
     r |-> Words(LAMBDA i : Shifted(a[i], n)
                            + (IF i + 1 < L THEN LowBits(a[i + 1] * 2^(W - n), W) ELSE 0))]

Split128(a) ==
    [r1 |-> Words(LAMBDA i : IF 2 * i < L THEN a[i] ELSE 0),
     r2 |-> Words(LAMBDA i : IF 2 * i < L THEN a[i + L \div 2] ELSE 0)]

(* The product shifted by at least L words, and rounded by the last bit    *)
(* shifted out.                                                            *)
MulShiftVar(a, b, shift) ==
    LET l == Mul512(a, b)
        low == shift % W
        at(i) == shift \div W + i
        word(i) ==
            (IF at(i) < 2 * L THEN Shifted(l[at(i)], low) ELSE 0)
            + (IF at(i) + 1 < 2 * L /\ low > 0 THEN LowBits(l[at(i) + 1] * 2^(W - low), W) ELSE 0)
    IN CaddBit(Words(word), 0, Shifted(l[(shift - 1) \div W], (shift - 1) % W) % 2 = 1)

----------------------------------------------------------------------------
(* r1 + lambda*r2 is a; g1, g2 (scaled by 2^shift), b1 and b2 are those of *)
(* the short vectors that make r1 and r2 small.                            *)
SplitLambda(a, minusLambda, minusB1, minusB2, g1, g2, shift) ==
    LET c1 == ScalarMul(MulShiftVar(a, g1, shift), minusB1)
        c2 == ScalarMul(MulShiftVar(a, g2, shift), minusB2)
        parts(r2) == [r1 |-> ScalarAdd(ScalarMul(r2, minusLambda), a).r, r2 |-> r2]
    IN parts(ScalarAdd(c1, c2).r)
=============================================================================

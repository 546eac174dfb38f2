------------------------------- MODULE NumGmp -------------------------------
(***************************************************************************)
(* Any sequence of calls of num.h on two numbers, r and a, as              *)
(* num_gmp_impl.h holds them: a sign and as many words as the magnitude    *)
(* needs, at least one.  What GMP's mpn functions do to words is taken for *)
(* given.  rv and av are the integers meant.                               *)
(***************************************************************************)
EXTENDS Integers, Limbs

CONSTANTS W, NumLimbs,  \* bits of a word (64), words of a modulus (4)
          Start,        \* numbers to start from
          Moduli,       \* odd primes
          MaxCalls

VARIABLES r, a, rv, av, calls

vars == <<r, a, rv, av, calls>>

Num(limbs, v, neg) == [data |-> DigitsOf(v, limbs, W), limbs |-> limbs, neg |-> neg]
Magnitude(x) == ValueOf([i \in 0 .. x.limbs - 1 |-> x.data[i]], W)
Zero == Num(1, 0, FALSE)

(* Words of zero at the top are dropped, but for the last. *)
Trimmed(x) ==
    LET used == {k \in 1 .. x.limbs : k = 1 \/ x.data[k - 1] # 0}
    IN [x EXCEPT !.limbs = CHOOSE k \in used : \A j \in used : j <= k]

NumSetBin(v) == Trimmed(Num(2 * NumLimbs, v, FALSE))
NumGetBin(x) == Magnitude(x)

(* x has as many words as y, or more. *)
AddAbs(x, y, neg) ==
    LET sum == Magnitude(x) + Magnitude(y)
        carry == Shifted(sum, W * x.limbs)
    IN IF carry = 0 THEN Num(x.limbs, sum, neg) ELSE Num(x.limbs + 1, sum, neg)
(* x is at least y. *)
SubAbs(x, y, neg) == Trimmed(Num(x.limbs, Magnitude(x) - Magnitude(y), neg))

NumIsZero(x) == x.limbs = 1 /\ x.data[0] = 0
NumIsOne(x) == x.limbs = 1 /\ x.data[0] = 1
NumIsNeg(x) == (x.limbs > 1 \/ x.data[0] # 0) /\ x.neg
(* By magnitude only. *)
NumCmp(x, y) ==
    IF x.limbs > y.limbs THEN 1 ELSE IF x.limbs < y.limbs THEN -1
    ELSE IF Magnitude(x) > Magnitude(y) THEN 1 ELSE IF Magnitude(x) < Magnitude(y) THEN -1 ELSE 0
NumEq(x, y) ==
    /\ x.limbs = y.limbs
    /\ (x.neg /\ ~NumIsZero(x)) = (y.neg /\ ~NumIsZero(y))
    /\ Magnitude(x) = Magnitude(y)

Subadd(x, y, bneg) ==
    LET yneg == y.neg # bneg IN
    IF yneg = x.neg
    THEN IF x.limbs >= y.limbs THEN AddAbs(x, y, x.neg) ELSE AddAbs(y, x, x.neg)
    ELSE IF NumCmp(x, y) > 0 THEN SubAbs(x, y, x.neg) ELSE SubAbs(y, x, yneg)
NumAdd(x, y) == Subadd(x, y, FALSE)
NumSub(x, y) == Subadd(x, y, TRUE)

NumMul(x, y) ==
    LET limbs == x.limbs + y.limbs
        product == Num(limbs, Magnitude(x) * Magnitude(y), x.neg # y.neg)
    IN IF NumIsZero(x) \/ NumIsZero(y) THEN Zero
       ELSE IF product.data[limbs - 1] = 0 THEN [product EXCEPT !.limbs = limbs - 1] ELSE product

NumMod(x, m) ==
    LET t == IF x.limbs >= m.limbs
             THEN Trimmed(Num(m.limbs, Magnitude(x) % Magnitude(m), x.neg)) ELSE x
    IN IF t.neg /\ (t.limbs > 1 \/ t.data[0] # 0) THEN SubAbs(m, t, FALSE) ELSE t

(* mpn_gcdext gives the cofactor between -m/2 and m/2; a negative one is   *)
(* taken from m.                                                           *)
NumModInverse(x, m) ==
    LET u == ValueOf([i \in 0 .. m.limbs - 1 |-> IF i < x.limbs THEN x.data[i] ELSE 0], W)
        p == Magnitude(m)
        s == CHOOSE c \in (-(p \div 2)) .. p \div 2 : (u * c) % p = 1
        size(v) == CHOOSE k \in 1 .. m.limbs : v < 2^(W * k) /\ (k > 1 => v >= 2^(W * (k - 1)))
    IN IF s < 0 THEN Trimmed(Num(m.limbs, p + s, x.neg # m.neg)) ELSE Num(size(s), s, x.neg # m.neg)

(* Bits within words first, then whole words. *)
NumShift(x, bits) ==
    LET low == [x EXCEPT !.data = DigitsOf(Magnitude(x) \div 2^(bits % W), x.limbs, W)]
        by == bits \div W
    IN Trimmed([low EXCEPT !.data = [k \in 0 .. x.limbs - 1 |->
                                        IF k + by < x.limbs THEN low.data[k + by] ELSE 0]])
NumNegate(x) == [x EXCEPT !.neg = ~@]

(* The Jacobi symbol of a number modulo a prime. *)
NumJacobi(x, m) ==
    LET p == Magnitude(m)
        v == (IF x.neg THEN 0 - Magnitude(x) ELSE Magnitude(x)) % p
    IN IF v = 0 THEN 0 ELSE IF \E q \in 1 .. p - 1 : (q * q) % p = v THEN 1 ELSE -1

----------------------------------------------------------------------------
Abs(v) == IF v < 0 THEN -v ELSE v
Modulus(p) == NumSetBin(p)

Init ==
    \E v \in Start, w \in Start :
        r = NumSetBin(v) /\ rv = v /\ a = NumSetBin(w) /\ av = w /\ calls = 0

Result(x, v) == calls < MaxCalls /\ calls' = calls + 1 /\ r' = x /\ rv' = v /\ UNCHANGED <<a, av>>

Room(v) == Abs(v) < 2^(2 * NumLimbs * W)
Add == Room(rv + av) /\ Result(NumAdd(r, a), rv + av)
Sub == Room(rv - av) /\ Result(NumSub(r, a), rv - av)
Mul == /\ r.limbs <= NumLimbs /\ a.limbs <= NumLimbs
       /\ Result(NumMul(r, a), rv * av)
Mod == \E p \in Moduli : Result(NumMod(r, Modulus(p)), rv % p)
(* The inverse of a number below the modulus and without a common factor.  *)
ModInverse == \E p \in Moduli :
    /\ rv \in 1 .. p - 1
    /\ Result(NumModInverse(r, Modulus(p)), CHOOSE q \in 1 .. p - 1 : (q * rv) % p = 1)
Shift == \E bits \in {1, W - 1, W, W + 1, 2 * W} :
    Result(NumShift(r, bits), IF rv < 0 THEN -(Abs(rv) \div 2^bits) ELSE rv \div 2^bits)
Negate == Result(NumNegate(r), -rv)
Swap == calls < MaxCalls /\ calls' = calls + 1 /\ r' = a /\ rv' = av /\ a' = r /\ av' = rv

Next == Add \/ Sub \/ Mul \/ Mod \/ ModInverse \/ Shift \/ Negate \/ Swap

Spec == Init /\ [][Next]_vars

----------------------------------------------------------------------------
Stands(x, v) ==
    /\ Magnitude(x) = Abs(v)
    /\ x.limbs > 1 => x.data[x.limbs - 1] # 0
    /\ x.limbs <= 2 * NumLimbs
    /\ NumIsZero(x) <=> v = 0
    /\ NumIsOne(x) <=> Abs(v) = 1
    /\ NumIsNeg(x) <=> v < 0
    /\ NumGetBin(x) = Abs(v)
    /\ \A p \in Moduli :
        NumJacobi(x, Modulus(p)) = IF v % p = 0 THEN 0
                                   ELSE IF \E q \in 1 .. p - 1 : (q * q) % p = v % p THEN 1 ELSE -1

(* A number stands for the integer meant after any calls, without zero     *)
(* words on top, and is compared as that integer (cmp: as its magnitude).  *)
Exact ==
    /\ Stands(r, rv) /\ Stands(a, av)
    /\ NumEq(r, a) <=> rv = av
    /\ NumCmp(r, a) = IF Abs(rv) > Abs(av) THEN 1 ELSE IF Abs(rv) < Abs(av) THEN -1 ELSE 0
=============================================================================

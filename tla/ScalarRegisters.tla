-------------------------- MODULE ScalarRegisters --------------------------
(***************************************************************************)
(* Any sequence of calls of scalar.h on two scalars, r and a; rv and av    *)
(* are the numbers below the order that they stand for.                    *)
(***************************************************************************)
EXTENDS Integers, Limbs

CONSTANTS Order, L, W,      \* L words of W bits
          ScalarSetB32(_), ScalarGetB32(_), ScalarSetInt(_), ScalarClear,
          CheckOverflow(_), IsZero(_), IsOne(_), IsEven(_), IsHigh(_), ScalarEq(_, _),
          ScalarNegate(_), CondNegate(_, _), ScalarAdd(_, _), CaddBit(_, _, _),
          ScalarMul(_, _), ScalarSqr(_), ShrInt(_, _), Split128(_), MulShiftVar(_, _, _),
          GetBitsVar(_, _, _), SplitLambda(_, _, _, _, _, _, _)

CONSTANTS Start,        \* numbers to start from, the order and above included
          MaxCalls,
          Lambda, B1, B2,   \* a1 + B1*Lambda and a2 + B2*Lambda are 0, and short
          SplitShift, G1, G2    \* 2^SplitShift*B2/Order and -2^SplitShift*B1/Order

VARIABLES r, a, rv, av, calls

regs == <<r, a, rv, av, calls>>

Init ==
    \E v \in Start, w \in Start :
        /\ r = ScalarSetB32(v).r /\ rv = v % Order
        /\ a = ScalarSetB32(w).r /\ av = w % Order
        /\ calls = 0

Call == calls < MaxCalls /\ calls' = calls + 1
Result(d, v) == Call /\ r' = d /\ rv' = v /\ UNCHANGED <<a, av>>

SetInt == \E v \in 0 .. 1 : Result(ScalarSetInt(v), v)
Clear == Result(ScalarClear, 0)
Negate == Result(ScalarNegate(r), (Order - rv) % Order)
CondNegateBy == \E flag \in BOOLEAN :
    Result(CondNegate(r, flag).r, IF flag THEN (Order - rv) % Order ELSE rv)
Add == Result(ScalarAdd(r, a).r, (rv + av) % Order)
(* The sum is to stay below the order. *)
Cadd == \E bit \in {0, W - 1, W, L * W - 1}, flag \in BOOLEAN :
    /\ rv + 2^bit < Order
    /\ Result(CaddBit(r, bit, flag), IF flag THEN rv + 2^bit ELSE rv)
Mul == Result(ScalarMul(r, a), TimesMod(rv, av, Order))
Sqr == Result(ScalarSqr(r), TimesMod(rv, rv, Order))
Shr == \E n \in 1 .. W - 1 : Result(ShrInt(r, n).r, rv \div 2^n)
Split == Result(Split128(r).r2, rv \div 2^((L * W) \div 2))
Swap == Call /\ r' = a /\ rv' = av /\ a' = r /\ av' = rv

Next == \/ SetInt \/ Clear \/ Negate \/ CondNegateBy \/ Add \/ Cadd
        \/ Mul \/ Sqr \/ Shr \/ Split \/ Swap

Spec == Init /\ [][Next]_regs

----------------------------------------------------------------------------
Words0(v) == DigitsOf(v % Order, L, W)

(* The nearest integer to x*y/2^shift, from the halves of x and y.         *)
RoundedProduct(x, y, shift) ==
    LET h == (L * W) \div 2
        middle == Shifted(x, h) * LowBits(y, h) + LowBits(x, h) * Shifted(y, h)
                  + Shifted(LowBits(x, h) * LowBits(y, h), h)
        twice == 2 * Shifted(x, h) * Shifted(y, h) + Shifted(middle, h - 1)
    IN (twice + 2^(shift - 2 * h)) \div 2^(shift - 2 * h + 1)

(* Two of the bits at a time, at every offset. *)
BitsExact ==
    \A offset \in 0 .. L * W - 1, count \in 1 .. W :
        offset + count <= L * W =>
            GetBitsVar(r, offset, count) = LowBits(Shifted(rv, offset), count)

(* The parts that split_lambda makes are short and give the scalar back.   *)
SplitInto(v1, v2) ==
    LET short(v) == v < 2^((L * W) \div 2 + 1) \/ Order - v < 2^((L * W) \div 2 + 1)
    IN /\ (v1 + TimesMod(v2, Lambda, Order)) % Order = rv
       /\ short(v1) /\ short(v2)
PartsExact(s) == SplitInto(ValueOf(s.r1, W), ValueOf(s.r2, W))
SplitExact ==
    PartsExact(SplitLambda(r, Words0(Order - Lambda), Words0(Order - B1), Words0(Order - B2),
                           DigitsOf(G1, L, W), DigitsOf(G2, L, W), SplitShift))

Exact ==
    /\ ScalarGetB32(r) = rv /\ ScalarGetB32(a) = av
    /\ ~CheckOverflow(r)
    /\ IsZero(r) <=> rv = 0
    /\ IsOne(r) <=> rv = 1
    /\ IsEven(r) <=> rv % 2 = 0
    /\ IsHigh(r) <=> rv > Order \div 2
    /\ ScalarEq(r, a) <=> rv = av
    /\ ScalarAdd(r, a).overflow = IF rv + av >= Order THEN 1 ELSE 0
    /\ CondNegate(r, TRUE).sign = -1
    /\ ValueOf(Split128(r).r1, W) = LowBits(rv, (L * W) \div 2)
    /\ \A n \in 1 .. W - 1 : ShrInt(r, n).ret = LowBits(rv, n)
    /\ \A shift \in L * W .. 2 * L * W - 1 :
        ValueOf(MulShiftVar(r, a, shift), W) = RoundedProduct(rv, av, shift)
    /\ BitsExact
    /\ SplitExact
=============================================================================

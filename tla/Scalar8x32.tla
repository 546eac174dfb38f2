----------------------------- MODULE Scalar8x32 -----------------------------
(***************************************************************************)
(* The operations of scalar_8x32_impl.h, the file compiled where there are *)
(* no 128-bit integers: those of scalar_4x64_impl.h over eight words, with *)
(* an NC of five.                                                          *)
(***************************************************************************)
EXTENDS Integers

CONSTANTS W, NC

S == INSTANCE Scalar WITH L <- 8

Order == S!Order

ScalarClear == S!ScalarClear
ScalarSetInt(v) == S!ScalarSetInt(v)
ScalarSetB32(v) == S!ScalarSetB32(v)
ScalarGetB32(a) == S!ScalarGetB32(a)

GetBitsVar(a, offset, count) == S!GetBitsVar(a, offset, count)
CheckOverflow(a) == S!CheckOverflow(a)
IsHigh(a) == S!IsHigh(a)
IsZero(a) == S!IsZero(a)
IsOne(a) == S!IsOne(a)
ScalarEq(a, b) == S!ScalarEq(a, b)

Reduce(a, overflow) == S!Reduce(a, overflow)
ScalarAdd(a, b) == S!ScalarAdd(a, b)
CaddBit(a, bit, flag) == S!CaddBit(a, bit, flag)
ScalarNegate(a) == S!ScalarNegate(a)
CondNegate(a, flag) == S!CondNegate(a, flag)

(* From sixteen words to thirteen, to nine, and to eight with a carry.     *)
Reduce512(l) ==
    LET m == S!Folded(l, S!Above(l, 15), 13)
        p == S!Folded(m, S!Above(m, 12), 9)
        r == S!Folded(p, S!Above(p, 8), 9)
    IN Reduce(S!Words(LAMBDA i : r[i]), r[8] + S!Bit(CheckOverflow(r)))

ScalarMul(a, b) == Reduce512(S!Mul512(a, b))
ScalarSqr(a) == Reduce512(S!Sqr512(a))
ShrInt(a, n) == S!ShrInt(a, n)
Split128(a) == S!Split128(a)
MulShiftVar(a, b, shift) == S!MulShiftVar(a, b, shift)
=============================================================================

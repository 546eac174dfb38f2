-------------------------------- MODULE Vli --------------------------------
(***************************************************************************)
(* The multi-word integers of uECC.c, arrays of words, the lowest first,   *)
(* that every function is told the length of; the reductions modulo the    *)
(* primes of its curves (curve-specific.h); and any sequence of calls of   *)
(* its modular arithmetic.                                                 *)
(***************************************************************************)
EXTENDS Integers, FiniteSetsExt, Limbs, TLC, Sequences

CONSTANTS W,            \* bits of a word
          ByteBits      \* bits of a byte; a word has W \div ByteBits of them

Bit(b) == IF b THEN 1 ELSE 0

(* The first n words of x, and the words of x from word k on. *)
First(x, n) == [i \in 0 .. n - 1 |-> x[i]] @@ << >>
From(x, k, n) == [i \in 0 .. n - 1 |-> x[k + i]] @@ << >>

(* step(i, c) is the word put at i and what is carried on, given what was  *)
(* carried from below.                                                     *)
Upward(n, step(_, _)) ==
    LET go[i \in 0 .. n] ==
            IF i = 0 THEN [d |-> << >>, c |-> 0]
            ELSE LET low == go[i - 1]
                     here == step(i - 1, low.c)
                 IN [d |-> low.d @@ ((i - 1) :> here[1]), c |-> here[2]]
    IN go[n]

(* step(s) is the next state of a loop, repeated until done(s), `most'     *)
(* times at most; eight at a time, so that the recursion stays shallow.    *)
Repeat(s0, done(_), step(_), most) ==
    LET eight(s) ==
            LET go[i \in 0 .. 8] ==
                    IF i = 0 THEN s ELSE LET t == go[i - 1] IN IF done(t) THEN t ELSE step(t)
            IN go[8]
        eights[i \in 0 .. most \div 8 + 1] ==
            IF i = 0 THEN s0 ELSE LET s == eights[i - 1] IN IF done(s) THEN s ELSE eight(s)
    IN eights[most \div 8 + 1]

VliClear(n) == [i \in 0 .. n - 1 |-> 0]
VliSmall(v, n) == [i \in 0 .. n - 1 |-> IF i = 0 THEN v ELSE 0] @@ << >>
VliIsZero(x, n) == \A i \in 0 .. n - 1 : x[i] = 0
TestBit(x, bit) == Shifted(x[bit \div W], bit % W) % 2 = 1

(* The digits up to the last that is not zero, and the bits of that one.   *)
NumDigits(x, n) ==
    CHOOSE d \in 0 .. n : /\ d > 0 => x[d - 1] # 0
                          /\ \A i \in d .. n - 1 : x[i] = 0
NumBits(x, n) ==
    LET d == NumDigits(x, n) IN
    IF d = 0 THEN 0
    ELSE (d - 1) * W + CHOOSE k \in 1 .. W : 2^(k - 1) <= x[d - 1] /\ x[d - 1] < 2^k

(* Words are compared from the top: the first that differs tells.          *)
CmpUnsafe(l, r, n) ==
    LET differ == {i \in 0 .. n - 1 : l[i] # r[i]} IN
    IF differ = {} THEN 0
    ELSE LET top == CHOOSE i \in differ : \A j \in differ : j <= i
         IN IF l[top] > r[top] THEN 1 ELSE -1
VliEqual(l, r, n) == \A i \in 0 .. n - 1 : l[i] = r[i]

----------------------------------------------------------------------------
(* A carry is seen by the sum being smaller than the left word; when they  *)
(* are equal, what was added is zero or a whole word, and the carry stays. *)
VliAdd(l, r, n) ==
    Upward(n, LAMBDA i, c :
        LET sum == LowBits(l[i] + r[i] + c, W)
        IN <<sum, IF sum # l[i] THEN Bit(sum < l[i]) ELSE c>>)
VliSub(l, r, n) ==
    Upward(n, LAMBDA i, c :
        LET diff == (l[i] - r[i] - c) % 2^W
        IN <<diff, IF diff # l[i] THEN Bit(diff > l[i]) ELSE c>>)

(* The sign comes from the borrow of a subtraction. *)
VliCmp(l, r, n) ==
    LET diff == VliSub(l, r, n)
    IN Bit(~VliIsZero(diff.d, n)) - 2 * diff.c

(* Each word gives its low bit to the top of the word below.               *)
RShift1(x, n) ==
    [i \in 0 .. n - 1 |->
        x[i] \div 2 + (IF i + 1 < n THEN (x[i + 1] % 2) * 2^(W - 1) ELSE 0)] @@ << >>

(* Columns of products are summed in three words, r0, r1 and r2, and r0 is *)
(* taken out after each.                                                   *)
Columns(column(_), n) ==
    Upward(2 * n, LAMBDA k, high :
        LET r == LowBits((IF k < 2 * n - 1 THEN column(k) ELSE 0) + high, 3 * W)
        IN <<LowBits(r, W), Shifted(r, W)>>).d
VliMult(l, r, n) == Columns(LAMBDA k : Column(First(l, n), First(r, n), k), n)
VliSquare(l, n) == Columns(LAMBDA k : SquareColumn(First(l, n), k, 3 * W), n)

\* Mutant: a carry out of the highest word is forgotten.
ModAddWithoutCarry(l, r, mod, n) ==
    LET sum == VliAdd(l, r, n) IN
    IF CmpUnsafe(mod, sum.d, n) # 1 THEN VliSub(sum.d, mod, n).d ELSE sum.d

ModAdd(l, r, mod, n) ==
    LET sum == VliAdd(l, r, n) IN
    IF sum.c = 1 \/ CmpUnsafe(mod, sum.d, n) # 1 THEN VliSub(sum.d, mod, n).d ELSE sum.d
ModSub(l, r, mod, n) ==
    LET diff == VliSub(l, r, n) IN
    IF diff.c = 1 THEN VliAdd(diff.d, mod, n).d ELSE diff.d

(* The modulus, shifted so that its top bit is the top bit of 2n words, is *)
(* taken off when it can be, and shifted down by one.                      *)
VliMmod(product, mod, n) ==
    LET shift == 2 * n * W - NumBits(mod, n)
        up == shift % W
        multiple == [i \in 0 .. 2 * n - 1 |->
            LET at == i - shift \div W IN
            IF at < 0 THEN 0
            ELSE LowBits(mod[at] * 2^up, W) + (IF at = 0 THEN 0 ELSE Shifted(mod[at - 1], W - up))]
            @@ << >>
        Turn(s) ==
            LET diff == VliSub(s.v, s.multiple, 2 * n)
            IN [v |-> IF diff.c = 1 THEN s.v ELSE diff.d,
                multiple |-> RShift1(s.multiple, 2 * n), shift |-> s.shift - 1]
    IN First(Repeat([v |-> product, multiple |-> multiple, shift |-> shift],
                    LAMBDA s : s.shift < 0, Turn, shift + 1).v, n)

ModMult(l, r, mod, n) == VliMmod(VliMult(l, r, n), mod, n)
ModSquare(l, mod, n) == VliMmod(VliSquare(l, n), mod, n)

----------------------------------------------------------------------------
Even(x) == x[0] % 2 = 0

(* u/2 modulo an odd number; the carry of the addition becomes the top bit *)
ModInvUpdate(u, mod, n) ==
    LET sum == IF Even(u) THEN [d |-> u, c |-> 0] ELSE VliAdd(u, mod, n)
        half == RShift1(sum.d, n)
    IN [half EXCEPT ![n - 1] = @ + sum.c * 2^(W - 1)]

(* a = u*input and b = v*input all along, and a and b shrink to 1.         *)
ModInv(input, mod, n) ==
    LET Less(x, y) == LET wide == IF CmpUnsafe(x, y, n) < 0 THEN VliAdd(x, mod, n).d ELSE x
                      IN ModInvUpdate(VliSub(wide, y, n).d, mod, n)
        Halves(x, y) == RShift1(VliSub(x, y, n).d, n)
        Turn(s) ==
            CASE Even(s.a) ->
                   [s EXCEPT !.a = RShift1(@, n), !.u = ModInvUpdate(@, mod, n)]
              [] ~Even(s.a) /\ Even(s.b) ->
                   [s EXCEPT !.b = RShift1(@, n), !.v = ModInvUpdate(@, mod, n)]
              [] ~Even(s.a) /\ ~Even(s.b) /\ CmpUnsafe(s.a, s.b, n) > 0 ->
                   [s EXCEPT !.a = Halves(@, s.b), !.u = Less(@, s.v)]
              [] OTHER ->
                   [s EXCEPT !.b = Halves(@, s.a), !.v = Less(@, s.u)]
    IN IF VliIsZero(input, n) THEN VliClear(n)
       ELSE Repeat([a |-> input, b |-> mod, u |-> VliSmall(1, n), v |-> VliClear(n)],
                   LAMBDA s : CmpUnsafe(s.a, s.b, n) = 0, Turn, 2 * n * W).u

----------------------------------------------------------------------------
(* Bytes go the other way: the first is the highest.                       *)
WordBytes == W \div ByteBits
NativeToBytes(x, count) ==
    [i \in 0 .. count - 1 |->
        LET b == count - 1 - i
        IN LowBits(Shifted(x[b \div WordBytes], ByteBits * (b % WordBytes)), ByteBits)] @@ << >>
BytesToNative(bytes, count) ==
    [w \in 0 .. (count + WordBytes - 1) \div WordBytes - 1 |->
        MapThenSumSet(LAMBDA b : bytes[count - 1 - b] * 2^(ByteBits * (b % WordBytes)),
                      {b \in 0 .. count - 1 : b \div WordBytes = w})] @@ << >>

----------------------------------------------------------------------------
(***************************************************************************)
(* The reductions of curve-specific.h: a product of 2n words is brought    *)
(* below a prime that is a sum of a few powers of two, by adding its own   *)
(* pieces of Unit bits (32 in the code) to each other.  Words are of one   *)
(* unit in the build for 32 bits and of two in the one for 64 bits; where  *)
(* the code has a version for each, both are here.                         *)
(***************************************************************************)
CONSTANTS Unit,
          OmegaK1       \* 2^32 - 977 in secp256k1 is 2^Unit - OmegaK1 here

Prime160 == 2^(5 * Unit) - 2^(Unit - 1) - 1
Prime192 == 2^(6 * Unit) - 2^(2 * Unit) - 1
Prime224 == 2^(7 * Unit) - 2^(3 * Unit) + 1
Prime256 == 2^(8 * Unit) - 2^(7 * Unit) + 2^(6 * Unit) + 2^(3 * Unit) - 1
PrimeK1  == 2^(8 * Unit) - 2^Unit - OmegaK1

NumWords(bits) == (bits + W - 1) \div W
Tmp(words) == [i \in 0 .. Len(words) - 1 |-> words[i + 1]] @@ << >>

(* Half words, as the masks and shifts of the 64-bit versions take them.   *)
Lo(x) == LowBits(x, Unit)
Hi(x) == Shifted(x, Unit)
HiInPlace(x) == Hi(x) * 2^Unit
LoUp(x) == Lo(x) * 2^Unit
Across(p, i) == Hi(p[i]) + LoUp(p[i + 1])

(* What is added to the result, once or twice, and what is taken off it;   *)
(* the carry of all is kept beside it.                                     *)
Plus(words) == [sign |-> 1, words |-> Tmp(words), carry |-> 0]
Minus(words) == [sign |-> -1, words |-> Tmp(words), carry |-> 0]
Twice(words) ==
    LET t == VliAdd(Tmp(words), Tmp(words), Len(words))
    IN [sign |-> 1, words |-> t.d, carry |-> t.c]

Total(start, terms, n) ==
    LET go[k \in 0 .. Len(terms)] ==
            IF k = 0 THEN [d |-> First(start, n), carry |-> 0]
            ELSE LET s == go[k - 1]
                     t == terms[k]
                     sum == IF t.sign = 1 THEN VliAdd(s.d, t.words, n) ELSE VliSub(s.d, t.words, n)
                 IN [d |-> sum.d, carry |-> s.carry + t.carry + t.sign * sum.c]
    IN go[Len(terms)]

(* The prime is added until nothing is owed, or taken off while there is a *)
(* carry or the result reaches it.                                         *)
Settled(s, prime, n) ==
    LET p == DigitsOf(prime, n, W)
        Up(t) == LET sum == VliAdd(t.d, p, n) IN [d |-> sum.d, carry |-> t.carry + sum.c]
        Down(t) == LET diff == VliSub(t.d, p, n) IN [d |-> diff.d, carry |-> t.carry - diff.c]
    IN IF s.carry < 0
       THEN Repeat(s, LAMBDA t : t.carry >= 0, Up, 8).d
       ELSE Repeat(s, LAMBDA t : t.carry = 0 /\ CmpUnsafe(p, t.d, n) = 1, Down, 8).d

----------------------------------------------------------------------------
MmodFast192For32(p) ==
    Settled(Total(p, << Plus(<<p[6], p[7], p[8], p[9], p[10], p[11]>>),
                        Plus(<<0, 0, p[6], p[7], p[8], p[9]>>),
                        Plus(<<p[10], p[11], p[10], p[11], 0, 0>>) >>, 6), Prime192, 6)
MmodFast192For64(p) ==
    Settled(Total(p, << Plus(<<p[3], p[4], p[5]>>),
                        Plus(<<0, p[3], p[4]>>),
                        Plus(<<p[5], p[5], 0>>) >>, 3), Prime192, 3)

MmodFast224For32(p) ==
    Settled(Total(p, << Plus(<<0, 0, 0, p[7], p[8], p[9], p[10]>>),
                        Plus(<<0, 0, 0, p[11], p[12], p[13], 0>>),
                        Minus(<<p[7], p[8], p[9], p[10], p[11], p[12], p[13]>>),
                        Minus(<<p[11], p[12], p[13], 0, 0, 0, 0>>) >>, 7), Prime224, 7)
(* The four words have a half word to spare, which takes the carries of    *)
(* the additions.                                                          *)
MmodFast224For64(p) ==
    Settled(Total([p EXCEPT ![3] = Lo(@)],
                  << Plus(<<0, HiInPlace(p[3]), p[4], Lo(p[5])>>),
                     Plus(<<0, HiInPlace(p[5]), p[6], 0>>),
                     Minus(<<Across(p, 3), Across(p, 4), Across(p, 5), Hi(p[6])>>),
                     Minus(<<Across(p, 5), Hi(p[6]), 0, 0>>) >>, 4), Prime224, 4)

MmodFast256For32(p) ==
    Settled(Total(p, << Twice(<<0, 0, 0, p[11], p[12], p[13], p[14], p[15]>>),
                        Twice(<<0, 0, 0, p[12], p[13], p[14], p[15], 0>>),
                        Plus(<<p[8], p[9], p[10], 0, 0, 0, p[14], p[15]>>),
                        Plus(<<p[9], p[10], p[11], p[13], p[14], p[15], p[13], p[8]>>),
                        Minus(<<p[11], p[12], p[13], 0, 0, 0, p[8], p[10]>>),
                        Minus(<<p[12], p[13], p[14], p[15], 0, 0, p[9], p[11]>>),
                        Minus(<<p[13], p[14], p[15], p[8], p[9], p[10], 0, p[12]>>),
                        Minus(<<p[14], p[15], 0, p[9], p[10], p[11], 0, p[13]>>) >>, 8),
            Prime256, 8)
MmodFast256For64(p) ==
    Settled(Total(p, << Twice(<<0, HiInPlace(p[5]), p[6], p[7]>>),
                        Twice(<<0, LoUp(p[6]), Across(p, 6), Hi(p[7])>>),
                        Plus(<<p[4], Lo(p[5]), 0, p[7]>>),
                        Plus(<<Across(p, 4), Hi(p[5]) + HiInPlace(p[6]), p[7], Hi(p[6]) + LoUp(p[4])>>),
                        Minus(<<Across(p, 5), Hi(p[6]), 0, Lo(p[4]) + LoUp(p[5])>>),
                        Minus(<<p[6], p[7], 0, Hi(p[4]) + HiInPlace(p[5])>>),
                        Minus(<<Across(p, 6), Hi(p[7]) + LoUp(p[4]), Across(p, 4), LoUp(p[6])>>),
                        Minus(<<p[7], HiInPlace(p[4]), p[5], HiInPlace(p[6])>>) >>, 4),
            Prime256, 4)

----------------------------------------------------------------------------
(* secp160r1 and secp256k1: what stands above the prime's bits is          *)
(* multiplied by omega, 2^bits modulo the prime, and added; then so is     *)
(* what that makes above them.                                             *)

(* The carries of the last additions are the multiples to take off, and    *)
(* then the prime itself once more while it is smaller.                    *)
TakenOff(d, carry, p, n) ==
    LET rest == Repeat([d |-> d, left |-> carry], LAMBDA s : s.left = 0,
                       LAMBDA s : [d |-> VliSub(s.d, p, n).d, left |-> s.left - 1], 2).d
    IN IF CmpUnsafe(rest, p, n) > 0 THEN VliSub(rest, p, n).d ELSE rest

TwoRounds(product, Omega(_), prime, n) ==
    LET q == Omega(From(product, n, n))
        r == VliAdd(product, q, n)
        rest == VliAdd(r.d, Omega(From(q, n, n)), n)
    IN TakenOff(rest.d, r.c + rest.c, DigitsOf(prime, n, W), n)

(* 2^31 + 1: a word and a half word up, then half of it down.              *)
Omega160For32(right) ==
    LET n == 5
        half == RShift1(right, n)
        up == [i \in 0 .. n |-> IF i = 0 THEN (right[0] % 2) * 2^(W - 1) ELSE half[i - 1]] @@ << >>
        low == VliAdd(up, right, n)
        top == VliAdd(From(up, n, 1), VliSmall(low.c, 1), 1)
    IN low.d @@ (n :> top.d[0]) @@ [i \in n + 1 .. 2 * n - 1 |-> IF i = n + 1 THEN top.c ELSE 0]
MmodFast160For32(p) == TwoRounds(p, Omega160For32, Prime160, 5)

(* The upper half of the product starts in the middle of a word; the carry *)
(* is what the shift pushes out and what the sum overflows by.             *)
Omega160For64(right) ==
    LET made == Upward(3, LAMBDA i, c :
            LET tmp == Across(right, i)
                sum == LowBits(tmp * 2^(Unit - 1) + tmp + c, W)
            IN <<sum, Shifted(tmp, Unit + 1) + Bit(sum < tmp \/ (c > 0 /\ sum = tmp))>>)
    IN made.d @@ (3 :> made.c) @@ [i \in 4 .. 5 |-> 0]
MmodFast160For64(p) ==
    LET low == [p EXCEPT ![2] = Lo(@)]
        tmp == Omega160For64(From(p, 2, 4))
        r == VliAdd(low, [tmp EXCEPT ![2] = Lo(@)], 3).d
        rest == VliAdd(r, Omega160For64(From(tmp, 2, 4)), 3).d
        prime == DigitsOf(Prime160, 3, W)
    IN Repeat(rest, LAMBDA d : CmpUnsafe(d, prime, 3) <= 0,
              LAMBDA d : VliSub(d, prime, 3).d, 8)

(* 2^32 + 977: in words of a unit, 977 times the word and the word below.  *)
OmegaK1For32(right) ==
    LET n == 8
        made == Upward(n, LAMBDA k, c :
            LET p == OmegaK1 * right[k] + c IN <<LowBits(p, W), Shifted(p, W)>>)
        low == made.d @@ (n :> made.c)
        sum == VliAdd(From(low, 1, n), right, n)
    IN [i \in 0 .. 2 * n - 1 |->
            CASE i = 0 -> low[0] [] i \in 1 .. n -> sum.d[i - 1] [] i = n + 1 -> sum.c [] OTHER -> 0]
       @@ << >>
OmegaK1For64(right) ==
    LET n == 4
        made == Upward(n, LAMBDA k, c :
            LET r == (2^Unit + OmegaK1) * right[k] + c IN <<LowBits(r, W), Shifted(r, W)>>)
    IN made.d @@ (n :> made.c) @@ [i \in n + 1 .. 2 * n - 1 |-> 0]
MmodFastK1(p) ==
    IF W = Unit THEN TwoRounds(p, OmegaK1For32, PrimeK1, 8)
    ELSE TwoRounds(p, OmegaK1For64, PrimeK1, 4)

----------------------------------------------------------------------------
(* The curve's own reduction, as its structure names it.                   *)
MmodFast(curve, p) ==
    LET narrow == W = Unit IN
    CASE curve = "secp160r1" -> IF narrow THEN MmodFast160For32(p) ELSE MmodFast160For64(p)
      [] curve = "secp192r1" -> IF narrow THEN MmodFast192For32(p) ELSE MmodFast192For64(p)
      [] curve = "secp224r1" -> IF narrow THEN MmodFast224For32(p) ELSE MmodFast224For64(p)
      [] curve = "secp256r1" -> IF narrow THEN MmodFast256For32(p) ELSE MmodFast256For64(p)
      [] curve = "secp256k1" -> MmodFastK1(p)

PrimeOf == ("secp160r1" :> Prime160) @@ ("secp192r1" :> Prime192) @@ ("secp224r1" :> Prime224)
           @@ ("secp256r1" :> Prime256) @@ ("secp256k1" :> PrimeK1)
UnitsOf == ("secp160r1" :> 5) @@ ("secp192r1" :> 6) @@ ("secp224r1" :> 7)
          @@ ("secp256r1" :> 8) @@ ("secp256k1" :> 8)
Curves == DOMAIN PrimeOf

ModMultFast(curve, l, r) ==
    MmodFast(curve, VliMult(l, r, NumWords(UnitsOf[curve] * Unit)))
ModSquareFast(curve, l) ==
    MmodFast(curve, VliSquare(l, NumWords(UnitsOf[curve] * Unit)))

----------------------------------------------------------------------------
(***************************************************************************)
(* Any sequence of calls of uECC.c's modular arithmetic on two numbers, r  *)
(* and a, below the prime of a curve; rv and av are what they stand for.   *)
(***************************************************************************)
CONSTANTS Starts(_),    \* numbers below a prime to start from
          MaxCalls

VARIABLES curve, r, a, rv, av, calls

regs == <<curve, r, a, rv, av, calls>>

n == NumWords(UnitsOf[curve] * Unit)
p == PrimeOf[curve]
mod == DigitsOf(p, n, W) @@ << >>

Init ==
    /\ curve \in Curves
    /\ \E v \in Starts(p), w \in Starts(p) :
        /\ rv = v /\ r = DigitsOf(v, n, W) @@ << >>
        /\ av = w /\ a = DigitsOf(w, n, W) @@ << >>
    /\ calls = 0

Result(d, v) ==
    calls < MaxCalls /\ calls' = calls + 1 /\ r' = d /\ rv' = v /\ UNCHANGED <<curve, a, av>>

(* The prime of a curve divides no product of smaller numbers but zero;    *)
(* the moduli of the model need not be prime, and such products are left   *)
(* out, as are numbers without an inverse.                                 *)
AsOfPrime(v, w) == TimesMod(v, w, p) = 0 => v = 0 \/ w = 0
Gcd(x, y) ==
    Repeat([x |-> x, y |-> y], LAMBDA s : s.y = 0, LAMBDA s : [x |-> s.y, y |-> s.x % s.y], 40).x

Add == Result(ModAdd(r, a, mod, n), (rv + av) % p)
Sub == Result(ModSub(r, a, mod, n), (rv - av) % p)
Mult == Result(ModMult(r, a, mod, n), TimesMod(rv, av, p))
Square == Result(ModSquare(r, mod, n), TimesMod(rv, rv, p))
MultFast == AsOfPrime(rv, av) /\ Result(ModMultFast(curve, r, a), TimesMod(rv, av, p))
SquareFast == AsOfPrime(rv, rv) /\ Result(ModSquareFast(curve, r), TimesMod(rv, rv, p))
Halve == Result(ModInvUpdate(r, mod, n), IF rv % 2 = 0 THEN rv \div 2 ELSE (rv + p) \div 2)
(* What the inverse must be is known by its product with the number.       *)
Invert ==
    /\ Gcd(p, rv) \in {1, p}
    /\ LET d == ModInv(r, mod, n)
           v == ValueOf(d, W)
       IN /\ Result(d, IF TimesMod(v, rv, p) = (IF rv = 0 THEN 0 ELSE 1) THEN v ELSE p)
ByBytes ==
    LET count == (n * W) \div ByteBits
    IN Result(BytesToNative(NativeToBytes(r, count), count), rv)
Swap ==
    /\ calls < MaxCalls /\ calls' = calls + 1
    /\ r' = a /\ rv' = av /\ a' = r /\ av' = rv /\ UNCHANGED curve

Next == \/ Add \/ Sub \/ Mult \/ Square \/ MultFast \/ SquareFast \/ Halve \/ Invert
        \/ ByBytes \/ Swap

Spec == Init /\ [][Next]_regs

----------------------------------------------------------------------------
Sign(x) == IF x > 0 THEN 1 ELSE IF x < 0 THEN -1 ELSE 0

(* The registers hold the numbers they stand for, below the prime, and the *)
(* comparisons and bit counts are those of the numbers.                    *)
Exact ==
    /\ ValueOf(r, W) = rv /\ ValueOf(a, W) = av
    /\ rv < p /\ av < p
    /\ VliIsZero(r, n) <=> rv = 0
    /\ VliEqual(r, a, n) <=> rv = av
    /\ VliCmp(r, a, n) = Sign(rv - av)
    /\ CmpUnsafe(r, a, n) = Sign(rv - av)
    /\ rv < 2^NumBits(r, n) /\ (rv > 0 => 2^(NumBits(r, n) - 1) <= rv)
    /\ \A bit \in 0 .. n * W - 1 : TestBit(r, bit) <=> Shifted(rv, bit) % 2 = 1
    /\ VliCmp(RShift1(r, n), r, n) = Sign(rv \div 2 - rv)
=============================================================================

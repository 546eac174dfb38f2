------------------------------ MODULE EcMult -------------------------------
(***************************************************************************)
(* The curve of secp256k1: field elements as the code above field.h sees   *)
(* them, points and their formulas (group_impl.h), and multiples of points *)
(* (ecmult_impl.h, ecmult_const_impl.h, ecmult_gen_impl.h).                *)
(***************************************************************************)
EXTENDS Integers, Sequences, Limbs, FiniteSets, SequencesExt

(***************************************************************************)
(* Field elements as the code above field.h sees them: a number v modulo   *)
(* P, a magnitude m and whether it is normalized (n).  How limbs hold it   *)
(* is in Field10x26 and Field5x52.  A call outside the limits of field.h   *)
(* gives Broken, and whatever is computed from Broken is Broken.           *)
(***************************************************************************)
CONSTANT P        \* 3 modulo 4

Element(v, m, n) == [v |-> v % P, m |-> m, n |-> n]
Broken == [v |-> -1, m |-> 99, n |-> FALSE]

FSetInt(v) == Element(v, 1, TRUE)
FZero == [v |-> 0, m |-> 0, n |-> TRUE]
One == FSetInt(1)

FNormalize(a) == IF a.m > 32 THEN Broken ELSE Element(a.v, 1, TRUE)
FWeak(a) == IF a.m > 32 THEN Broken ELSE Element(a.v, 1, a.n)

FMul(a, b) == IF a.m > 8 \/ b.m > 8 THEN Broken ELSE Element(a.v * b.v, 1, FALSE)
FSqr(a) == FMul(a, a)
FMulInt(a, k) == IF a.m * k > 32 THEN Broken ELSE Element(a.v * k, a.m * k, FALSE)
FAdd(a, b) == IF a.m + b.m > 32 THEN Broken ELSE Element(a.v + b.v, a.m + b.m, FALSE)
FNeg(a, m) == IF a.m > m \/ m > 31 THEN Broken ELSE Element(P - a.v, m + 1, FALSE)
FCmov(r, a, flag) ==
    IF Broken \in {r, a} THEN Broken
    ELSE Element(IF flag THEN a.v ELSE r.v, IF a.m > r.m THEN a.m ELSE r.m, r.n /\ a.n)

(* An element that is not normalized may be held as v + P. *)
FIsZero(a) == a.n /\ a.v = 0
FIsOdd(a) == (a.v % 2 = 1) = a.n
FGetB32(a) == IF a.n THEN a.v ELSE a.v + P
FToZero(a) == a.v = 0

(* fe_set_b32 takes a number below P. *)
FFits(v) == v < P

----------------------------------------------------------------------------
FEqual(a, b) == FToZero(FAdd(FNeg(a, 1), b))

Power(v, k) ==
    LET p[i \in Nat] ==
            IF i = 0 THEN 1
            ELSE LET half == p[i \div 2]
                 IN (half * half * (IF i % 2 = 1 THEN v ELSE 1)) % P
    IN p[k]

(* What a chain of squarings and products makes of a (ExponentChains). *)
FPower(a, k) == IF a.m > 8 THEN Broken ELSE Element(Power(a.v, k), 1, FALSE)

(* A root is tried and squared: only one of a and -a has one. *)
Tried(r, a) == [r |-> r, ok |-> FEqual(FSqr(r), a)]
FSqrt(a) == Tried(FPower(a, (P + 1) \div 4), a)
FInv(a) == FPower(a, P - 2)

(* Through a number library; its answer is checked, and 0 has none. *)
FInvVar(a) ==
    IF a.v \in {0, -1} THEN Broken ELSE Element(Power(FNormalize(a).v, P - 2), 1, TRUE)

(* One inversion for all: r[i] is first the product of a[1] to a[i].      *)
FInvAllVar(a) ==
    LET n == CHOOSE k \in DOMAIN a : k + 1 \notin DOMAIN a
        product[i \in 1 .. n] == IF i = 1 THEN a[1] ELSE FMul(product[i - 1], a[i])
        \* the inverse of product[i]
        inverse[i \in 1 .. n] ==
            IF i = n THEN FInvVar(product[n]) ELSE FMul(inverse[i + 1], a[i + 1])
    IN IF a = << >> THEN << >>
       ELSE [i \in 1 .. n |-> IF i = 1 THEN inverse[1] ELSE FMul(product[i - 1], inverse[i])]

(* The Jacobi symbol; 0 counts as a square. *)
FIsQuad(a) == Power(a.v, (P - 1) \div 2) \in {0, 1}

----------------------------------------------------------------------------
(***************************************************************************)
(* Points of y^2 = x^3 + B as group_impl.h computes with them: affine      *)
(* (x, y), or Jacobian with (x/z^2, y/z^3); infinity is a flag, and the    *)
(* coordinates then mean nothing.  Every formula keeps to the magnitudes   *)
(* its comments name: a limit passed would make a coordinate Broken.       *)
(***************************************************************************)
CONSTANTS B,        \* CURVE_B
          Beta      \* a cube root of 1 modulo P

Ge(x, y) == [infinity |-> FALSE, x |-> x, y |-> y]
Gej(x, y, z) == [infinity |-> FALSE, x |-> x, y |-> y, z |-> z]
GeInfinity == [infinity |-> TRUE, x |-> FZero, y |-> FZero]
GejInfinity == [infinity |-> TRUE, x |-> FZero, y |-> FZero, z |-> FZero]

SetGe(a) == [infinity |-> a.infinity, x |-> a.x, y |-> a.y, z |-> One]

(* a scaled to the coordinates it has where its z is 1/zi. *)
SetGejZinv(a, zi) ==
    LET zi2 == FSqr(zi)
    IN [infinity |-> a.infinity, x |-> FMul(a.x, zi2), y |-> FMul(a.y, FMul(zi2, zi))]

SetGej(a) == SetGejZinv(a, FInv(a.z))
SetGejVar(a) == IF a.infinity THEN GeInfinity ELSE SetGejZinv(a, FInvVar(a.z))

(* Only points other than infinity have a z to invert. *)
SetAllGejVar(a) ==
    LET upTo[i \in 0 .. Len(a)] ==
            IF i = 0 THEN << >>
            ELSE LET before == upTo[i - 1] IN IF a[i].infinity THEN before ELSE Append(before, i)
        finite == upTo[Len(a)]
        azi == FInvAllVar([k \in 1 .. Len(finite) |-> a[finite[k]].z])
        place(i) == CHOOSE k \in 1 .. Len(finite) : finite[k] = i
    IN [i \in 1 .. Len(a) |->
            IF a[i].infinity THEN GeInfinity ELSE SetGejZinv(a[i], azi[place(i)])]

(* The z of each point of a table is that of the one before times zr: the  *)
(* inverse of the last gives those of all.                                 *)
SetTableGejVar(t) ==
    LET n == Len(t.prej)
        zi[i \in 1 .. n] == IF i = n THEN FInv(t.prej[n].z) ELSE FMul(zi[i + 1], t.zr[i + 1])
    IN [i \in 1 .. n |-> SetGejZinv(t.prej[i], zi[i])]

(* The same without an inversion: all are scaled to the z of the last.     *)
GlobalzSetTableGej(t) ==
    LET n == Len(t.prej)
        zs[i \in 1 .. n - 1] == IF i = n - 1 THEN t.zr[n] ELSE FMul(zs[i + 1], t.zr[i + 1])
        end == t.prej[n]
    IN [globalz |-> end.z,
        r |-> [i \in 1 .. n |-> IF i = n THEN Ge(end.x, end.y) ELSE SetGejZinv(t.prej[i], zs[i])]]

GeNeg(a) == [a EXCEPT !.y = FNeg(FWeak(@), 1)]
GejNeg(a) == [a EXCEPT !.y = FNeg(FWeak(@), 1)]

WithY(x, root) == [ge |-> Ge(x, root.r), ok |-> root.ok]
SetXquad(x) == WithY(x, FSqrt(FAdd(FSetInt(B), FMul(x, FSqr(x)))))
OfParity(y, odd) == IF FIsOdd(y) # odd THEN FNeg(y, 1) ELSE y
WithParity(s, odd) == [s EXCEPT !.ge.y = OfParity(FNormalize(@), odd)]
SetXoVar(x, odd) == WithParity(SetXquad(x), odd)

EqXVar(x, a) == FEqual(FMul(FSqr(a.z), x), FWeak(a.x))

GejIsValidVar(a) ==
    LET z2 == FSqr(a.z)
        z6 == FMulInt(FMul(FSqr(z2), z2), B)
    IN ~a.infinity /\ FEqual(FSqr(a.y), FWeak(FAdd(FMul(FSqr(a.x), a.x), z6)))
GeIsValidVar(a) ==
    ~a.infinity /\ FEqual(FSqr(a.y), FWeak(FAdd(FMul(FSqr(a.x), a.x), FSetInt(B))))

----------------------------------------------------------------------------
(* 2*a; rzr is the new z over the old.                                     *)
DoubledTo(a, t1, t2, t4, xy2) ==
    Gej(FAdd(FNeg(FMulInt(xy2, 4), 4), t2),
        FAdd(FMul(t1, FAdd(FMulInt(xy2, 6), FNeg(t2, 1))), FNeg(t4, 2)),
        FMulInt(FMul(a.z, a.y), 2))
DoubledBy(a, t1, t3) == DoubledTo(a, t1, FSqr(t1), FMulInt(FSqr(t3), 2), FMul(t3, a.x))
Doubled(a) == DoubledBy(a, FMulInt(FSqr(a.x), 3), FMulInt(FSqr(a.y), 2))
DoubleVar(a) ==
    IF a.infinity THEN [r |-> GejInfinity, rzr |-> One]
    ELSE [r |-> Doubled(a), rzr |-> FMulInt(FWeak(a.y), 2)]

(* The sum of points whose x are u1 and u1 + h, and whose y are s1 and     *)
(* s1 + i, over one z.                                                     *)
ChordTo(x, s1, h3, t, i, z) ==
    Gej(x, FAdd(FMul(FAdd(FNeg(x, 5), t), i), FNeg(FMul(h3, s1), 1)), z)
ChordBy(s1, h3, t, i, z) ==
    ChordTo(FAdd(FNeg(FAdd(FMulInt(t, 2), h3), 3), FSqr(i)), s1, h3, t, i, z)
Chord(u1, s1, h, i, z) ==
    LET h2 == FSqr(h) IN ChordBy(s1, FMul(h, h2), FMul(u1, h2), i, z)

(* Equal points are doubled, opposite ones sum to infinity. *)
Meet(a, u1, s1, h, i, ratio) ==
    IF ~FToZero(h) THEN [r |-> Chord(u1, s1, h, i, FMul(a.z, ratio)), rzr |-> ratio]
    ELSE IF FToZero(i) THEN DoubleVar(a) ELSE [r |-> GejInfinity, rzr |-> FZero]

AddVar(a, b) ==
    LET z22 == FSqr(b.z)
        z12 == FSqr(a.z)
        u1 == FMul(a.x, z22)
        s1 == FMul(FMul(a.y, z22), b.z)
        h == FAdd(FNeg(u1, 1), FMul(b.x, z12))
        i == FAdd(FNeg(s1, 1), FMul(FMul(b.y, z12), a.z))
    IN IF a.infinity THEN [r |-> b, rzr |-> Broken]
       ELSE IF b.infinity THEN [r |-> a, rzr |-> One]
       ELSE Meet(a, u1, s1, h, i, FMul(h, b.z))

AddAt(a, b, u1, s1, h, i) ==
    IF a.infinity THEN [r |-> SetGe(b), rzr |-> Broken]
    ELSE IF b.infinity THEN [r |-> a, rzr |-> One]
    ELSE Meet(a, u1, s1, h, i, h)
AddGeVar(a, b) ==
    LET z12 == FSqr(a.z)
        u1 == FWeak(a.x)
        s1 == FWeak(a.y)
    IN AddAt(a, b, u1, s1, FAdd(FNeg(u1, 1), FMul(b.x, z12)),
             FAdd(FNeg(s1, 1), FMul(FMul(b.y, z12), a.z)))

(* b has the z 1/bzinv. *)
AddZinvVar(a, b, bzinv) ==
    LET az == FMul(a.z, bzinv)
        z12 == FSqr(az)
        u1 == FWeak(a.x)
        s1 == FWeak(a.y)
        h == FAdd(FNeg(u1, 1), FMul(b.x, z12))
        i == FAdd(FNeg(s1, 1), FMul(FMul(b.y, z12), az))
    IN IF b.infinity THEN a
       ELSE IF a.infinity THEN SetGe(SetGejZinv(b, bzinv))
       ELSE Meet(a, u1, s1, h, i, h).r

(* One formula for sums and doubles, taken without a branch: its slope     *)
(* R/M is 0/0 where y1 = -y2 and x1^3 = x2^3, and is there replaced by     *)
(* (y1 - y2)/(x1 - x2).  b is not infinity.                                *)
SumOnSlope(a, b, t, m, degenerate, rrAlt, mAlt) ==
    LET n == FSqr(mAlt)
        q == FNeg(FMul(n, t), 1)
        m3mAlt == FCmov(FSqr(n), m, degenerate)
        z == FMul(a.z, mAlt)
        x3 == FWeak(FAdd(FSqr(rrAlt), q))
        y3 == FWeak(FNeg(FAdd(FMul(FAdd(FMulInt(x3, 2), q), rrAlt), m3mAlt), 3))
    IN [infinity |-> FToZero(z) /\ ~a.infinity,
        x |-> FCmov(FMulInt(x3, 4), b.x, a.infinity),
        y |-> FCmov(FMulInt(y3, 4), b.y, a.infinity),
        z |-> FCmov(FMulInt(z, 2), One, a.infinity)]
ChosenSlope(a, b, u1, u2, s1, t, m, rr) ==
    LET degenerate == FToZero(m) /\ FToZero(rr)
    IN SumOnSlope(a, b, t, m, degenerate, FCmov(FMulInt(s1, 2), rr, ~degenerate),
                  FCmov(FAdd(FNeg(u2, 1), u1), m, ~degenerate))
AddGe(a, b) ==
    LET zz == FSqr(a.z)
        u1 == FWeak(a.x)
        u2 == FMul(b.x, zz)
        s1 == FWeak(a.y)
        s2 == FMul(FMul(b.y, zz), a.z)
        t == FAdd(u1, u2)
    IN ChosenSlope(a, b, u1, u2, s1, t, FAdd(s1, s2), FAdd(FSqr(t), FMul(u1, FNeg(u2, 1))))

----------------------------------------------------------------------------
Rescale(r, s) ==
    LET zz == FSqr(s)
    IN [r EXCEPT !.x = FMul(@, zz), !.y = FMul(FMul(@, zz), s), !.z = FMul(@, s)]

(* Storage holds the numbers of normalized coordinates.                    *)
ToStorage(a) == [x |-> FGetB32(FNormalize(a.x)), y |-> FGetB32(FNormalize(a.y))]
FromStorage(s) == Ge(FSetInt(s.x), FSetInt(s.y))
StorageCmov(r, a, flag) == IF flag THEN a ELSE r

MulLambda(a) == [a EXCEPT !.x = FMul(@, FSetInt(Beta))]

HasQuadYVar(a) == ~a.infinity /\ FIsQuad(FMul(a.y, a.z))

----------------------------------------------------------------------------
(***************************************************************************)
(* Multiples of points: ecmult_impl.h (signed digits of a scalar, tables   *)
(* of odd multiples, Strauss's interleaving for few points and Pippenger's *)
(* buckets for many), ecmult_const_impl.h and ecmult_gen_impl.h, which do  *)
(* the same steps for every scalar.  A scalar is a number below Order.     *)
(***************************************************************************)
CONSTANTS Order,
          Bits,             \* of a scalar (256)
          WindowA, WindowG, \* widths of the digits for points and for G
          Gx, Gy,
          NumsX,            \* of a point whose multiple of G nobody knows
          GenBits           \* of a digit of ecmult_gen (4)

ConstG == Ge(FSetInt(Gx), FSetInt(Gy))
WnafSize(w) == (Bits + w - 1) \div w
TableSize(w) == 2^(w - 2)
Negated(s) == (Order - s) % Order
BitsAt(s, offset, count) == LowBits(Shifted(s, offset), count)

----------------------------------------------------------------------------
(* The digits of a are odd or 0, below 2^(w-1), and w places apart; a scalar *)
(* with its top bit set is written as the negative of its negation.         *)
RECURSIVE WnafWords(_, _, _, _)
WnafWords(s, w, bit, carry) ==
    IF bit >= Bits THEN << >>
    ELSE IF BitsAt(s, bit, 1) = carry THEN WnafWords(s, w, bit + 1, carry)
    ELSE LET now == IF w > Bits - bit THEN Bits - bit ELSE w
             word == BitsAt(s, bit, now) + carry
             next == BitsAt(word, w - 1, 1)
         IN <<[bit |-> bit, digit |-> word - next * 2^w]>> \o WnafWords(s, w, bit + now, next)

Wnaf(a, w) ==
    LET high == BitsAt(a, Bits - 1, 1) = 1
        words == WnafWords(IF high THEN Negated(a) ELSE a, w, 0, 0)
        at(i) == {k \in 1 .. Len(words) : words[k].bit = i}
        digit(k) == IF high THEN 0 - words[k].digit ELSE words[k].digit
    IN [digit |-> [i \in 0 .. Bits - 1 |-> IF at(i) = {} THEN 0 ELSE digit(CHOOSE k \in at(i) : TRUE)],
        bits |-> IF words = << >> THEN 0 ELSE Last(words).bit + 1]

(* a, 3a, 5a, ... by adding 2a, computed where 2a has the z 1: all but the *)
(* last then lack a factor in their z, and zr holds the ratios.            *)
StepsOf(d, n, first, z) ==      \* from first, over z, in steps of d
    LET with(t, sum) == [prej |-> Append(t.prej, sum.r), zr |-> Append(t.zr, sum.rzr)]
        more(t) == with(t, AddGeVar(Last(t.prej), Ge(d.x, d.y)))
        table[i \in 1 .. n] ==
            IF i = 1 THEN [prej |-> <<Gej(first.x, first.y, z)>>, zr |-> <<d.z>>]
            ELSE more(table[i - 1])
    IN [table[n] EXCEPT !.prej[n].z = FMul(@, d.z)]
MultiplesBy(d, n, a) == StepsOf(d, n, SetGejZinv(a, d.z), a.z)
OddMultiplesTable(n, a) == MultiplesBy(DoubleVar(a).r, n, a)

TableGlobalz(a) == GlobalzSetTableGej(OddMultiplesTable(TableSize(WindowA), a))
TableStorage(n, a) ==
    LET affine == SetTableGejVar(OddMultiplesTable(n, a))
    IN [i \in 1 .. n |-> ToStorage(affine[i])] \o << >>

TableGetGe(pre, n) ==
    IF n > 0 THEN pre[((n - 1) \div 2) + 1] ELSE GeNeg(pre[((-n - 1) \div 2) + 1])
TableGetGeStorage(pre, n) ==
    IF n > 0 THEN FromStorage(pre[((n - 1) \div 2) + 1])
    ELSE GeNeg(FromStorage(pre[((-n - 1) \div 2) + 1]))

(* ecmult_context_build *)
PreG == TableStorage(TableSize(WindowG), SetGe(ConstG))

----------------------------------------------------------------------------
(* The tables of all points one behind the other, over one z: each point   *)
(* is first scaled by the last z of the table before.                      *)
JoinedTables(a) ==
    LET size == TableSize(WindowA)
        join(t, u, z) == [prej |-> t.prej \o u.prej, zr |-> t.zr \o [u.zr EXCEPT ![1] = FMul(@, z)]]
        more(t, b) == join(t, OddMultiplesTable(size, Rescale(b, Last(t.prej).z)), b.z)
        upTo[k \in 1 .. Len(a)] ==
            IF k = 1 THEN OddMultiplesTable(size, a[1]) ELSE more(upTo[k - 1], a[k])
    IN IF a = << >> THEN [r |-> << >>, globalz |-> One] ELSE GlobalzSetTableGej(upTo[Len(a)])

(* From the highest digit down: double, and add the entries of the digits. *)
OverZ(r, z) == IF r.infinity THEN r ELSE [r EXCEPT !.z = FMul(@, z)]
StraussSum(preG, tables, wnaf, wnafG, bits) ==
    LET size == TableSize(WindowA)
        entry(k, n) == TableGetGe(SubSeq(tables.r, (k - 1) * size + 1, k * size), n)
        plus(i, r, k) ==
            IF i >= wnaf[k].bits \/ wnaf[k].digit[i] = 0 THEN r
            ELSE AddGeVar(r, entry(k, wnaf[k].digit[i])).r
        plusG(i, r) ==
            IF i >= wnafG.bits \/ wnafG.digit[i] = 0 THEN r
            ELSE AddZinvVar(r, TableGetGeStorage(preG, wnafG.digit[i]), tables.globalz)
        sum[i \in 0 .. bits] ==
            IF i = bits THEN GejInfinity
            ELSE plusG(i, FoldLeft(LAMBDA r, k : plus(i, r, k), DoubleVar(sum[i + 1]).r,
                                   [k \in 1 .. Len(wnaf) |-> k]))
    IN OverZ(sum[0], tables.globalz)

(* The sum of na[k]*a[k], and of ng*G unless ng is -1 (none given).        *)
StraussDigits(preG, tables, wnaf, wnafG) ==
    StraussSum(preG, tables, wnaf, wnafG,
               CHOOSE m \in {wnaf[k].bits : k \in DOMAIN wnaf} \cup {wnafG.bits} :
                    m >= wnafG.bits /\ \A k \in DOMAIN wnaf : m >= wnaf[k].bits)
StraussOf(preG, live, a, na, ng) ==
    StraussDigits(preG, JoinedTables([k \in 1 .. Len(live) |-> a[live[k]]]),
                  [k \in 1 .. Len(live) |-> Wnaf(na[live[k]], WindowA)] \o << >>,
                  IF ng = -1 THEN [digit |-> << >>, bits |-> 0] ELSE Wnaf(ng, WindowG))
Live(a, na) == SelectSeq([k \in 1 .. Len(a) |-> k], LAMBDA k : na[k] # 0 /\ ~a[k].infinity)
StraussWnaf(preG, a, na, ng) == StraussOf(preG, Live(a, na), a, na, ng)

Ecmult(preG, a, na, ng) == StraussWnaf(preG, <<a>>, <<na>>, ng)

----------------------------------------------------------------------------
\* Mutant: an even word is made odd, and the word below does not pay for it.
WnafFixedUnpaid(s, w) ==
    LET even == s % 2 = 0
        word(pos) == BitsAt(IF even THEN Negated(s) ELSE s, pos * w, w)
    IN [pos \in 0 .. WnafSize(w) - 1 |->
            (IF even THEN -1 ELSE 1)
                * (word(pos) + (IF word(pos) % 2 = 0 THEN 1 ELSE 0))]

(* Digits of w bits that are odd, an even scalar being negated first; an   *)
(* even word takes 1 from the word above.  Never called for zero.          *)
WnafFixed(s, w) ==
    LET even == s % 2 = 0
        work == IF even THEN Negated(s) ELSE s
        sign == IF even THEN -1 ELSE 1
        val(pos) == BitsAt(work, pos * w, w)
        borrows(pos) == pos \in 1 .. WnafSize(w) - 1 /\ val(pos) % 2 = 0
    IN [pos \in 0 .. WnafSize(w) - 1 |->
            sign * (val(pos) + (IF borrows(pos) THEN 1 ELSE 0)
                             - (IF borrows(pos + 1) THEN 2^w ELSE 0))]

TwiceVar(r) == DoubleVar(r).r
TimesTwoTo(n, r) ==
    LET after[i \in 0 .. n] == IF i = 0 THEN r ELSE TwiceVar(after[i - 1])
    IN after[n]

(* At each place the points go into the bucket of their digit; bucket j    *)
(* counts 2j+1 times, by a running sum and one doubling of the result.     *)
PippengerSum(window, wnaf, pt) ==
    LET put(r, p, n, j) ==
            IF n > 0 /\ (n - 1) \div 2 = j THEN AddGeVar(r, p).r
            ELSE IF n < 0 /\ (-(n + 1)) \div 2 = j THEN AddGeVar(r, GeNeg(p)).r
            ELSE r
        bucket(i, j) ==
            FoldLeft(LAMBDA r, k : put(r, pt[k], wnaf[k][i], j),
                     GejInfinity, [k \in 1 .. Len(pt) |-> k])
        ran(running, r) == [running |-> running, r |-> AddVar(r, running).r]
        tally(i, r) ==
            FoldLeft(LAMBDA acc, j : ran(AddVar(acc.running, bucket(i, 2^window - j)).r, acc.r),
                     [running |-> GejInfinity, r |-> r], [j \in 1 .. 2^window - 1 |-> j])
        close(i, t) == AddVar(TwiceVar(t.r), AddVar(t.running, bucket(i, 0)).r).r
        sum[i \in 0 .. WnafSize(window + 1)] ==
            IF i = WnafSize(window + 1) THEN GejInfinity
            ELSE close(i, tally(i, TimesTwoTo(window, sum[i + 1])))
    IN IF pt = << >> THEN GejInfinity ELSE sum[0]

PippengerOf(window, live, sc, pt) ==
    PippengerSum(window, [k \in 1 .. Len(live) |-> WnafFixed(sc[live[k]], window + 1)] \o << >>,
                 [k \in 1 .. Len(live) |-> pt[live[k]]] \o << >>)
PippengerWnaf(window, sc, pt) == PippengerOf(window, Live(pt, sc), sc, pt)

(* G, when it is to be added, is the first of the points.                  *)
PippengerBatch(window, a, na, ng) ==
    PippengerWnaf(window, IF ng = -1 THEN na ELSE <<ng>> \o na,
                  IF ng = -1 THEN a ELSE <<ConstG>> \o a)

----------------------------------------------------------------------------
(* ecmult_const: the scalar is made odd by adding 1 or 2 (the skew), made  *)
(* positive by a sign, and written in digits that are never 0.             *)
WnafConst(scalar, w) ==
    LET flip == scalar > Order \div 2
        bit == IF flip # (scalar % 2 = 1) THEN 1 ELSE 0
        negOne == Negated(scalar) = 1
        skewed == IF negOne THEN scalar ELSE scalar + 2^bit
        s == IF flip THEN Negated(skewed) ELSE skewed
        sign == (IF flip THEN -1 ELSE 1) * (IF negOne THEN -1 ELSE 1)
        even(k) == BitsAt(s, w * k, w) % 2 = 0
        \* word k, made odd by 1 taken from or given to the word below
        u[k \in 0 .. WnafSize(w)] ==
            IF k = 0 \/ ~even(k) THEN BitsAt(s, w * k, w)
            ELSE BitsAt(s, w * k, w) + (IF u[k - 1] > 0 THEN 1 ELSE -1)
        lent(k) == IF k < WnafSize(w) /\ even(k + 1) THEN (IF u[k] > 0 THEN 2^w ELSE -(2^w)) ELSE 0
    IN [digit |-> [k \in 0 .. WnafSize(w) |-> (u[k] - lent(k)) * sign], skew |-> 2^bit]

(* The entry is taken by going over the whole table. *)
ConstTableGetGe(pre, n) ==
    LET m == (IF n < 0 THEN 0 - n ELSE n) \div 2
        y == pre[m + 1].y
    IN Ge(pre[m + 1].x, FCmov(y, FNeg(y, 1), n < 0))

DoubleNonzero(r) == IF r.infinity THEN Gej(Broken, Broken, Broken) ELSE TwiceVar(r)

ConstSum(w, pre, digit, globalz) ==
    LET after[n \in 0 .. w, i \in 0 .. WnafSize(w)] ==    \* n doublings, then the digit
            IF n > 0 THEN DoubleNonzero(after[n - 1, i])
            ELSE IF i = WnafSize(w) THEN SetGe(ConstTableGetGe(pre, digit[i]))
            ELSE AddGe(after[w, i + 1], ConstTableGetGe(pre, digit[i]))
    IN [after[0, 0] EXCEPT !.z = FMul(@, globalz)]
ConstOver(w, table, digit) ==
    ConstSum(w, [i \in DOMAIN table.r |-> [table.r[i] EXCEPT !.y = FWeak(@)]] \o << >>,
             digit, table.globalz)

(* What the skew added is taken away: a or 2*a, chosen in storage. *)
Corrected(r, a, skew) ==
    LET twice == ToStorage(SetGej(TwiceVar(SetGe(a))))
    IN AddGe(r, GeNeg(FromStorage(StorageCmov(ToStorage(a), twice, skew = 2))))
ConstBy(a, wnaf) ==
    Corrected(ConstOver(WindowA - 1, TableGlobalz(SetGe(a)), wnaf.digit), a, wnaf.skew)
EcmultConst(a, scalar) == ConstBy(a, WnafConst(scalar, WindowA - 1))

----------------------------------------------------------------------------
(* ecmult_gen: entry i of table j is i times (2^GenBits)^j*G, plus 2^j     *)
(* times the other point; the last table has 1 - 2^j times that point, so  *)
(* that the sum over the tables is free of it.                             *)
GenTables == Bits \div GenBits
Nums == AddGeVar(SetGe(SetXoVar(FSetInt(NumsX), FALSE).ge), ConstG).r

GenBase(nums) ==
    LET g[j \in 0 .. GenTables - 1] ==
            IF j = 0 THEN SetGe(ConstG) ELSE TimesTwoTo(GenBits, g[j - 1])
        twice[j \in 0 .. GenTables - 1] ==
            IF j = 0 THEN nums ELSE TwiceVar(twice[j - 1])
        last == GenTables - 1
    IN [j \in 0 .. last |->
            [g |-> g[j],
             nums |-> IF j = last THEN AddVar(GejNeg(twice[j]), nums).r ELSE twice[j]]]

GenPrec ==
    LET row(base) ==
            LET upTo[i \in 0 .. 2^GenBits - 1] ==
                    IF i = 0 THEN <<base.nums>>
                    ELSE LET t == upTo[i - 1] IN Append(t, AddVar(Last(t), base.g).r)
            IN upTo[2^GenBits - 1]
        rows[j \in 0 .. GenTables] ==
            IF j = 0 THEN << >> ELSE LET t == rows[j - 1] IN t \o row(GenBase(Nums)[j - 1])
        affine == SetAllGejVar(rows[GenTables])
    IN [j \in 0 .. GenTables - 1 |->
            [i \in 0 .. 2^GenBits - 1 |-> ToStorage(affine[j * 2^GenBits + i + 1])]]

(* (gn + blind)*G - blind*G: the second is the initial point.              *)
EcmultGen(ctx, prec, gn) ==
    LET gnb == (gn + ctx.blind) % Order
    IN FoldLeft(LAMBDA r, j : AddGe(r, FromStorage(prec[j - 1][BitsAt(gnb, (j - 1) * GenBits, GenBits)])),
                ctx.initial, [j \in 1 .. GenTables |-> j])

(* s and b are drawn from the seed, and from the blind before: any but 0.  *)
GenReset == [blind |-> 1, initial |-> GejNeg(SetGe(ConstG))]
GenBlind(ctx, prec, s, b) ==
    [blind |-> Negated(b),
     initial |-> EcmultGen([ctx EXCEPT !.initial = Rescale(@, FSetInt(s))], prec, b)]
=============================================================================

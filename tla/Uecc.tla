------------------------------- MODULE Uecc --------------------------------
(***************************************************************************)
(* Points, keys and signatures of uECC.c over the residues modulo P (the   *)
(* words they are held in are Vli's), and the calls of uecc.ml in any      *)
(* order. Points are multiplied by a ladder of two points that differ by   *)
(* the point multiplied and share one z, which is known only at the end.   *)
(***************************************************************************)
EXTENDS Integers, Sequences, TLC, SequencesExt

CONSTANTS P, CurveB,    \* y^2 = x^3 - 3x + CurveB, or x^3 + CurveB
          MinusThree,   \* which: double_jacobian and x_side of the curve
          N, NBits,     \* the order of the curve and its bits
          Gx, Gy,
          Width,        \* bits of the words that hold the order
          ByteBits,
          MaxTries      \* uECC_RNG_MAX_TRIES

Mul(x, y) == (x * y) % P
Sqr(x) == Mul(x, x)
Half(x) == (IF x % 2 = 1 THEN x + P ELSE x) \div 2
TestBit(k, i) == (k \div 2^i) % 2 = 1
NumBits(k) == CHOOSE b \in 0 .. 2 * Width : k < 2^b /\ (b > 0 => k >= 2^(b - 1))
BytesOf(bits) == (bits + ByteBits - 1) \div ByteBits

(* u such that u*v is 1 modulo m; the inverse of 0 is 0 (Vli!ModInv).      *)
InverseMod(v, m) ==
    IF v % m = 0 THEN 0 ELSE CHOOSE u \in 1 .. m - 1 : (u * (v % m)) % m = 1

Point(x, y) == [x |-> x, y |-> y]
G == Point(Gx, Gy)
ZeroPoint == Point(0, 0)

----------------------------------------------------------------------------
(* 2*(x, y) over z; a point with z = 0 stays. *)
DoubleJacobian(t) ==
    LET y2 == Sqr(t.y)
        A == Mul(t.x, y2)
        z2 == Sqr(t.z)
        B == Half((3 * (IF MinusThree THEN Mul(t.x + z2, t.x - z2) ELSE Sqr(t.x))) % P)
        x3 == (Sqr(B) - 2 * A) % P
    IN IF t.z = 0 THEN t
       ELSE [x |-> x3, y |-> (Mul(B, A - x3) - Sqr(y2)) % P, z |-> Mul(t.y, t.z)]

XSide(x) ==
    IF MinusThree THEN (Mul(Sqr(x) - 3, x) + CurveB) % P ELSE (Mul(Sqr(x), x) + CurveB) % P

(* a^((P+1)/4), from the top bit of P + 1 down to its bit 2. *)
ModSqrt(a) ==
    LET top == NumBits(P + 1) - 1
        go[i \in 2 .. top + 1] ==
            IF i = top + 1 THEN 1
            ELSE LET l == go[i + 1] IN Mul(Sqr(l), IF TestBit(P + 1, i) THEN a ELSE 1)
    IN go[2]

ApplyZ(q, z) == Point(Mul(q.x, Sqr(z)), Mul(q.y, Mul(Sqr(z), z)))

(* a and b over one z; the pair becomes a and a + b over another.          *)
AddCoZ(a, b) ==
    LET A == Sqr(b.x - a.x)
        B == Mul(a.x, A)
        C == Mul(b.x, A)
        dy == b.y - a.y
        x3 == (Sqr(dy) - B - C) % P
        y1 == Mul(a.y, C - B)
    IN <<Point(B, y1), Point(x3, (Mul(dy, B - x3) - y1) % P)>>
(* The same, but a - b (its y counted from b's) and a + b.                 *)
AddCoZConjugate(a, b) ==
    LET A == Sqr(b.x - a.x)
        B == Mul(a.x, A)
        C == Mul(b.x, A)
        E == Mul(a.y, C - B)
        x3 == (Sqr(b.y - a.y) - B - C) % P
        x4 == (Sqr(b.y + a.y) - B - C) % P
    IN <<Point(x4, (Mul(b.y + a.y, x4 - B) - E) % P),
         Point(x3, (Mul(b.y - a.y, B - x3) - E) % P)>>

InitialDouble(q, z) ==
    LET first == ApplyZ(q, z)
        twice == DoubleJacobian([x |-> first.x, y |-> first.y, z |-> z])
    IN << ApplyZ(q, twice.z), Point(twice.x, twice.y) >>

(* The scalar's bit num_bits - 1 is taken to be set.  R[1] is R0 of the    *)
(* code and R[2] its R1; the bit chooses which of them is doubled.         *)
AddBoth(R, scalar, i) ==    \* nb = 0 where the bit is set
    LET s == IF TestBit(scalar, i) THEN AddCoZConjugate(R[2], R[1]) ELSE AddCoZConjugate(R[1], R[2])
    IN IF TestBit(scalar, i) THEN << s[2], s[1] >> ELSE s
AddLast(R, scalar, i) ==
    LET s == IF TestBit(scalar, i) THEN AddCoZ(R[1], R[2]) ELSE AddCoZ(R[2], R[1])
    IN IF TestBit(scalar, i) THEN s ELSE << s[2], s[1] >>
LadderEnd(q, R, scalar) ==
    LET b == IF TestBit(scalar, 0) THEN R[2] ELSE R[1]
        z == Mul(Mul(InverseMod(Mul(Mul(R[2].x - R[1].x, b.y), q.x), P), q.y), b.x)
    IN ApplyZ(AddLast(R, scalar, 0)[1], z)
EccPointMult(q, scalar, initialZ, numBits) ==
    LET ladder[i \in 1 .. numBits - 1] ==
            IF i = numBits - 1 THEN InitialDouble(q, initialZ)
            ELSE AddLast(AddBoth(ladder[i + 1], scalar, i), scalar, i)
    IN LadderEnd(q, AddBoth(ladder[1], scalar, 0), scalar)

(* k + N or k + 2N, whichever has its top bit at NBits; that bit may fall  *)
(* off the words and is not looked at.                                     *)
Regularized(k) ==
    LET carry == k + N >= 2^Width \/ (NBits < Width /\ TestBit(k + N, NBits))
    IN (IF carry THEN k + N ELSE k + 2 * N) % 2^Width

EccComputePublicKey(private) == EccPointMult(G, Regularized(private), 1, NBits + 1)

----------------------------------------------------------------------------
(* Numbers drawn: the words are cut to the bits of top, and drawn again    *)
(* while they are not between 0 and top.  No more draws is a generator     *)
(* that fails.                                                             *)
RandomInt(draws, top) ==
    LET cut(i) == draws[i] % 2^NumBits(top)
        good == {i \in 1 .. Len(draws) : i <= MaxTries /\ cut(i) \in 1 .. top - 1}
        at == CHOOSE i \in good : \A j \in good : i <= j
    IN IF good = {} THEN [ok |-> FALSE, v |-> 0, rest |-> << >>]
       ELSE [ok |-> TRUE, v |-> cut(at), rest |-> SubSeq(draws, at + 1, Len(draws))]

(* Keys are drawn until one gives a point. *)
MakeKey(draws) ==
    LET made(k, pub) == [done |-> pub # ZeroPoint, ok |-> pub # ZeroPoint,
                         rest |-> k.rest, sk |-> k.v, pk |-> pub]
        drawn(s, k) ==
            IF s.done THEN s
            ELSE IF ~k.ok THEN [s EXCEPT !.done = TRUE] ELSE made(k, EccComputePublicKey(k.v))
        again(s) == drawn(s, RandomInt(s.rest, N))
        try[t \in 0 .. MaxTries] ==
            IF t = 0 THEN [done |-> FALSE, ok |-> FALSE, rest |-> draws, sk |-> 0, pk |-> ZeroPoint]
            ELSE again(try[t - 1])
    IN try[MaxTries]

(* The ladder starts from a drawn z. *)
SharedSecret(public, private, draws) ==
    LET secret(ok, q) == [ok |-> ok /\ q # ZeroPoint, secret |-> q.x]
        from(z) == secret(z.ok, EccPointMult(public, Regularized(private), z.v, NBits + 1))
    IN from(RandomInt(draws, P))

Compress(q) == [odd |-> q.y % 2, x |-> q.x]
Decompress(c) ==
    LET y == ModSqrt(XSide(c.x))
    IN Point(c.x, IF y % 2 # c.odd THEN P - y ELSE y)

ValidPoint(q) == q # ZeroPoint /\ q.x < P /\ q.y < P /\ Sqr(q.y) = XSide(q.x)

PublicKey(private, q) == [ok |-> private # 0 /\ private < N /\ q # ZeroPoint, q |-> q]
ComputePublicKey(private) == PublicKey(private, EccComputePublicKey(private))

----------------------------------------------------------------------------
(* The first bytes of a hash, as a number of at most NBits.                *)
Bits2Int(hash) ==
    LET size == IF hash.size > BytesOf(NBits) THEN BytesOf(NBits) ELSE hash.size
        v == hash.v \div 2^(ByteBits * (hash.size - size))
        cut == v \div 2^(size * ByteBits - NBits)
    IN IF size * ByteBits <= NBits THEN v
       ELSE IF cut >= N THEN cut - N ELSE cut

ModAddN(l, r) ==
    LET sum == l + r IN IF sum >= 2^Width \/ sum >= N THEN (sum - N) % 2^Width ELSE sum

(* r is the x of k*G, which may reach N.  k is inverted under a mask.      *)
SignAt(q, private, hash, k, mask) ==
    LET inverse == (InverseMod((k * mask) % N, N) * mask) % N
        s == (ModAddN(Bits2Int(hash), (private * q.x) % N) * inverse) % N
    IN IF k = 0 \/ k >= N \/ q.x = 0 \/ NumBits(s) > BytesOf(NumBits(P)) * ByteBits
       THEN [ok |-> FALSE, r |-> 0, s |-> 0]
       ELSE [ok |-> TRUE, r |-> q.x, s |-> s]
SignWithK(private, hash, k, mask) ==
    SignAt(EccPointMult(G, Regularized(k), 1, NBits + 1), private, hash, k, mask)

(* u1*G + u2*Q, the two scalars read together from their highest bit.      *)
Shamir(u1, u2, public) ==
    LET first == AddCoZ(G, public)[2]
        sum == ApplyZ(first, InverseMod(public.x - Gx, P))
        points == << G, public, sum >>
        index(i) == (IF TestBit(u1, i) THEN 1 ELSE 0) + (IF TestBit(u2, i) THEN 2 ELSE 0)
        bits == IF NumBits(u1) > NumBits(u2) THEN NumBits(u1) ELSE NumBits(u2)
        start == points[index(bits - 1)]
        go[i \in 0 .. bits - 1] ==
            IF i = bits - 1 THEN [x |-> start.x, y |-> start.y, z |-> 1]
            ELSE LET above == go[i + 1]
                     d == DoubleJacobian(above)
                     t == ApplyZ(points[index(i)], d.z)
                     s == AddCoZ(t, d)[2]
                 IN IF index(i) = 0 THEN d
                    ELSE [x |-> s.x, y |-> s.y, z |-> Mul(d.z, d.x - t.x)]
    IN go[0]

AffineX(q) == ApplyZ(Point(q.x, q.y), InverseMod(q.z, P)).x
ModOrder(x) == IF x >= N THEN x - N ELSE x
UeccVerify(public, hash, r, s) ==
    LET z == InverseMod(s, N)
    IN /\ r \in 1 .. N - 1 /\ s \in 1 .. N - 1
       /\ ModOrder(AffineX(Shamir((Bits2Int(hash) * z) % N, (r * z) % N, public))) = r

----------------------------------------------------------------------------
(***************************************************************************)
(* Calls of uecc.ml on a secret and a public key: what its caller holds,   *)
(* and the multiple of G that each key stands for (-1: none).              *)
(***************************************************************************)
CONSTANTS SecretBytes,  \* numbers a caller may hand over as a secret key
          Abscissas,    \* the x of compressed points it may hand over
          Leftovers,    \* points that fresh memory may happen to hold
          DrawSets,     \* what the random generator may give
          Hashes, Nonces,
          Multiples,    \* Multiples[k + 1] is k*G, as <<x, y>>
          MaxCalls

VARIABLES r, rv,        \* the secret key
          a, av,        \* the public key
          sig, signed, calls

vars == <<r, rv, a, av, sig, signed, calls>>

KeyOf(k) ==
    LET point == Multiples[(k % N) + 1] IN IF k % N = 0 THEN ZeroPoint ELSE Point(point[1], point[2])
LogOf(q) == IF \E k \in 1 .. N - 1 : KeyOf(k) = q THEN CHOOSE k \in 1 .. N - 1 : KeyOf(k) = q ELSE -1

(* The ladder of these scalars meets a point and its opposite, and ends in *)
(* zero: no public key is made for them.                                   *)
Unladdered == {1, N - 2, N - 1}

Init ==
    /\ r = 0 /\ rv = -1 /\ a = ZeroPoint /\ av = -1
    /\ sig = [r |-> 0, s |-> 0] /\ signed = [key |-> 0, hash |-> [v |-> 0, size |-> 1]]
    /\ calls = 0

Call == calls < MaxCalls /\ calls' = calls + 1

KeyPair == \E draws \in DrawSets : \E made \in {MakeKey(draws)} :
    /\ Call
    /\ IF made.ok
       THEN r' = made.sk /\ rv' = made.sk /\ a' = made.pk /\ av' = made.sk
       ELSE UNCHANGED <<r, rv, a, av>>
    /\ UNCHANGED <<sig, signed>>

(* sk_of_bytes and neuterize: the public key is computed into fresh memory;*)
(* a key that cannot be computed is refused only when what the memory held *)
(* happens to be a point.                                                  *)
SkOfBytes == \E b \in SecretBytes, leftover \in Leftovers : \E made \in {ComputePublicKey(b)} :
    LET q == IF made.ok THEN made.q ELSE leftover
    IN /\ Call
       /\ IF ~made.ok /\ ValidPoint(q) THEN UNCHANGED <<r, rv, a, av>>
          ELSE /\ r' = b /\ a' = q
               /\ rv' = IF b \in 1 .. N - 1 \ Unladdered THEN b ELSE -1
               /\ av' = rv'
       /\ UNCHANGED <<sig, signed>>

(* pk_of_bytes of any compressed point, or of any pair of coordinates.     *)
PkOfBytes(q, meant) ==
    /\ Call
    /\ IF ValidPoint(q) THEN a' = q /\ av' = meant ELSE UNCHANGED <<a, av>>
    /\ UNCHANGED <<r, rv, sig, signed>>
PkOfCompressed == \E x \in Abscissas, odd \in 0 .. 1 :
    LET same == {k \in 1 .. N - 1 : KeyOf(k).x = x /\ KeyOf(k).y % 2 = odd}
    IN PkOfBytes(Decompress([odd |-> odd, x |-> x]), IF same = {} THEN -2 ELSE CHOOSE k \in same : TRUE)
PkOfPlain == \E q \in {Point(Gx, Gy), Point(Gx, P - Gy), Point(Gx, P + Gy), Point(Gx + P, Gy), Point(Gy, Gx), a} :
    PkOfBytes(q, LogOf(q))

SignIt == \E hash \in Hashes, k \in Nonces, mask \in {1, N - 1} :
    \E made \in {SignWithK(r, hash, k, mask)} :
       /\ Call /\ rv # -1
       /\ sig' = IF made.ok THEN [r |-> made.r, s |-> made.s] ELSE sig
       /\ signed' = IF made.ok THEN [key |-> rv, hash |-> hash] ELSE signed
       /\ UNCHANGED <<r, rv, a, av>>

Next == KeyPair \/ SkOfBytes \/ PkOfCompressed \/ PkOfPlain \/ SignIt

Spec == Init /\ [][Next]_vars

----------------------------------------------------------------------------
Ladders(k) == k % N \notin Unladdered \cup {0}

(* What the standard says of a signature. *)
Valid(s, hash, key) ==
    LET w == InverseMod(s.s, N)
        k == (Bits2Int(hash) * w + s.r * w * key) % N
    IN s.r \in 1 .. N - 1 /\ s.s \in 1 .. N - 1 /\ k # 0 /\ KeyOf(k).x % N = s.r

(* Shamir's trick adds points of one x nowhere on its way.                 *)
Apart(s, hash, key) ==
    LET w == InverseMod(s.s, N)
        u1 == (Bits2Int(hash) * w) % N
        u2 == (s.r * w) % N
        bits == IF NumBits(u1) > NumBits(u2) THEN NumBits(u1) ELSE NumBits(u2)
        log(i) == (u1 \div 2^i + (u2 \div 2^i) * key) % N
        added(i) == (log(i) - 2 * log(i + 1)) % N
    IN /\ key \notin {1, N - 1}
       /\ \A i \in 0 .. bits - 2 :
            \/ added(i) = 0 /\ ~TestBit(u1, i) /\ ~TestBit(u2, i)
            \/ /\ added(i) # 0 /\ log(i + 1) # 0
               /\ (2 * log(i + 1)) % N \notin {added(i), N - added(i)}

(* The public key is the one that the caller's bytes or secret key mean,   *)
(* and two holders of keys agree on a shared secret.                       *)
KeysExact ==
    /\ av # -1 => av # -2 /\ a = KeyOf(av) /\ ValidPoint(a)
    /\ av # -1 => Decompress(Compress(a)) = a
    /\ rv # -1 => r = rv
    /\ rv # -1 /\ av # -1 /\ Ladders(rv) =>
        \A draws \in DrawSets :
            LET secret == SharedSecret(a, r, draws)
            IN secret.ok => secret.secret = KeyOf(rv * av).x

(* A signature is accepted for a key exactly when the standard says so;    *)
(* one that was made is, unless the x it was made from reaches N or s is 0 *)
SignaturesVerify ==
    /\ av # -1 =>
        \A hash \in Hashes, s \in {sig, [sig EXCEPT !.s = (N - @) % N], [r |-> sig.s, s |-> sig.r]} :
            Apart(s, hash, av) => (UeccVerify(a, hash, s.r, s.s) <=> Valid(s, hash, av))
    /\ signed.key # 0 /\ sig.r < N /\ sig.s # 0 => Valid(sig, signed.hash, signed.key)
=============================================================================

------------------------------- MODULE Ecdsa -------------------------------
(***************************************************************************)
(* Signatures over the curve (ecdsa_impl.h, eckey_impl.h and recovery.h),  *)
(* and the calls of secp256k1.c by which a caller makes keys and           *)
(* signatures, in any order. A scalar is a number below Order; bytes are   *)
(* numbers below 256, and a scalar takes ScalarBytes of them, the highest  *)
(* first.                                                                  *)
(***************************************************************************)
EXTENDS EcMult

CONSTANTS ScalarBytes,  \* 32
          SizeBytes     \* of a size_t (8)

BytesOf(v) == [i \in 1 .. ScalarBytes |-> BitsAt(v, 8 * (ScalarBytes - i), 8)]
NumberOf(bytes) == FoldLeft(LAMBDA v, b : v * 256 + b, 0, bytes)

(* scalar_set_b32: the number modulo the order, and whether that changed it *)
SetB32(v) == [v |-> v % Order, overflow |-> v >= Order]
ScalarInverse(s) ==
    LET p[k \in Nat] == IF k = 0 THEN 1
                        ELSE LET h == p[k \div 2] IN (h * h * (IF k % 2 = 1 THEN s ELSE 1)) % Order
    IN p[Order - 2]
Times(s, t) == (s * t) % Order
IsHigh(s) == s > Order \div 2

----------------------------------------------------------------------------
(* Lengths of DER: the shortest encoding only, and within the array.  A    *)
(* reader gives ok, what it read, and the place it has come to.            *)
NotRead == [ok |-> FALSE, v |-> 0, at |-> 0]
DerReadLen(sig, at) ==
    LET b1 == sig[at]
        lenleft == b1 - 128
        left == Len(sig) - at
        ret == NumberOf(SubSeq(sig, at + 1, at + lenleft))
    IN IF at > Len(sig) THEN NotRead
       ELSE IF b1 < 128 THEN [ok |-> TRUE, v |-> b1, at |-> at + 1]
       ELSE IF b1 \in {128, 255} \/ lenleft > left \/ sig[at + 1] = 0 \/ lenleft > SizeBytes
               \/ \E k \in 1 .. lenleft :
                      NumberOf(SubSeq(sig, at + 1, at + k)) + (lenleft - k + 1) > left - (k - 1)
               \/ ret < 128
         THEN NotRead
       ELSE [ok |-> TRUE, v |-> ret, at |-> at + 1 + lenleft]

(* A number that is negative or not below the order is read as 0. *)
DerInteger(sig, len) ==
    LET from == len.at
        content == SubSeq(sig, from, from + len.v - 1)
        zeros == CHOOSE k \in 0 .. len.v :
                    /\ \A i \in 1 .. k : content[i] = 0
                    /\ k = len.v \/ content[k + 1] # 0
        digits == SubSeq(content, zeros + 1, len.v)
    IN IF ~len.ok \/ len.v = 0 \/ from + len.v - 1 > Len(sig) THEN NotRead
       ELSE IF len.v > 1 /\ \/ content[1] = 0 /\ content[2] < 128
                            \/ content[1] = 255 /\ content[2] >= 128
         THEN NotRead
       ELSE [ok |-> TRUE, at |-> from + len.v,
             v |-> IF content[1] >= 128 \/ Len(digits) > ScalarBytes \/ SetB32(NumberOf(digits)).overflow
                   THEN 0 ELSE NumberOf(digits)]
DerParseInteger(sig, at) ==
    IF at > Len(sig) \/ sig[at] # 2 THEN NotRead ELSE DerInteger(sig, DerReadLen(sig, at + 1))

NoSig == [ok |-> FALSE, r |-> 0, s |-> 0]
SigOf(sig, r, s) ==
    IF ~s.ok \/ s.at # Len(sig) + 1 THEN NoSig ELSE [ok |-> TRUE, r |-> r.v, s |-> s.v]
SigFrom(sig, r) == IF ~r.ok THEN NoSig ELSE SigOf(sig, r, DerParseInteger(sig, r.at))
SigWithin(sig, len) ==
    IF ~len.ok \/ len.at + len.v - 1 # Len(sig) THEN NoSig
    ELSE SigFrom(sig, DerParseInteger(sig, len.at))
SigParse(sig) ==
    IF sig = << >> \/ sig[1] # 48 THEN NoSig ELSE SigWithin(sig, DerReadLen(sig, 2))

(* A byte 0 goes before a number with its top bit set, and no other one.   *)
SigSerialize(size, r, s) ==
    LET full(v) == <<0>> \o BytesOf(v)
        skip(v) == CHOOSE k \in 0 .. ScalarBytes :
                    /\ \A i \in 1 .. k : full(v)[i] = 0 /\ full(v)[i + 1] < 128
                    /\ k = ScalarBytes \/ full(v)[k + 1] # 0 \/ full(v)[k + 2] >= 128
        short(v) == SubSeq(full(v), skip(v) + 1, ScalarBytes + 1)
        lens == Len(short(r)) + Len(short(s))
    IN [ok |-> size >= 6 + lens, size |-> 6 + lens,
        sig |-> <<48, 4 + lens, 2, Len(short(r))>> \o short(r) \o <<2, Len(short(s))>> \o short(s)]

----------------------------------------------------------------------------
(* The x of the point is sigr or, where that is below P, sigr + Order: both *)
(* are tried without leaving the Jacobian coordinates.                     *)
HasX(pr, sigr) ==
    LET xr == FSetInt(sigr)
    IN /\ ~pr.infinity
       /\ EqXVar(xr, pr) \/ (sigr < P - Order /\ EqXVar(FAdd(xr, FSetInt(Order)), pr))
SigVerify(preG, sigr, sigs, pubkey, message) ==
    LET sn == ScalarInverse(sigs)
    IN /\ sigr # 0 /\ sigs # 0
       /\ HasX(Ecmult(preG, SetGe(pubkey), Times(sn, sigr), Times(sn, message)), sigr)

\* Mutant: the sign of s does not change the recovery number.
RecidOfPoint(overflow, odd, high) == (IF overflow THEN 2 ELSE 0) + (IF odd THEN 1 ELSE 0)
RecidOf(overflow, odd, high) == (IF overflow THEN 2 ELSE 0) + (IF odd # high THEN 1 ELSE 0)

(* The lower of s and -s; the other sign is that of the other point. *)
SigOn(point, seckey, message, nonce) ==
    LET sigr == SetB32(FGetB32(FNormalize(point.x)))
        s == Times(ScalarInverse(nonce), (Times(sigr.v, seckey) + message) % Order)
        odd == FIsOdd(FNormalize(point.y))
    IN [ok |-> s # 0, r |-> sigr.v,
        s |-> IF IsHigh(s) THEN Negated(s) ELSE s,
        recid |-> RecidOf(sigr.overflow, odd, IsHigh(s))]
SigSign(ctx, prec, seckey, message, nonce) ==
    SigOn(SetGej(EcmultGen(ctx, prec, nonce)), seckey, message, nonce)

NoKey == [ok |-> FALSE, ge |-> GeInfinity]

(* The key is (s*R - m*G)/r, where R is the point that recid tells. *)
Affine(key) == [ok |-> ~key.infinity, ge |-> SetGejVar(key)]
RecoverFrom(preG, point, sigr, sigs, message) ==
    LET rn == ScalarInverse(sigr)
    IN IF ~point.ok THEN NoKey
       ELSE Affine(Ecmult(preG, SetGe(point.ge), Times(rn, sigs), Negated(Times(rn, message))))
SigRecover(preG, sigr, sigs, message, recid) ==
    LET plus == recid >= 2
        fx == IF plus THEN FAdd(FSetInt(sigr), FSetInt(Order)) ELSE FSetInt(sigr)
    IN IF sigr = 0 \/ sigs = 0 \/ (plus /\ sigr >= P - Order) THEN NoKey
       ELSE RecoverFrom(preG, SetXoVar(fx, recid % 2 = 1), sigr, sigs, message)

----------------------------------------------------------------------------
Uncompressed(tag, x, y) ==
    LET xy == Ge(FSetInt(x), FSetInt(y))
    IN IF ~FFits(x) \/ ~FFits(y) \/ (tag # 4 /\ FIsOdd(xy.y) # (tag = 7)) THEN NoKey
       ELSE [ok |-> GeIsValidVar(xy), ge |-> xy]
PubkeyParse(pub) ==
    LET x == NumberOf(SubSeq(pub, 2, ScalarBytes + 1))
        y == NumberOf(SubSeq(pub, ScalarBytes + 2, 2 * ScalarBytes + 1))
    IN IF Len(pub) = ScalarBytes + 1 /\ pub[1] \in {2, 3}
         THEN IF FFits(x) THEN SetXoVar(FSetInt(x), pub[1] = 3) ELSE NoKey
       ELSE IF Len(pub) = 2 * ScalarBytes + 1 /\ pub[1] \in {4, 6, 7} THEN Uncompressed(pub[1], x, y)
       ELSE NoKey

PubkeySerialize(elem, compressed) ==
    LET x == FGetB32(FNormalize(elem.x))
        y == FNormalize(elem.y)
    IN IF compressed THEN <<IF FIsOdd(y) THEN 3 ELSE 2>> \o BytesOf(x)
       ELSE <<4>> \o BytesOf(x) \o BytesOf(FGetB32(y))

PrivkeyTweakAdd(key, tweak) ==
    LET sum == (key + tweak) % Order IN [ok |-> sum # 0, key |-> sum]
PrivkeyTweakMul(key, tweak) == [ok |-> tweak # 0, key |-> Times(key, tweak)]
TweakedTo(pt, ge) == [ok |-> ~pt.infinity, ge |-> IF pt.infinity THEN ge ELSE SetGej(pt)]
PubkeyTweakAdd(preG, ge, tweak) == TweakedTo(Ecmult(preG, SetGe(ge), 1, tweak), ge)
PubkeyTweakMul(preG, ge, tweak) ==
    [ok |-> tweak # 0, ge |-> SetGej(Ecmult(preG, SetGe(ge), tweak, 0))]

----------------------------------------------------------------------------
(***************************************************************************)
(* Calls of secp256k1.c and recovery.h on a secret key r, a public key a   *)
(* and a signature, by a caller that keeps whatever a call leaves in its   *)
(* buffers.  rv and av are the multiples of G the keys stand for, -1 for a *)
(* public key that is all zeros; signed is the key and the message the     *)
(* signature was made for.                                                 *)
(***************************************************************************)
CONSTANTS SecretBytes,  \* numbers a caller may hold as a secret key
          Messages, Tweaks,
          NonceOf(_, _, _),     \* the nonce function: key, message, attempt
          Seeds,                \* <<scale, blind>> drawn from a seed
          TableG, TableGen,     \* PreG and GenPrec, made once
          Multiples,            \* Multiples[k + 1] is k*G, as <<x, y>>
          MaxCalls

VARIABLES r, a, rv, av, sig, signed, blinding, calls

vars == <<r, a, rv, av, sig, signed, blinding, calls>>

ZeroKey == [x |-> 0, y |-> 0]
NoSignature == [r |-> 0, s |-> 0, recid |-> 0]
Nobody == [key |-> 0, msg |-> 0]

PubkeySave(ge) == ToStorage(ge)
(* A key of zeros is refused, as an illegal argument. *)
PubkeyLoad(key) == [ok |-> key.x # 0, ge |-> FromStorage(key)]

SeckeyVerify(sec) == ~SetB32(sec).overflow /\ SetB32(sec).v # 0

PubkeyCreate(ctx, sec) ==
    IF SeckeyVerify(sec) THEN PubkeySave(SetGej(EcmultGen(ctx, TableGen, sec))) ELSE ZeroKey

(* Nonces are drawn until one gives a signature. *)
SignWith(ctx, sec, msg) ==
    LET attempt(count) ==
            LET nonce == NonceOf(sec, msg, count)
            IN IF SetB32(nonce).overflow \/ nonce = 0 THEN [ok |-> FALSE]
               ELSE SigSign(ctx, TableGen, sec, SetB32(msg).v, nonce)
        try[count \in 0 .. 20] ==
            LET t == attempt(count) IN IF t.ok THEN t ELSE try[count + 1]
    IN try[0]

Verify(sigIn, msg, key) ==
    /\ ~IsHigh(sigIn.s)
    /\ PubkeyLoad(key).ok
    /\ SigVerify(TableG, sigIn.r, sigIn.s, PubkeyLoad(key).ge, SetB32(msg).v)

Kept(q) == IF q.ok THEN PubkeySave(q.ge) ELSE ZeroKey
Recover(sigIn, msg) == Kept(SigRecover(TableG, sigIn.r, sigIn.s, SetB32(msg).v, sigIn.recid))

----------------------------------------------------------------------------
Multiple(k) == Multiples[k + 1]
KeyOf(k) == IF k \in {0, -1} THEN ZeroKey ELSE [x |-> Multiple(k)[1], y |-> Multiple(k)[2]]

Init ==
    /\ r \in SecretBytes /\ rv = IF r < Order THEN r ELSE -1
    /\ a = ZeroKey /\ av = -1
    /\ sig = NoSignature /\ signed = Nobody
    /\ blinding = GenReset
    /\ calls = 0

Call == calls < MaxCalls /\ calls' = calls + 1

Create == /\ Call
          /\ a' = PubkeyCreate(blinding, r)
          /\ av' = IF rv \in {0, -1} THEN -1 ELSE rv
          /\ UNCHANGED <<r, rv, sig, signed, blinding>>

Randomize == /\ Call
             /\ \/ \E seed \in Seeds :
                    blinding' = GenBlind(blinding, TableGen, seed[1], seed[2])
                \/ \E seed \in Seeds :
                    blinding' = GenBlind(GenReset, TableGen, seed[1], seed[2])
             /\ UNCHANGED <<r, a, rv, av, sig, signed>>

PrivkeyNegate == /\ Call
                 /\ r' = Negated(SetB32(r).v)
                 /\ rv' = Negated(r % Order)
                 /\ UNCHANGED <<a, av, sig, signed, blinding>>
PubkeyNegate == /\ Call
                /\ a' = IF PubkeyLoad(a).ok THEN PubkeySave(GeNeg(PubkeyLoad(a).ge)) ELSE ZeroKey
                /\ av' = IF av = -1 THEN -1 ELSE Negated(av)
                /\ UNCHANGED <<r, rv, sig, signed, blinding>>

(* The key is wiped when the call fails. *)
PrivkeyTweak(tweaked(_, _), tweak, meant) ==
    LET t == tweaked(SetB32(r).v, SetB32(tweak).v)
        ok == ~SetB32(tweak).overflow /\ t.ok
    IN /\ Call
       /\ r' = IF ok THEN t.key ELSE 0
       /\ rv' = IF tweak >= Order THEN 0 ELSE meant
       /\ UNCHANGED <<a, av, sig, signed, blinding>>
PubkeyTweak(tweaked(_, _, _), tweak, meant) ==
    \E t \in {IF PubkeyLoad(a).ok THEN tweaked(TableG, PubkeyLoad(a).ge, SetB32(tweak).v) ELSE NoKey} :
    LET ok == ~SetB32(tweak).overflow /\ t.ok
    IN /\ Call
       /\ a' = IF ok THEN PubkeySave(t.ge) ELSE ZeroKey
       /\ av' = IF tweak >= Order \/ av = -1 \/ meant = 0 THEN -1 ELSE meant
       /\ UNCHANGED <<r, rv, sig, signed, blinding>>
TweakAdd == \E tweak \in Tweaks :
    \/ PrivkeyTweak(PrivkeyTweakAdd, tweak, (r + tweak) % Order)
    \/ PubkeyTweak(PubkeyTweakAdd, tweak, (av + tweak) % Order)
TweakMul == \E tweak \in Tweaks :
    \/ PrivkeyTweak(PrivkeyTweakMul, tweak, (r * tweak) % Order)
    \/ PubkeyTweak(PubkeyTweakMul, tweak, (av * tweak) % Order)

(* The sum of the public key, of others, and of itself again. *)
Combine == \E others \in {<<>>, <<1, 2>>, <<Order - 1>>} :
    LET keys == <<a>> \o [i \in 1 .. Len(others) |-> KeyOf(others[i])]
        sum == FoldLeft(LAMBDA q, k : AddGe(q, PubkeyLoad(k).ge), GejInfinity, keys)
        log == FoldLeft(LAMBDA q, k : (q + k) % Order, av, others)
    IN /\ Call /\ av # -1
       /\ a' = IF sum.infinity THEN ZeroKey ELSE PubkeySave(SetGej(sum))
       /\ av' = IF log = 0 THEN -1 ELSE log
       /\ UNCHANGED <<r, rv, sig, signed, blinding>>

Sign == \E msg \in Messages :
    \E made \in {IF SeckeyVerify(r) THEN SignWith(blinding, r, msg) ELSE NoSignature} :
        /\ Call
        /\ sig' = [r |-> made.r, s |-> made.s, recid |-> made.recid]
        /\ signed' = IF rv \in {0, -1} THEN Nobody ELSE [key |-> rv, msg |-> msg]
        /\ UNCHANGED <<r, a, rv, av, blinding>>

(* The signature's other form, which is refused until it is normalized. *)
Flip == /\ Call /\ sig.s # 0
        /\ sig' = [sig EXCEPT !.s = Negated(@), !.recid = IF @ % 2 = 1 THEN @ - 1 ELSE @ + 1]
        /\ UNCHANGED <<r, a, rv, av, signed, blinding>>

(* A key recovered from the signature. *)
RecoverKey == /\ Call
              /\ a' = Recover(sig, signed.msg)
              /\ av' = IF signed = Nobody THEN -1 ELSE signed.key
              /\ UNCHANGED <<r, rv, sig, signed, blinding>>

Next == \/ Create \/ Randomize \/ PrivkeyNegate \/ PubkeyNegate \/ TweakAdd \/ TweakMul
        \/ Combine \/ Sign \/ Flip \/ RecoverKey

Spec == Init /\ [][Next]_vars

----------------------------------------------------------------------------
(* What the standard says of a signature, on the multiples of G.           *)
Valid(s, m, key) ==
    LET w == ScalarInverse(s.s)
        log == (Times(w, m % Order) + Times(Times(w, s.r), key)) % Order
    IN s.r # 0 /\ s.s # 0 /\ log # 0 /\ Multiple(log)[1] % Order = s.r

NormalizeSig(s) == IF IsHigh(s.s) THEN [s EXCEPT !.s = Negated(@)] ELSE s

(* A signature is one for its key and message, and verifies for another   *)
(* key or message only where the standard says so; the key comes out of   *)
(* it; the keys stand for their multiples whatever was done to both.      *)
KeysExact ==
    /\ a = KeyOf(av)
    /\ rv # -1 => r = rv
    /\ SeckeyVerify(r) <=> rv \notin {0, -1}
SignaturesVerify ==
    /\ signed # Nobody => Valid(sig, signed.msg, signed.key)
    /\ \A m \in Messages, s \in {sig, NormalizeSig(sig)} :
        Verify(s, m, a) <=> ~IsHigh(s.s) /\ av # -1 /\ Valid(s, m, av)
    /\ signed # Nobody => Recover(sig, signed.msg) = KeyOf(signed.key)
    /\ signed # Nobody => ~IsHigh(NormalizeSig(sig).s)

----------------------------------------------------------------------------
(* DER as X.690 has it, for a sequence of two integers. *)
IsDerInteger(content) ==
    \/ Len(content) = 1
    \/ Len(content) > 1 /\ \/ content[1] = 0 /\ content[2] >= 128
                           \/ content[1] = 255 /\ content[2] < 128
                           \/ content[1] \notin {0, 255}
IntegerOf(content) ==
    LET v == NumberOf(content)
    IN IF content[1] >= 128 \/ v >= Order THEN 0 ELSE v
DerEncodings(bytes) ==      \* the ways to cut bytes into two integers
    {k \in 1 .. Len(bytes) :
        LET rest == Len(bytes) - 6 - k
        IN /\ rest >= 1
           /\ bytes[1] = 48 /\ bytes[2] = Len(bytes) - 2
           /\ bytes[3] = 2 /\ bytes[4] = k /\ IsDerInteger(SubSeq(bytes, 5, 4 + k))
           /\ bytes[5 + k] = 2 /\ bytes[6 + k] = rest
           /\ IsDerInteger(SubSeq(bytes, 7 + k, Len(bytes)))}

(* Bytes like those of the signature: one changed, put in or left out.     *)
Near(bytes) ==
    {bytes}
    \cup {[bytes EXCEPT ![i] = v] : i \in DOMAIN bytes, v \in {0, 1, 2, 48, 127, 128, 129, 255}}
    \cup {SubSeq(bytes, 1, i) \o <<v>> \o SubSeq(bytes, i + 1, Len(bytes)) :
            i \in 0 .. Len(bytes), v \in {0, 1, 128, 129, 255}}
    \cup {SubSeq(bytes, 1, i - 1) \o SubSeq(bytes, i + 1, Len(bytes)) : i \in DOMAIN bytes}
    \cup {SubSeq(bytes, 1, i) : i \in 0 .. Len(bytes)}

(* What is written is read back, and nothing else is read than DER. *)
EncodingsExact ==
    /\ LET written == SigSerialize(72, sig.r, sig.s)
       IN /\ written.ok /\ Len(written.sig) = written.size
          /\ ~SigSerialize(written.size - 1, sig.r, sig.s).ok
          /\ SigParse(written.sig) = [ok |-> TRUE, r |-> sig.r, s |-> sig.s]
          /\ \A bytes \in Near(written.sig) :
                LET parsed == SigParse(bytes)
                    cuts == DerEncodings(bytes)
                IN /\ parsed.ok <=> cuts # {}
                   /\ \A k \in cuts :
                        /\ parsed.r = IntegerOf(SubSeq(bytes, 5, 4 + k))
                        /\ parsed.s = IntegerOf(SubSeq(bytes, 7 + k, Len(bytes)))
    /\ av # -1 =>
        /\ \A compressed \in BOOLEAN :
            LET read == PubkeyParse(PubkeySerialize(PubkeyLoad(a).ge, compressed))
            IN read.ok /\ PubkeySave(read.ge) = a
        /\ \A tag \in 0 .. 8, y \in {a.y, P - a.y, P, a.x} :
            LET read == PubkeyParse(<<tag, a.x, y>>)
            IN read.ok <=> tag \in {4, 6, 7} /\ y \in {a.y, P - a.y} /\ (tag # 4 => y % 2 = tag % 2)
        /\ ~PubkeyParse(<<2, P>>).ok
=============================================================================

--------------------------- MODULE FieldRegisters ---------------------------
(***************************************************************************)
(* Any sequence of calls of field.h on two elements, r and a, in any       *)
(* representation: each call is one that the comments and the VERIFY_CHECK *)
(* of the code allow.  rv and av are the numbers modulo P that the         *)
(* elements stand for.                                                     *)
(***************************************************************************)
EXTENDS Integers, Limbs

CONSTANTS P,
          MaxMagnitude,     \* what the words of the limbs have room for
          MulMagnitude,     \* what the accumulators have room for (8)
          Start,            \* numbers to start from, P and above included
          MaxCalls,
          FeSetB32(_), FeGetB32(_), FeVerify(_), FeResidue(_),
          FeNormalize(_), FeNormalizeWeak(_), FeNormalizeVar(_),
          FeNormalizesToZero(_), FeNormalizesToZeroVar(_),
          FeSetInt(_), FeClear, FeIsZero(_), FeIsOdd(_), FeCmpVar(_, _),
          FeNegate(_, _), FeMulInt(_, _), FeAdd(_, _), FeMul(_, _), FeSqr(_),
          FeCmov(_, _, _), FeToStorage(_), FeFromStorage(_), FeStorageCmov(_, _, _)

VARIABLES r, a, rv, av, calls

regs == <<r, a, rv, av, calls>>

(* A number below P is taken and kept; P and above are refused, and the    *)
(* caller goes on with zero.                                               *)
Loaded(v) == IF FeSetB32(v).ok THEN FeSetB32(v).fe ELSE FeClear
Taken(v) == IF FeSetB32(v).ok THEN v ELSE 0

Init ==
    \E v \in Start, w \in Start :
        /\ r = Loaded(v) /\ rv = Taken(v)
        /\ a = Loaded(w) /\ av = Taken(w)
        /\ calls = 0

Call == calls < MaxCalls /\ calls' = calls + 1

Result(fe, v) == Call /\ r' = fe /\ rv' = v % P /\ UNCHANGED <<a, av>>

SetInt == \E v \in 0 .. 1 : Result(FeSetInt(v), v)
Clear == Result(FeClear, 0)
Normalize == Result(FeNormalize(r), rv)
NormalizeWeak == Result(FeNormalizeWeak(r), rv)
NormalizeVar == Result(FeNormalizeVar(r), rv)

(* m is at least the magnitude. *)
Negate ==
    \E m \in {r.magnitude, MaxMagnitude - 1} :
        /\ r.magnitude <= m /\ m < MaxMagnitude
        /\ Result(FeNegate(r, m), P - rv)
MulInt ==
    \E k \in {0, 2, 3, MulMagnitude} :
        r.magnitude * k <= MaxMagnitude /\ Result(FeMulInt(r, k), rv * k)
Add == r.magnitude + a.magnitude <= MaxMagnitude /\ Result(FeAdd(r, a), rv + av)

Mul == /\ r.magnitude <= MulMagnitude /\ a.magnitude <= MulMagnitude
       /\ Result(FeMul(r, a), TimesMod(rv, av, P))
Sqr == r.magnitude <= MulMagnitude /\ Result(FeSqr(r), TimesMod(rv, rv, P))

Cmov == \E flag \in BOOLEAN : Result(FeCmov(r, a, flag), IF flag THEN av ELSE rv)
Storage ==
    /\ r.normalized /\ a.normalized
    /\ \E flag \in BOOLEAN :
        Result(FeFromStorage(FeStorageCmov(FeToStorage(r), FeToStorage(a), flag)),
               IF flag THEN av ELSE rv)

(* The caller goes on with the other element. *)
Swap == Call /\ r' = a /\ rv' = av /\ a' = r /\ av' = rv

Next ==
    \/ SetInt \/ Clear \/ Normalize \/ NormalizeWeak \/ NormalizeVar
    \/ Negate \/ MulInt \/ Add \/ Mul \/ Sqr \/ Cmov \/ Storage \/ Swap

Spec == Init /\ [][Next]_regs

----------------------------------------------------------------------------
(* An element stands for its number whatever was done to it, its limbs are *)
(* within what its magnitude says, a normalized one has one representation *)
(* only, and the tests answer for the number.                              *)
Stands(fe, v) ==
    /\ FeResidue(fe) = v
    /\ FeVerify(fe)
    /\ FeNormalizesToZero(fe) <=> v = 0
    /\ FeNormalizesToZeroVar(fe) <=> v = 0
    /\ fe.normalized => /\ FeGetB32(fe) = v
                        /\ FeIsZero(fe) <=> v = 0
                        /\ FeIsOdd(fe) <=> v % 2 = 1

Exact ==
    /\ Stands(r, rv) /\ Stands(a, av)
    /\ r.normalized /\ a.normalized =>
        FeCmpVar(r, a) = IF rv > av THEN 1 ELSE IF rv < av THEN -1 ELSE 0
=============================================================================

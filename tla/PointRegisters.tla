--------------------------- MODULE PointRegisters ---------------------------
(***************************************************************************)
(* Any sequence of calls of group.h and ecmult.h on a Jacobian point r and *)
(* an affine point a, under a blinding context of ecmult_gen: rv and av    *)
(* are the multiples of G that the points stand for.                       *)
(***************************************************************************)
EXTENDS EcMult

CONSTANTS StartR, StartA,   \* multiples of G
          Factors,          \* scalars to multiply by
          Scales,           \* elements to rescale by
          Windows,          \* widths of Pippenger's digits
          Lambda,           \* a*Lambda is what MulLambda makes of a
          TableG, TableGen, \* PreG and GenPrec, made once
          Multiples,        \* Multiples[k + 1] is k*G, as <<x, y>>
          MaxCalls

VARIABLES r, a, rv, av, blinding, calls

regs == <<r, a, rv, av, blinding, calls>>

Multiple(k) == Multiples[k + 1]

GeOf(k) == IF k = 0 THEN GeInfinity ELSE Ge(FSetInt(Multiple(k)[1]), FSetInt(Multiple(k)[2]))

Init ==
    \E k \in StartR, l \in StartA :
        /\ r = SetGe(GeOf(k)) /\ rv = k
        /\ a = GeOf(l) /\ av = l
        /\ blinding = GenReset
        /\ calls = 0

Call == calls < MaxCalls /\ calls' = calls + 1
Result(p, k) == Call /\ r' = p /\ rv' = k % Order /\ UNCHANGED <<a, av, blinding>>

Double == Result(DoubleVar(r).r, 2 * rv)
AddPoints == Result(AddVar(r, SetGe(a)).r, rv + av)
AddToItself == Result(AddVar(r, GejNeg(r)).r, 0) \/ Result(AddVar(r, TwiceVar(r)).r, 3 * rv)
AddAffine == Result(AddGeVar(r, a).r, rv + av)
AddAffineConst == ~a.infinity /\ Result(AddGe(r, a), rv + av)
(* b is a seen over another z. *)
AddOverZ == \E z \in Scales :
    LET over == SetGejZinv(a, FSetInt(z))
    IN Result(AddZinvVar(r, [over EXCEPT !.infinity = a.infinity], FInv(FSetInt(z))), rv + av)
Negate == Result(GejNeg(r), Order - rv)
Scale == \E s \in Scales : Result(Rescale(r, FSetInt(s)), rv)
(* The affine point becomes what the Jacobian one is, through storage too. *)
ToAffine ==
    /\ Call
    /\ a' = IF r.infinity THEN SetGejVar(r) ELSE FromStorage(ToStorage(SetGej(r)))
    /\ av' = rv
    /\ UNCHANGED <<r, rv, blinding>>
Together ==
    LET all == SetAllGejVar(<<r, SetGe(a), GejInfinity, r>>)
    IN Call /\ a' = all[4] /\ av' = rv /\ r' = SetGe(all[2]) /\ rv' = av /\ UNCHANGED blinding

Multiply == \E k \in Factors, g \in Factors \cup {-1} :
    Result(Ecmult(TableG, r, k, g), rv * k + (IF g = -1 THEN 0 ELSE g))
MultiplyConst == \E k \in Factors :
    ~a.infinity /\ k # 0 /\ Result(EcmultConst(a, k), av * k)
MultiplyG == \E k \in Factors : Result(EcmultGen(blinding, TableGen, k), k)
MultiplySeveral == \E k \in Factors, l \in Factors, g \in {-1, 1} :
    LET several == <<SetGe(a), r, GejNeg(r)>>
    IN Result(StraussWnaf(TableG, several, <<k, l, k>>, g),
              av * k + rv * l + (Order - rv) * k + (IF g = -1 THEN 0 ELSE g))
MultiplyMany == \E w \in Windows, k \in Factors, l \in Factors, g \in {-1, 1} :
    Result(PippengerBatch(w, <<a, GeNeg(a), ConstG>>, <<k, l, k>>, g),
           av * k + (Order - av) * l + k + (IF g = -1 THEN 0 ELSE g))
(* Randomize, or go back to no blinding. *)
Blind ==
    /\ Call
    /\ \/ blinding' = GenReset
       \/ \E s \in Scales, b \in Factors \ {0} : blinding' = GenBlind(blinding, TableGen, s, b)
    /\ UNCHANGED <<r, a, rv, av>>

Next == \/ Double \/ AddPoints \/ AddToItself \/ AddAffine \/ AddAffineConst \/ AddOverZ
        \/ Negate \/ Scale \/ ToAffine \/ Together
        \/ Multiply \/ MultiplyConst \/ MultiplyG \/ MultiplySeveral \/ MultiplyMany \/ Blind

Spec == Init /\ [][Next]_regs

----------------------------------------------------------------------------
StandsFor(p, k) ==
    /\ p.infinity <=> k = 0
    /\ ~p.infinity => /\ p.x.v = Multiple(k)[1]
                      /\ p.y.v = Multiple(k)[2]

(* Whatever was done, both points are the multiples of G they are to be,   *)
(* no coordinate has passed its magnitude, and the tests of group.h agree. *)
Exact ==
    /\ StandsFor(a, av) /\ StandsFor(SetGejVar(r), rv)
    /\ blinding.initial.infinity \/ StandsFor(SetGejVar(blinding.initial), Negated(blinding.blind))
    /\ ~r.infinity =>
        /\ GejIsValidVar(r)
        /\ EqXVar(FSetInt(Multiple(rv)[1]), r)
        /\ HasQuadYVar(r) <=> FIsQuad(FSetInt(Multiple(rv)[2]))
    /\ ~a.infinity =>
        /\ GeIsValidVar(a)
        /\ LET x == FSetInt(Multiple(av)[1])
               even == SetXoVar(x, FALSE)
               root == SetXquad(x)
           IN /\ even.ok /\ root.ok
              /\ {even.ge.y.v, SetXoVar(x, TRUE).ge.y.v} = {Multiple(av)[2], P - Multiple(av)[2]}
              /\ even.ge.y.v % 2 = 0
              /\ FIsQuad(root.ge.y)
        /\ StandsFor(MulLambda(a), (av * Lambda) % Order)
=============================================================================

--------------------------- MODULE ExponentChains ---------------------------
(***************************************************************************)
(* The fixed sequences of squarings and multiplications that compute       *)
(* inverses and roots, at their real size.  A step <<y, x, k, z>> makes y  *)
(* the 2^k'th power of x, times z.  An exponent is the set of the places   *)
(* of its binary ones.                                                     *)
(***************************************************************************)
EXTENDS Integers, Sequences

VARIABLES chain,    \* the function at work
          at,       \* steps taken
          power     \* of the argument that each variable holds

vars == <<chain, at, power>>

RECURSIVE Plus(_, _)
Plus(e, f) == IF f = {} THEN e
              ELSE Plus((e \cup f) \ (e \cap f), {i + 1 : i \in e \cap f})
Shifted(e, k) == {i + k : i \in e}
OnesOf(v) == {i \in 0 .. 30 : (v \div 2^i) % 2 = 1}

----------------------------------------------------------------------------
(* field_impl.h: blocks of 1s of both (p+1)/4 and p-2 *)
Blocks == <<
    <<"x2", "a", 1, "a">>,          <<"x3", "x2", 1, "a">>,
    <<"x6", "x3", 3, "x3">>,        <<"x9", "x6", 3, "x3">>,
    <<"x11", "x9", 2, "x2">>,       <<"x22", "x11", 11, "x11">>,
    <<"x44", "x22", 22, "x22">>,    <<"x88", "x44", 44, "x44">>,
    <<"x176", "x88", 88, "x88">>,   <<"x220", "x176", 44, "x44">>,
    <<"x223", "x220", 3, "x3">>,    <<"t1", "x223", 23, "x22">> >>

SqrtChain == Blocks \o << <<"t1", "t1", 6, "x2">>, <<"r", "t1", 2, "one">> >>

InvChain == Blocks \o << <<"t1", "t1", 5, "a">>, <<"t1", "t1", 3, "x2">>, <<"r", "t1", 2, "a">> >>

(* scalar_impl.h; the second half multiplies t by small powers.            *)
ScalarPowers == <<
    <<"u2", "a", 1, "one">>,        <<"x2", "u2", 0, "a">>,
    <<"u5", "u2", 0, "x2">>,        <<"x3", "u5", 0, "u2">>,
    <<"u9", "x3", 0, "u2">>,        <<"u11", "u9", 0, "u2">>,
    <<"u13", "u11", 0, "u2">>,      <<"x6", "u13", 2, "u11">>,
    <<"x8", "x6", 2, "x2">>,        <<"x14", "x8", 6, "x6">>,
    <<"x28", "x14", 14, "x14">>,    <<"x56", "x28", 28, "x28">>,
    <<"x112", "x56", 56, "x56">>,   <<"t", "x112", 14, "x14">> >>
ScalarDigits == <<
    <<3, "u5">>,  <<4, "x3">>,  <<4, "u5">>,  <<5, "u11">>, <<4, "u11">>, <<4, "x3">>,
    <<5, "x3">>,  <<6, "u13">>, <<4, "u5">>,  <<3, "x3">>,  <<5, "u9">>,  <<6, "u5">>,
    <<10, "x3">>, <<4, "x3">>,  <<9, "x8">>,  <<5, "u9">>,  <<6, "u11">>, <<4, "u13">>,
    <<5, "x2">>,  <<6, "u13">>, <<10, "u13">>, <<4, "u9">>, <<6, "a">> >>
ScalarInverseChain ==
    ScalarPowers
    \o [i \in 1 .. Len(ScalarDigits) |-> <<"t", "t", ScalarDigits[i][1], ScalarDigits[i][2]>>]
    \o << <<"r", "t", 8, "x6">> >>

(* Hacl_Ed25519.c: the inverse modulo 2^255 - 19, and with another end a   *)
(* candidate for a root.                                                   *)
CrecipBlocks == <<
    <<"a0", "a", 1, "one">>,    <<"b", "a0", 2, "a">>,      <<"a0", "b", 0, "a0">>,
    <<"b", "a0", 1, "b">>,      <<"b", "b", 5, "b">>,       <<"c", "b", 10, "b">>,
    <<"t", "c", 20, "c">>,      <<"b", "t", 10, "b">>,      <<"c", "b", 50, "b">>,
    <<"t", "c", 100, "c">>,     <<"t", "t", 50, "b">> >>
CrecipChain == CrecipBlocks \o << <<"r", "t", 5, "a0">> >>
CrecipRootChain == CrecipBlocks \o << <<"a0", "a", 1, "one">>, <<"r", "t", 2, "a0">> >>

Chains == [sqrt |-> SqrtChain, inv |-> InvChain, scalar_inverse |-> ScalarInverseChain,
           crecip |-> CrecipChain, crecip_root |-> CrecipRootChain]

----------------------------------------------------------------------------
Init == /\ chain \in DOMAIN Chains
        /\ at = 0
        /\ power = [x \in {"one", "a"} |-> IF x = "a" THEN {0} ELSE {}]

Step ==
    /\ at < Len(Chains[chain])
    /\ LET s == Chains[chain][at + 1]
           e == Plus(Shifted(power[s[2]], s[3]), power[s[4]])
       IN power' = [x \in DOMAIN power \cup {s[1]} |-> IF x = s[1] THEN e ELSE power[x]]
    /\ at' = at + 1
    /\ UNCHANGED chain

Spec == Init /\ [][Step]_vars

----------------------------------------------------------------------------
(* p = 2^256 - 2^32 - 977; the order is 2^256 less LowOrder. *)
LowOrder ==
    LET words == <<48831, 12233, 41331, 16429, 24516, 20663, 8985, 17745, 1>>   \* 16 bits, lowest first
    IN UNION {Shifted(OnesOf(words[i]), 16 * (i - 1)) : i \in 1 .. 9}
Power2(k) == {k}

(* The last step leaves the power that Fermat's theorem asks for.          *)
Reached(e) ==
    CASE chain = "sqrt" -> Plus(Plus(Shifted(e, 2), OnesOf(976)), Power2(32)) = Power2(256)
      [] chain = "inv" -> Plus(Plus(e, OnesOf(979)), Power2(32)) = Power2(256)
      [] chain = "scalar_inverse" -> Plus(Plus(e, Power2(1)), LowOrder) = Power2(256)
      [] chain = "crecip" -> Plus(e, OnesOf(21)) = Power2(255)
      [] chain = "crecip_root" -> Plus(e, OnesOf(2)) = Power2(252)

Exact == at = Len(Chains[chain]) => Reached(power["r"])
=============================================================================

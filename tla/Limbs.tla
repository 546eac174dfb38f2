------------------------------- MODULE Limbs -------------------------------
(***************************************************************************)
(* Numbers held as little-endian arrays of machine words, as the C code of *)
(* tezos-modded's signature libraries holds them: t[i] counts 2^(w*i).     *)
(* A limb may hold more than w bits; what an operation computes is then    *)
(* cut to the word it is stored in.                                        *)
(***************************************************************************)
LOCAL INSTANCE Integers
LOCAL INSTANCE FiniteSetsExt

LowBits(x, k) == x % 2^k
Shifted(x, k) == x \div 2^k

ValueOf(t, w) == MapThenSumSet(LAMBDA i : t[i] * 2^(w * i), DOMAIN t)
DigitsOf(v, n, w) == [i \in 0 .. n - 1 |-> LowBits(Shifted(v, w * i), w)]

(* x*y modulo p, without a number larger than 8*p on the way.             *)
TimesMod(x, y, p) ==
    LET high[i \in 0 .. 11] ==
            IF i = 11 THEN 0
            ELSE (high[i + 1] * 8 + x * LowBits(Shifted(y, 3 * i), 3)) % p
    IN high[0]

(* The value of t modulo p. *)
Residue(t, w, p) ==
    LET n == CHOOSE k \in DOMAIN t : k + 1 \notin DOMAIN t
        high[i \in 0 .. n] ==
            IF i = n THEN t[n] % p ELSE (TimesMod(high[i + 1], 2^w, p) + t[i]) % p
    IN high[0]

(* The k-th column of the product of a and b: what counts 2^(w*k).        *)
Column(a, b, k) ==
    MapThenSumSet(LAMBDA i : a[i] * b[k - i],
                  {i \in DOMAIN a : k - i \in DOMAIN b})

(* The same for a square, where a product off the diagonal is taken once, *)
(* with one factor doubled in a word of `word' bits.                       *)
SquareColumn(a, k, word) ==
    MapThenSumSet(LAMBDA i : (IF 2 * i = k THEN a[i]
                              ELSE LowBits(2 * a[i], word)) * a[k - i],
                  {i \in DOMAIN a : k - i \in DOMAIN a /\ 2 * i <= k})

(* Carries go from limb to limb, limb 0 first; the last one keeps what it *)
(* gets.                                                                   *)
CarryPass(t, w, word) ==
    LET n == CHOOSE k \in DOMAIN t : k + 1 \notin DOMAIN t
        full[i \in 0 .. n] ==
            LowBits(t[i] + (IF i = 0 THEN 0 ELSE Shifted(full[i - 1], w)), word)
    IN [i \in 0 .. n |-> IF i = n THEN full[n] ELSE LowBits(full[i], w)]
=============================================================================

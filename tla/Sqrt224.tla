------------------------------ MODULE Sqrt224 ------------------------------
(***************************************************************************)
(* The square root of uECC.c for secp224r1, whose prime is                 *)
(* 2^S * (2^(2^T) - 1) + 1 with S = 96 and T = 7, too often even for a     *)
(* fixed power: the number d + e*sqrt(-c) is raised to an odd power, then  *)
(* squared until its d vanishes.  f is -c*e^2 all along.                   *)
(***************************************************************************)
EXTENDS Integers

CONSTANTS S, T

P == 2^S * (2^(2^T) - 1) + 1

VARIABLES c,        \* the argument
          w0, w1,   \* d, e and f, twice
          i,        \* of the loop at work
          left,     \* squarings that RSS has still to make
          at        \* "powering", "searching", or "done"

vars == <<c, w0, w1, i, left, at>>

Squares == {(x * x) % P : x \in 1 .. P - 1}

Rs(w) == LET t == (w.d * w.d) % P IN
    [d |-> (t + w.f) % P, e |-> (2 * ((w.d * w.e) % P)) % P,
     f |-> (4 * ((t * w.f) % P)) % P]
Rm(u, w) ==
    LET e == (u.d * w.e + w.d * u.e) % P IN
    [d |-> (u.d * w.d - ((u.e * w.e) % P) * c) % P, e |-> e,
     f |-> (-c * ((e * e) % P)) % P]

Init ==
    /\ c \in Squares
    /\ w0 = [d |-> c, e |-> 1, f |-> (-c) % P]
    /\ w1 = w0
    /\ i = 0 /\ left = 1 /\ at = "powering"

(* RP: RSS of 2^i squarings, then RM with what they began from. *)
Square == /\ at = "powering" /\ left > 0
          /\ w1' = Rs(w1) /\ left' = left - 1
          /\ UNCHANGED <<c, w0, i, at>>
Combine ==
    LET product == Rm(w1, w0) IN
    /\ at = "powering" /\ left = 0
    /\ w0' = product
    /\ IF i < T - 1
       THEN w1' = product /\ i' = i + 1 /\ left' = 2^(i + 1) /\ UNCHANGED at
       ELSE w1' = Rs(product) /\ i' = 1 /\ at' = "searching" /\ UNCHANGED left
    /\ UNCHANGED c

(* Until d is zero after a squaring: the root is d/e of the number before. *)
Search ==
    LET next == Rs(w1) IN
    /\ at = "searching"
    /\ w0' = w1 /\ w1' = next
    /\ IF next.d = 0 \/ i = S - 1 THEN at' = "done" /\ UNCHANGED i
       ELSE i' = i + 1 /\ UNCHANGED at
    /\ UNCHANGED <<c, left>>

Next == Square \/ Combine \/ Search
Spec == Init /\ [][Next]_vars

----------------------------------------------------------------------------
(* The three numbers keep their relation, and when a d vanished the root   *)
(* is one (squared and without the division: d^2 = c*e^2).  At the end     *)
(* one did, unless the number had become one without square root of -c     *)
(* before the search began (at random, one time in 2^(S - 1)), or c is -1, *)
(* where the number begun with, c + sqrt(-c), has a zero factor.           *)
RootsExact ==
    /\ \A w \in {w0, w1} : w.f = (-c * ((w.e * w.e) % P)) % P
    /\ at = "done" /\ w1.d = 0 /\ w0.e # 0 =>
           (w0.d * w0.d) % P = (c * ((w0.e * w0.e) % P)) % P
    /\ at = "done" /\ w1.d # 0 => w1.e = 0 \/ c = P - 1
=============================================================================

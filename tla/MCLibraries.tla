---------------------------- MODULE MCLibraries ----------------------------
(***************************************************************************)
(* Small instances of the self-contained parts of the repository, one of   *)
(* them at work in each behaviour: the number representations and the      *)
(* curves of the signature libraries, the batches of ecmult_multi_var, the *)
(* trees of tree.ml and the page-number lists of midl.c.                   *)
(***************************************************************************)
EXTENDS Integers, Limbs, TLC, Sequences, SequencesExt

VARIABLES unit,             \* the machine at work
          r, a, rv, av,     \* its registers and the numbers they stand for
          calls,
          w, x, y, z        \* what else the machine keeps

NoMore == UNCHANGED <<w, x, y, z>>

----------------------------------------------------------------------------
(* Fields: four limbs stand for ten and for five. *)
F10 == INSTANCE Field10x26 WITH N <- 4, W <- 6, T <- 5, C0 <- 3, C1 <- 1, Word <- 10, DWord <- 18
F52 == INSTANCE Field5x52 WITH N <- 4, W <- 7, T <- 6, C <- 3, Word <- 14, DWord <- 28

Residue10(e) == Residue(e.n, 6, F10!P)
Residue52(e) == Residue(e.n, 7, F52!P)
Start10 == {0, 1, 2, F10!P - 1, F10!P \div 2, F10!P, F10!P + 1, 2^23 - 1, 31 * 2^18, 2^12 - 1}
Start52 == {0, 1, 2, F52!P - 1, F52!P \div 2, F52!P, F52!P + 1, 2^27 - 1, 63 * 2^21, 2^14 - 1}

Field10 == INSTANCE FieldRegisters WITH
    P <- F10!P, MaxMagnitude <- 8, MulMagnitude <- 2, MaxCalls <- 3, Start <- Start10, FeResidue <- Residue10,
    FeSetB32 <- F10!FeSetB32, FeGetB32 <- F10!FeGetB32, FeVerify <- F10!FeVerify,
    FeNormalize <- F10!FeNormalize, FeNormalizeWeak <- F10!FeNormalizeWeak, FeNormalizeVar <- F10!FeNormalizeVar,
    FeNormalizesToZero <- F10!FeNormalizesToZero, FeNormalizesToZeroVar <- F10!FeNormalizesToZeroVar,
    FeSetInt <- F10!FeSetInt, FeClear <- F10!FeClear, FeIsZero <- F10!FeIsZero, FeIsOdd <- F10!FeIsOdd,
    FeCmpVar <- F10!FeCmpVar, FeNegate <- F10!FeNegate, FeMulInt <- F10!FeMulInt, FeAdd <- F10!FeAdd,
    FeMul <- F10!FeMul, FeSqr <- F10!FeSqr, FeCmov <- F10!FeCmov,
    FeToStorage <- F10!FeToStorage, FeFromStorage <- F10!FeFromStorage, FeStorageCmov <- F10!FeStorageCmov
Field52 == INSTANCE FieldRegisters WITH
    P <- F52!P, MaxMagnitude <- 8, MulMagnitude <- 1, MaxCalls <- 3, Start <- Start52, FeResidue <- Residue52,
    FeSetB32 <- F52!FeSetB32, FeGetB32 <- F52!FeGetB32, FeVerify <- F52!FeVerify,
    FeNormalize <- F52!FeNormalize, FeNormalizeWeak <- F52!FeNormalizeWeak, FeNormalizeVar <- F52!FeNormalizeVar,
    FeNormalizesToZero <- F52!FeNormalizesToZero, FeNormalizesToZeroVar <- F52!FeNormalizesToZeroVar,
    FeSetInt <- F52!FeSetInt, FeClear <- F52!FeClear, FeIsZero <- F52!FeIsZero, FeIsOdd <- F52!FeIsOdd,
    FeCmpVar <- F52!FeCmpVar, FeNegate <- F52!FeNegate, FeMulInt <- F52!FeMulInt, FeAdd <- F52!FeAdd,
    FeMul <- F52!FeMul, FeSqr <- F52!FeSqr, FeCmov <- F52!FeCmov,
    FeToStorage <- F52!FeToStorage, FeFromStorage <- F52!FeFromStorage, FeStorageCmov <- F52!FeStorageCmov

----------------------------------------------------------------------------
(* Scalars: four words of 3 bits with the order 4021, eight with 16769161. *)
NC4 == (0 :> 3) @@ (1 :> 1) @@ (2 :> 1)
NC8 == (0 :> 7) @@ (1 :> 6) @@ (2 :> 5) @@ (3 :> 7) @@ (4 :> 1)
Start4 == {0, 1, 2, 4020, 4021, 4022, 4095, 2010, 2011, 64, 511, 2000, 1812}
Start8 == {0, 1, 16769160, 2^24 - 1, 8384580, 8^7}
S4 == INSTANCE Scalar WITH L <- 4, W <- 3, NC <- NC4
S8 == INSTANCE Scalar8x32 WITH W <- 3, NC <- NC8

Scalar4 == INSTANCE ScalarRegisters WITH
    Order <- S4!Order, L <- 4, W <- 3, MaxCalls <- 1, Start <- Start4,
    Lambda <- 1812, B1 <- -20, B2 <- 71, SplitShift <- 17, G1 <- 2314, G2 <- 652,
    ScalarSetB32 <- S4!ScalarSetB32, ScalarGetB32 <- S4!ScalarGetB32, ScalarSetInt <- S4!ScalarSetInt,
    ScalarClear <- S4!ScalarClear, CheckOverflow <- S4!CheckOverflow, IsZero <- S4!IsZero, IsOne <- S4!IsOne,
    IsEven <- S4!IsEven, IsHigh <- S4!IsHigh, ScalarEq <- S4!ScalarEq, ScalarNegate <- S4!ScalarNegate,
    CondNegate <- S4!CondNegate, ScalarAdd <- S4!ScalarAdd, CaddBit <- S4!CaddBit, ScalarMul <- S4!ScalarMul,
    ScalarSqr <- S4!ScalarSqr, ShrInt <- S4!ShrInt, Split128 <- S4!Split128, MulShiftVar <- S4!MulShiftVar,
    GetBitsVar <- S4!GetBitsVar, SplitLambda <- S4!SplitLambda
Scalar8 == INSTANCE ScalarRegisters WITH
    Order <- S8!Order, L <- 8, W <- 3, MaxCalls <- 1, Start <- Start8,
    Lambda <- 14195994, B1 <- -4425, B2 <- 769, SplitShift <- 29, G1 <- 24620, G2 <- 141668,
    ScalarSetB32 <- S8!ScalarSetB32, ScalarGetB32 <- S8!ScalarGetB32, ScalarSetInt <- S8!ScalarSetInt,
    ScalarClear <- S8!ScalarClear, CheckOverflow <- S8!CheckOverflow, IsZero <- S8!IsZero, IsOne <- S8!IsOne,
    IsEven <- S8!S!IsEven, IsHigh <- S8!IsHigh, ScalarEq <- S8!ScalarEq, ScalarNegate <- S8!ScalarNegate,
    CondNegate <- S8!CondNegate, ScalarAdd <- S8!ScalarAdd, CaddBit <- S8!CaddBit, ScalarMul <- S8!ScalarMul,
    ScalarSqr <- S8!ScalarSqr, ShrInt <- S8!ShrInt, Split128 <- S8!Split128, MulShiftVar <- S8!MulShiftVar,
    GetBitsVar <- S8!GetBitsVar, SplitLambda <- S8!S!SplitLambda

----------------------------------------------------------------------------
(* The primes of uECC.c, with words of half the width and words of the     *)
(* whole width of the units that its fast reductions move about.           *)
StartsVli(p) ==
    {v \in {0, 1, 2, 3, 7, 8, 63, 64, 511, 5000, p \div 2, p - 1, p - 2, p - 8, p - 64,
            2^20 + 2^9 + 77, 2^23 - 1, 2^14 - 8, 2^17 + 2^13} : v < p}
Vli32 == INSTANCE Vli WITH
    W <- 3, ByteBits <- 1, Unit <- 3, OmegaK1 <- 3, MaxCalls <- 1, Starts <- StartsVli, curve <- x
Vli64 == INSTANCE Vli WITH
    W <- 6, ByteBits <- 1, Unit <- 3, OmegaK1 <- 3, MaxCalls <- 1, Starts <- StartsVli, curve <- x

(* Signed numbers of GMP, of two words of 2 bits. *)
Gmp == INSTANCE NumGmp WITH
    W <- 2, NumLimbs <- 2, MaxCalls <- 2,
    Start <- {0, 1, 2, 3, 4, 15, 16, 63, 64, 100, 255}, Moduli <- {5, 13}

(* Powers at their real size, and the root that takes no fixed power. *)
Powers == INSTANCE ExponentChains WITH chain <- x, at <- calls, power <- r
Root == INSTANCE Sqrt224 WITH
    S <- 4, T <- 2, c <- rv, w0 <- r, w1 <- a, i <- calls, left <- x, at <- y

----------------------------------------------------------------------------
InitArithmetic ==
    \/ unit = "field 10x26" /\ Field10!Init /\ w = 0 /\ x = 0 /\ y = 0 /\ z = 0
    \/ unit = "field 5x52" /\ Field52!Init /\ w = 0 /\ x = 0 /\ y = 0 /\ z = 0
    \/ unit = "scalar 4x64" /\ Scalar4!Init /\ w = 0 /\ x = 0 /\ y = 0 /\ z = 0
    \/ unit = "scalar 8x32" /\ Scalar8!Init /\ w = 0 /\ x = 0 /\ y = 0 /\ z = 0
    \/ unit = "vli 32" /\ Vli32!Init /\ w = 0 /\ y = 0 /\ z = 0
    \/ unit = "vli 64" /\ Vli64!Init /\ w = 0 /\ y = 0 /\ z = 0
    \/ unit = "num" /\ Gmp!Init /\ w = 0 /\ x = 0 /\ y = 0 /\ z = 0
    \/ unit = "powers" /\ Powers!Init /\ a = 0 /\ rv = 0 /\ av = 0 /\ w = 0 /\ y = 0 /\ z = 0
    \/ unit = "root" /\ Root!Init /\ av = 0 /\ w = 0 /\ z = 0

NextArithmetic ==
    /\ UNCHANGED unit
    /\ \/ unit = "field 10x26" /\ Field10!Next /\ NoMore
       \/ unit = "field 5x52" /\ Field52!Next /\ NoMore
       \/ unit = "scalar 4x64" /\ Scalar4!Next /\ NoMore
       \/ unit = "scalar 8x32" /\ Scalar8!Next /\ NoMore
       \/ unit = "vli 32" /\ Vli32!Next /\ UNCHANGED <<w, y, z>>
       \/ unit = "vli 64" /\ Vli64!Next /\ UNCHANGED <<w, y, z>>
       \/ unit = "num" /\ Gmp!Next /\ NoMore
       \/ unit = "powers" /\ Powers!Step /\ UNCHANGED <<a, rv, av, w, y, z>>
       \/ unit = "root" /\ Root!Next /\ UNCHANGED <<av, w, z>>

(* Whatever is called in whatever order, a number in limbs or words stands *)
(* for what the calls compute in the integers, within the room that the    *)
(* next call may rely on, and every test answers for that number: the      *)
(* carries, the partial and final reductions and the fast reductions of    *)
(* field_*_impl.h, scalar_*_impl.h, num_gmp_impl.h, uECC.c and             *)
(* curve-specific.h lose nothing, and the chains of squarings end at the   *)
(* exponents of inverse and root.                                          *)
ArithmeticExact ==
    /\ unit = "field 10x26" => Field10!Exact
    /\ unit = "field 5x52" => Field52!Exact
    /\ unit = "scalar 4x64" => Scalar4!Exact
    /\ unit = "scalar 8x32" => Scalar8!Exact
    /\ unit = "vli 32" => Vli32!Exact
    /\ unit = "vli 64" => Vli64!Exact
    /\ unit = "num" => Gmp!Exact
    /\ unit = "powers" => Powers!Exact
    /\ unit = "root" => Root!RootsExact

----------------------------------------------------------------------------
(***************************************************************************)
(* Small curves of prime order for the curve functions of secp256k1 and    *)
(* uECC: y^2 = x^3 + 7 modulo 211, of order 199, and y^2 = x^3 - 3x + 6    *)
(* modulo 151, of order 149.  A message, a nonce and a secret key are      *)
(* bytes, the numbers at both ends of the order and past it among them.    *)
(***************************************************************************)
(* The multiples 0, 1, ..., order - 1 of g on y^2 = x^3 + c*x + b modulo p *)
(* by the sums of the textbook; << >> is infinity.                         *)
RECURSIVE PowerMod(_, _, _)
PowerMod(v, k, p) ==
    IF k = 0 THEN 1
    ELSE LET half == PowerMod((v * v) % p, k \div 2, p)
         IN IF k % 2 = 1 THEN (half * v) % p ELSE half
SumOf(s, t, c, p) ==
    LET over(m, n) == (m * PowerMod(n % p, p - 2, p)) % p
        slope == IF s = t THEN over(3 * s[1] * s[1] + c, 2 * s[2])
                 ELSE over(t[2] - s[2], t[1] - s[1])
        sx == (slope * slope - s[1] - t[1]) % p
    IN IF s = << >> THEN t ELSE IF t = << >> THEN s
       ELSE IF s[1] = t[1] /\ (s[2] + t[2]) % p = 0 THEN << >>
       ELSE <<sx, (slope * (s[1] - sx) - s[2]) % p>>
RECURSIVE MultipleOf(_, _, _, _)
MultipleOf(k, g, c, p) ==
    LET half == MultipleOf(k \div 2, g, c, p)
        twice == SumOf(half, half, c, p)
    IN IF k = 0 THEN << >> ELSE IF k % 2 = 0 THEN twice ELSE SumOf(twice, g, c, p)
MultiplesOf(g, order, c, p) == [k \in 1 .. order |-> MultipleOf(k - 1, g, c, p)] \o << >>

Curve == INSTANCE EcMult WITH
    P <- 211, B <- 7, Beta <- 14, Order <- 199, Bits <- 8, WindowA <- 3, WindowG <- 4,
    Gx <- 3, Gy <- 33, NumsX <- 22, GenBits <- 2
(* The tables of the contexts, as ecmult_static_context.h has its own.     *)
Stored(row) == [i \in DOMAIN row |-> [x |-> row[i][1], y |-> row[i][2]]]
FromZero(row) == [i \in 0 .. Len(row) - 1 |-> row[i + 1]]
CurveTableG == Stored(<< <<3, 33>>, <<92, 59>>, <<147, 66>>, <<66, 11>> >>)
CurveTableGen ==
    LET rows == << << <<68, 204>>, <<38, 21>>, <<79, 192>>, <<19, 89>> >>,
                   << <<176, 133>>, <<137, 89>>, <<108, 7>>, <<102, 184>> >>,
                   << <<81, 19>>, <<143, 78>>, <<51, 19>>, <<193, 111>> >>,
                   << <<170, 111>>, <<54, 102>>, <<71, 22>>, <<96, 130>> >> >>
    IN FromZero([j \in DOMAIN rows |-> FromZero(Stored(rows[j]))])
CurveMultiples == MultiplesOf(<<3, 33>>, 199, 0, 211)

Points == INSTANCE PointRegisters WITH
    P <- 211, B <- 7, Beta <- 14, Order <- 199, Bits <- 8, WindowA <- 3, WindowG <- 4,
    Gx <- 3, Gy <- 33, NumsX <- 22, GenBits <- 2, Lambda <- 106,
    StartR <- {0, 1, 2, 100, 198}, StartA <- {0, 1, 57, 198}, Factors <- {0, 1, 2, 3, 99, 100, 198},
    Scales <- {2, 210}, Windows <- {1, 2}, TableG <- CurveTableG, TableGen <- CurveTableGen, Multiples <- CurveMultiples, MaxCalls <- 1, blinding <- x

(* A nonce for each key, message and attempt: 0, the order and above       *)
(* included, but not the two that the small order makes useless for good.  *)
Nonce(key, msg, attempt) ==
    LET k == (key * 7 + msg * 13 + attempt * 31 + 5) % 256 IN IF k \in {59, 140} THEN 60 ELSE k

Keys == INSTANCE Ecdsa WITH
    P <- 211, B <- 7, Beta <- 14, Order <- 199, Bits <- 8, WindowA <- 3, WindowG <- 4,
    Gx <- 3, Gy <- 33, NumsX <- 22, GenBits <- 2, ScalarBytes <- 1, SizeBytes <- 8,
    SecretBytes <- {0, 1, 2, 57, 100, 150, 198, 199, 255}, Messages <- {0, 1, 199, 77, 200},
    Tweaks <- {0, 1, 98, 197, 199, 142}, Seeds <- {<<2, 3>>, <<210, 198>>},
    NonceOf <- Nonce, TableG <- CurveTableG, TableGen <- CurveTableGen, Multiples <- CurveMultiples, MaxCalls <- 2,
    sig <- x, signed <- y, blinding <- z

----------------------------------------------------------------------------
UeccMultiples == MultiplesOf(<<1, 2>>, 149, -3, 151)

UeccKeys == INSTANCE Uecc WITH
    P <- 151, CurveB <- 6, MinusThree <- TRUE, N <- 149, NBits <- 8, Gx <- 1, Gy <- 2,
    Width <- 8, ByteBits <- 3, MaxTries <- 3, Multiples <- UeccMultiples,
    SecretBytes <- {0, 1, 2, 3, 57, 146, 147, 148, 149, 255},
    Abscissas <- {v \in 0 .. 255 : v % 5 = 1} \cup {0, 2, 147, 149, 150, 152, 255},
    Leftovers <- {[x |-> 0, y |-> 0], [x |-> 5, y |-> 5], [x |-> 1, y |-> 2]},
    DrawSets <- {<< >>, <<0, 5>>, <<77>>, <<255, 149, 148, 1, 200, 60, 3>>, <<1, 149, 0, 255>>},
    Hashes <- {[v |-> 0, size |-> 3], [v |-> 100, size |-> 3], [v |-> 301, size |-> 3],
               [v |-> 3000, size |-> 4], [v |-> 7, size |-> 1]},
    Nonces <- {0, 2, 77, 146, 148, 149}, MaxCalls <- 2,
    sig <- x, signed <- y

----------------------------------------------------------------------------
InitCurves ==
    \/ unit = "points" /\ Points!Init /\ w = 0 /\ y = 0 /\ z = 0
    \/ unit = "keys" /\ Keys!Init /\ w = 0
    \/ unit = "uecc" /\ UeccKeys!Init /\ w = 0 /\ z = 0

NextCurves ==
    /\ UNCHANGED unit
    /\ \/ unit = "points" /\ Points!Next /\ UNCHANGED <<w, y, z>>
       \/ unit = "keys" /\ Keys!Next /\ UNCHANGED w
       \/ unit = "uecc" /\ UeccKeys!Next /\ UNCHANGED <<w, z>>

(* Every way of adding, doubling, scaling and multiplying points, through  *)
(* infinity, equal and opposite arguments, tables, digits of every window  *)
(* and the blinding, gives the multiple of the base point that group.h and *)
(* ecmult.h promise, and the tables are those that would be built; a key   *)
(* pair is a pair after any sequence of tweaks, negations and changes of   *)
(* form, the keys that cannot be refused included.                         *)
KeysExact ==
    /\ unit = "points" => Points!Exact
    /\ unit = "points" => CurveTableG = Curve!PreG /\ CurveTableGen = Curve!GenPrec
    /\ unit = "keys" => Keys!KeysExact
    /\ unit = "uecc" => UeccKeys!KeysExact

(* A signature verifies for its key and message and for no other of the    *)
(* model, also normalised, recovered from, read back from both encodings,  *)
(* and after the key was tweaked meanwhile.                                *)
SignaturesVerify ==
    /\ unit = "keys" => Keys!SignaturesVerify /\ Keys!EncodingsExact
    /\ unit = "uecc" => UeccKeys!SignaturesVerify

----------------------------------------------------------------------------
(* A tree grows to 130 elements: two elements more than a complete tree. *)
T == INSTANCE AppendTree

InitTree == r = T!Leaf(1) /\ a = <<1>>
AppendElement ==
    /\ Len(a) < 130
    /\ r' = T!AppendTo(r, Len(a) + 1)
    /\ a' = Append(a, Len(a) + 1)

(* The leaves are the elements in the order they were appended, so that    *)
(* two trees of one length have one shape whatever they hold; a tree is as *)
(* shallow as its number of elements allows, since append' goes down only  *)
(* where there is room; exists_path leads to the element it was asked for. *)
RECURSIVE Follow(_, _)
Follow(t, path) ==
    IF path = << >> THEN t ELSE Follow(IF Head(path) = "Left" THEN t.a ELSE t.b, Tail(path))

TreeExact ==
    LET size == Len(a)
    IN  /\ T!ToList(r) = a
        /\ size <= 2 ^ T!Depth(r)
        /\ size > 1 => 2 ^ (T!Depth(r) - 1) < size
        /\ \A e \in ToSet(a) : Follow(r, T!ExistsPath(r, e)) = T!Leaf(e)

(* Lists of four page numbers, repeated and out of order. *)
StartedLists ==
    UNION {[1 .. k -> 1 .. 3] : k \in 0 .. 2}
        \cup {<<4, 3, 3, 1, 2, 4, 2>>, <<1, 2, 3, 4>>, <<4, 4, 3, 2, 1>>,
              <<2, 1, 2, 1, 2, 1>>, <<3, 1, 4, 1, 2, 3, 4, 2, 1>>}
Lists == INSTANCE Midl WITH
    Ids <- 1 .. 4, Small <- 2, UmMax <- 3, Block <- 4, Started <- StartedLists, MaxCalls <- 2,
    ids <- r, alloc <- rv, held <- a, sorted <- av, pairs <- x, stored <- y

(* Scratch spaces on both sides of what a batch needs, at the real sizes. *)
ScratchSpaces ==
    {[init |-> least, max |-> most] :
        least \in {0, 1000}, most \in {1000, 3247 + 96, 3248 + 96, 10000, 3248 * 10 + 95, 40000, 300000}}
    \cup {[init |-> 0, max |-> most] : most \in {0, 96, 97, 700}}
Sums == INSTANCE Batches WITH
    Counts <- {0, 1, 2, 10, 11, 12, 87, 88, 176, 200}, Spaces <- ScratchSpaces,
    MaxBatch <- 150, Threshold <- 88, MaxCalls <- 2,
    space <- r, plan <- a, n <- rv, withG <- av, left <- x, i <- y, read <- z, status <- w

Init ==
    \/ InitArithmetic
    \/ InitCurves
    \/ unit = "trees" /\ InitTree /\ rv = 0 /\ av = 0 /\ calls = 0 /\ w = 0 /\ x = 0 /\ y = 0 /\ z = 0
    \/ unit = "lists" /\ Lists!Init /\ w = 0 /\ z = 0
    \/ unit = "sums" /\ Sums!Init

Next ==
    \/ NextArithmetic
    \/ NextCurves
    \/ /\ UNCHANGED unit
       /\ \/ unit = "trees" /\ AppendElement /\ UNCHANGED <<rv, av, calls>> /\ NoMore
          \/ unit = "lists" /\ Lists!Next /\ UNCHANGED <<w, z>>
          \/ unit = "sums" /\ Sums!Next

Spec == Init /\ [][Next]_<<unit, r, a, rv, av, calls, w, x, y, z>>

(* A list loses, invents and reorders nothing: a tree of append' holds the *)
(* elements in order, as shallow as their number allows, and exists_path   *)
(* leads to each; a page-number list holds what was put on it, sorted when *)
(* it must be, and a search finds it; the batches of a sum count every     *)
(* point once, within the scratch space.                                   *)
NothingLost ==
    /\ unit = "trees" => TreeExact
    /\ unit = "lists" => Lists!ListsExact
    /\ unit = "sums" => Sums!BatchesCover
=============================================================================

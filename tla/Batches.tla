------------------------------ MODULE Batches ------------------------------
(***************************************************************************)
(* secp256k1_ecmult_multi_var: the sum of a multiple of G and of n         *)
(* multiples of points that a callback hands over, in batches that fit a   *)
(* scratch space.  Sizes are those in bytes of the 64-bit build; which     *)
(* points a batch reads is kept, what it computes is EcMult's.             *)
(***************************************************************************)
EXTENDS Integers, Sequences, FiniteSets, SequencesExt

CONSTANTS Counts,       \* numbers of points of a call
          Spaces,       \* [init, max] of scratch spaces
          MaxBatch,     \* ECMULT_MAX_POINTS_PER_BATCH
          Threshold,    \* ECMULT_PIPPENGER_THRESHOLD
          MaxCalls

FeSize == 40
GeSize == 88
GejSize == 128
ScalarSize == 32
IntSize == 4
StraussPointState == 1040
PippengerState == 16    \* and secp256k1_pippenger_point_state
Alignment == 16
Objects == 6            \* STRAUSS_SCRATCH_OBJECTS, PIPPENGER_SCRATCH_OBJECTS
TableSize == 8          \* ECMULT_TABLE_SIZE(WINDOW_A)

CeilDiv(x, y) == (x + y - 1) \div y
Lesser(x, y) == IF x < y THEN x ELSE y
WnafSize(w) == CeilDiv(256, w)

VARIABLES space,        \* the scratch: [offset, init, max]
          n,            \* points of the call, and whether G has a scalar
          withG,
          plan,         \* [pippenger, batches, points]: chosen by multi_var
          left, i,      \* its n and its i
          read,         \* <<first point, number of points, G too>> of each batch
          status,       \* "idle", "summing", "done" or "failed"
          calls

vars == <<space, n, withG, plan, left, i, read, status, calls>>

----------------------------------------------------------------------------
(* scratch_impl.h *)
MaxAllocation(s) == IF s.max <= Objects * Alignment THEN 0 ELSE s.max - Objects * Alignment
Resize(s, size) ==
    LET room == size + Objects * Alignment IN
    [ok |-> room <= s.max,
     s |-> IF room > s.init /\ room <= s.max THEN [s EXCEPT !.init = room] ELSE s]
Alloc(s, size) ==
    LET up == CeilDiv(size, Alignment) * Alignment IN
    IF s.null \/ up + s.offset > s.init THEN [s EXCEPT !.null = TRUE] ELSE [s EXCEPT !.offset = @ + up]
Reset(s) == [s EXCEPT !.offset = 0]
AllocAll(s, sizes) == FoldLeft(Alloc, Reset(s), sizes)

----------------------------------------------------------------------------
StraussScratchSize(points) ==
    points * ((GeSize + GejSize + FeSize) * TableSize + StraussPointState + GejSize + ScalarSize)
StraussMaxPoints(s) == MaxAllocation(s) \div StraussScratchSize(1)
StraussObjects(points) ==
    << points * GejSize, points * ScalarSize, points * TableSize * GejSize,
       points * TableSize * FeSize, points * TableSize * GeSize, points * StraussPointState >>

(* The number of points up to which a window of 1, 2, ... bits is the best *)
Optimal == <<1, 11, 45, 100, 275, 625, 1850, 3400, 9630, 17900, 32800>>
MaxWindow == Len(Optimal) + 1
BucketWindow(points) == 1 + Cardinality({w \in DOMAIN Optimal : points > Optimal[w]})
BucketWindowInv(window) == IF window < MaxWindow THEN Optimal[window] ELSE 2^30

EntrySize(window) ==
    GeSize + ScalarSize + PippengerState + (WnafSize(window + 1) + 1) * IntSize
PippengerScratchSize(points, window) ==
    2^window * GejSize + PippengerState + (points + 1) * EntrySize(window)
PippengerObjects(points) ==
    LET window == BucketWindow(points) IN
    << (points + 1) * GeSize, (points + 1) * ScalarSize, PippengerState,
       (points + 1) * PippengerState, (points + 1) * WnafSize(window + 1) * IntSize,
       2^window * GejSize >>

(* The windows are tried in turn while each is filled to its limit: what   *)
(* is returned can be used, and every smaller number too.                  *)
PippengerMaxPoints(s) ==
    LET overhead(w) == 2^w * GejSize + EntrySize(w) + PippengerState
        fits(w) == overhead(w) <= MaxAllocation(s)
        points(w) == Lesser((MaxAllocation(s) - overhead(w)) \div EntrySize(w), BucketWindowInv(w))
        reached(w) == \A v \in 1 .. w - 1 : fits(v) /\ points(v) >= BucketWindowInv(v)
        tried == {w \in 1 .. MaxWindow : reached(w) /\ fits(w)}
        found == {points(w) : w \in tried} \cup {0}
    IN CHOOSE p \in found : \A q \in found : q <= p

Batched(pippenger, points, most) ==
    LET batches == CeilDiv(points, most) IN
    [pippenger |-> pippenger, batches |-> batches, points |-> CeilDiv(points, batches)]

NoPlan == [pippenger |-> FALSE, batches |-> 0, points |-> 0]
Plan(s, points) ==
    LET most == PippengerMaxPoints(s)
        first == Batched(TRUE, points, Lesser(most, MaxBatch))
    IN IF most = 0 THEN NoPlan
       ELSE IF first.points >= Threshold THEN first
       ELSE IF StraussMaxPoints(s) = 0 THEN NoPlan
       ELSE Batched(FALSE, points, StraussMaxPoints(s))

----------------------------------------------------------------------------
Init ==
    /\ \E s \in Spaces : space = [offset |-> 0, init |-> s.init, max |-> s.max, null |-> FALSE]
    /\ n = 0 /\ withG = FALSE /\ plan = NoPlan /\ left = 0 /\ i = 0 /\ read = << >>
    /\ status = "idle" /\ calls = 0

(* ecmult_multi_var up to its loop.  G alone is multiplied at once. *)
MultiVar ==
    /\ status # "summing" /\ calls < MaxCalls /\ calls' = calls + 1
    /\ \E points \in Counts, g \in BOOLEAN :
        /\ n' = points /\ withG' = g /\ left' = points /\ i' = 0
        /\ plan' = IF points = 0 THEN NoPlan ELSE Plan(space, points)
        /\ read' = IF points = 0 /\ g THEN << <<0, 0, TRUE>> >> ELSE << >>
        /\ status' = IF points = 0 THEN "done" ELSE IF plan' = NoPlan THEN "failed" ELSE "summing"
    /\ UNCHANGED space

(* One batch; the callback may refuse any of its points.  A batch of no    *)
(* points and without G touches nothing.                                   *)
Batch ==
    LET points == Lesser(left, plan.points)
        g == withG /\ i = 0
        size == IF plan.pippenger THEN PippengerScratchSize(points, BucketWindow(points))
                ELSE StraussScratchSize(points)
        room == Resize(space, size)
        objects == IF plan.pippenger THEN PippengerObjects(points) ELSE StraussObjects(points)
        last == i + 1 = plan.batches
    IN /\ status = "summing"
       /\ IF points = 0 /\ ~g
          THEN status' = (IF last THEN "done" ELSE "summing") /\ UNCHANGED space
          ELSE /\ space' = IF room.ok THEN AllocAll(room.s, objects) ELSE room.s
               /\ IF ~room.ok THEN status' = "failed"
                  ELSE \/ status' = IF last THEN "done" ELSE "summing"
                       \/ points > 0 /\ status' = "idle"     \* refused by the callback
       /\ read' = Append(read, <<plan.points * i, points, g>>)
       /\ left' = left - points /\ i' = i + 1
       /\ UNCHANGED <<n, withG, plan, calls>>

Next == MultiVar \/ Batch

Spec == Init /\ [][Next]_vars

----------------------------------------------------------------------------
(* A sum that is done has counted every point once and G once when it is   *)
(* given; whatever the scratch space holds from calls before, the batches  *)
(* planned fit it and every allocation is given.                           *)
BatchesCover ==
    /\ status = "done" =>
        /\ \A p \in 0 .. n - 1 :
            Cardinality({k \in DOMAIN read : read[k][1] <= p /\ p < read[k][1] + read[k][2]}) = 1
        /\ \A k \in DOMAIN read : read[k][1] + read[k][2] <= n
        /\ Cardinality({k \in DOMAIN read : read[k][3]}) = IF withG THEN 1 ELSE 0
    /\ status = "failed" => plan = NoPlan
    /\ ~space.null
=============================================================================

----------------------------- MODULE MCLmdbTree -----------------------------
(***************************************************************************)
(* Bounds for LmdbTree.  Tall: pages so small that five keys make a tree   *)
(* of three levels.  Wide: items of two sizes, so that pages are split     *)
(* where their bytes are and an overwritten item may outgrow its page.     *)
(* Shared: two cursors of the caller in one tree.  Bulk: more items of two *)
(* sizes, with no cursor open.                                             *)
(***************************************************************************)
EXTENDS LmdbTree

CONSTANTS c1, c2

Small == [leaf |-> 2, branch |-> 3]
Large == [leaf |-> 5, branch |-> 3]

Tall   == [room |-> Small, keys |-> 1..5, sizes |-> {1},    cursors |-> {c1},
           dirs |-> {1..3, 2..4, 4..5}]
Wide   == [room |-> Large, keys |-> 1..3, sizes |-> {1, 2}, cursors |-> {c1},
           dirs |-> {1..2, 2..3}]
Shared == [room |-> Small, keys |-> 1..3, sizes |-> {1},    cursors |-> {c1, c2},
           dirs |-> {1..2, 2..3}]
Bulk   == [room |-> Large, keys |-> 1..4, sizes |-> {1, 2}, cursors |-> {},
           dirs |-> {1..2, 2..3, 3..4}]

MCCursors == {c1, c2}
MCKeys    == 1..5
MCBounds  == {Tall, Wide, Shared, Bulk}
Alone     == {Bulk}
=============================================================================

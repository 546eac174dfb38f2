---------------------------- MODULE MCLmdbTxn ----------------------------
(***************************************************************************)
(* LmdbTxn for TLC, with a process p that writes and a process q that may  *)
(* read.  A behaviour has either both and a fault; or transactions of      *)
(* several operations on several keys, without readers; or two faults      *)
(* without readers, so that the lock file may be left to nobody; or a      *)
(* table of readers that a dead one fills.                                 *)
(***************************************************************************)
EXTENDS LmdbTxn

CONSTANTS k1, k2, p, q

FaultyBounds ==
    [readers |-> {q}, slots |-> 2, keys |-> {k1}, ops |-> 1, nests |-> 0, faults |-> 1]
BusyBounds ==
    [readers |-> {}, slots |-> 1, keys |-> {k1, k2}, ops |-> 2, nests |-> 0, faults |-> 0]
StoppedBounds ==
    [readers |-> {}, slots |-> 1, keys |-> {k1}, ops |-> 1, nests |-> 0, faults |-> 2]
FullBounds ==
    [readers |-> {q}, slots |-> 1, keys |-> {}, ops |-> 0, nests |-> 0, faults |-> 1]

NestedBounds ==
    [readers |-> {}, slots |-> 1, keys |-> {k1}, ops |-> 2, nests |-> 1, faults |-> 0]

MCKeys == {k1, k2}
MCReaders == {q}
MCWriters == {p}
MCBounds == {FaultyBounds, BusyBounds, StoppedBounds, FullBounds, NestedBounds}
=============================================================================

------------------------------ MODULE LmdbTree ------------------------------
(***************************************************************************)
(* One database of LMDB in a write transaction, with cursors open on it:   *)
(* mdb_cursor_get, mdb_cursor_put and mdb_cursor_del through a cursor of   *)
(* the caller, mdb_put and mdb_del through one of their own.  A cursor     *)
(* must keep its place whatever the others do to the tree.                 *)
(***************************************************************************)
EXTENDS BTree

LOCAL INSTANCE Functions

CONSTANTS
    Cursors,    \* the caller's
    Keys,       \* positive integers
    Bounds      \* sets of [room, keys, sizes, cursors, dirs] to choose from

VARIABLES
    tree,       \* the record of BTree
    answer,     \* what the last call returned
    bound       \* a member of Bounds

vars == <<tree, answer, bound>>

Finished == -2       \* what remove_dir returns, always

Init ==
    /\ bound \in Bounds
    /\ tree = [pages |-> [pg \in {} |-> 0], root |-> NoPage, depth |-> 0, leaves |-> 0,
               branches |-> 0, entries |-> 0, room |-> bound.room,
               cur |-> [c \in bound.cursors |-> NewCursor]]
    /\ answer = NotFound

(***************************************************************************)
(* Which free page mdb_page_alloc hands out does not matter here: between  *)
(* calls the pages are numbered in the order of the tree.  A cursor on a   *)
(* page that is not in the tree keeps no page.                             *)
(***************************************************************************)
RECURSIVE Preorder(_, _)
Preorder(s, pg) ==
    IF IsLeaf(s, pg) THEN <<pg>>
    ELSE LET below[i \in 0..NumKeys(s, pg)] ==
                IF i = 0 THEN <<pg>>
                ELSE below[i - 1] \o Preorder(s, NodeAt(s, pg, i - 1).child)
         IN  below[NumKeys(s, pg)]

Renumbered(s) ==
    LET order == IF s.root = NoPage THEN <<>> ELSE Preorder(s, s.root)
        number(pg) == IF \E i \in DOMAIN order : order[i] = pg
                      THEN CHOOSE i \in DOMAIN order : order[i] = pg ELSE NoPage
        page(p) == [p EXCEPT !.nodes = [i \in DOMAIN @ |-> [@[i] EXCEPT !.child = number(@)]]]
        cursor(cu) == [cu EXCEPT !.stack = [i \in 1..cu.snum |->
                                              [@[i] EXCEPT !.pg = number(@)]]]
    IN  [s EXCEPT !.pages = [i \in DOMAIN order |-> page(s.pages[order[i]])],
                  !.root = number(@),
                  !.cur = [c \in DOMAIN @ |-> cursor(@[c])]]

Done(s, a) ==
    /\ tree' = Renumbered(s)
    /\ answer' = a
    /\ UNCHANGED bound

\* mdb_cursor_get clears C_DEL, whatever it found.
Got(c, result) ==
    Done([tree EXCEPT !.cur[c] = [result.cu EXCEPT !.del = FALSE]], result.key)

SeekFirst(c)  == Got(c, First(tree, tree.cur[c]))
SeekLast(c)   == Got(c, Final(tree, tree.cur[c]))
MoveNext(c)   == Got(c, Next(tree, tree.cur[c]))
MovePrev(c)   == Got(c, Prev(tree, tree.cur[c]))
GetCurrent(c) == Got(c, Current(tree, tree.cur[c]))

SeekRange(c, k) ==
    LET set == CursorSet(tree, tree.cur[c], k, TRUE)
    IN  Got(c, IF set.found THEN Found(tree, set.cu) ELSE Nothing(set.cu))

PutAt(c, k, n) == Done(CursorPut(tree, c, Item(k, n)), k)

DelAt(c) ==
    LET cu == tree.cur[c]
    IN CASE ~cu.init -> Done(tree, Invalid)
         [] cu.init /\ PastEnd(tree, cu) -> Done(tree, NotFound)
         [] cu.init /\ ~PastEnd(tree, cu) -> Done(CursorDel0(tree, c), Found(tree, cu).key)

\* mdb_put and mdb_del: a cursor of their own, which the transaction knows.
Put(k, n) ==
    LET mc == Fresh(tree)
    IN  Done(Close(CursorPut(Open(tree, mc, NewCursor), mc, Item(k, n)), mc), k)

\* Mutant: the cursor, which is on the stack, is left in mt_cursors.
DelLeftLinked(k) ==
    LET mc  == Fresh(tree)
        set == CursorSet(tree, NewCursor, k, FALSE)
    IN  IF set.found
        THEN Done(CursorDel0(Open(tree, mc, set.cu), mc), k)
        ELSE Done(tree, NotFound)

Del(k) ==
    LET mc  == Fresh(tree)
        set == CursorSet(tree, NewCursor, k, FALSE)
    IN  IF set.found
        THEN Done(Close(CursorDel0(Open(tree, mc, set.cu), mc), mc), k)
        ELSE Done(tree, NotFound)

(***************************************************************************)
(* remove_dir of raw_store.ml.  The keys with the directory's prefix are   *)
(* an interval dir.  A cursor of its own is set to the first of them, and  *)
(* cursor_iter gets a key, deletes it and goes to the next, until a key    *)
(* that is not in the directory ends the iteration with an error.          *)
(***************************************************************************)
Least(dir) == CHOOSE x \in dir : \A y \in dir : x <= y

RECURSIVE Sweep(_, _, _)
SweepOn(s, mc, dir, next) ==
    IF next.key = NotFound THEN [tree |-> s, ok |-> TRUE]
    ELSE Sweep([s EXCEPT !.cur[mc] = [next.cu EXCEPT !.del = FALSE]], mc, dir)
Swept(s, mc, dir) == SweepOn(s, mc, dir, Next(s, s.cur[mc]))
Sweep(s, mc, dir) ==
    IF Current(s, s.cur[mc]).key \in dir THEN Swept(CursorDel0(s, mc), mc, dir)
    ELSE [tree |-> s, ok |-> FALSE]

SweepFrom(mc, dir, set) ==
    IF set.found THEN Sweep(Open(tree, mc, set.cu), mc, dir)
    ELSE [tree |-> Open(tree, mc, set.cu), ok |-> FALSE]

\* Inside a transaction of the caller, where the error is dropped.
RemoveDirInside(dir) ==
    LET mc    == Fresh(tree)
        sweep == SweepFrom(mc, dir, CursorSet(tree, NewCursor, Least(dir), TRUE))
    IN  Done(Close(sweep.tree, mc), Finished)

\* In a transaction of its own, which with_rw_db aborts on any error; the
\* error KeyNotFound is dropped after that.
RemoveDir(dir) ==
    LET mc    == Fresh(tree)
        sweep == SweepFrom(mc, dir, CursorSet(tree, NewCursor, Least(dir), TRUE))
    IN  /\ bound.cursors = {}
        /\ Done(IF sweep.ok THEN Close(sweep.tree, mc) ELSE tree, Finished)

OnCursor(c) ==
    \/ SeekFirst(c)
    \/ SeekLast(c)
    \/ MoveNext(c)
    \/ MovePrev(c)
    \/ GetCurrent(c)
    \/ DelAt(c)
    \/ \E k \in bound.keys : SeekRange(c, k) \/ (\E n \in bound.sizes : PutAt(c, k, n))

Step ==
    \/ \E c \in bound.cursors : OnCursor(c)
    \/ \E k \in bound.keys : Del(k) \/ (\E n \in bound.sizes : Put(k, n))
    \/ \E dir \in bound.dirs : RemoveDir(dir) \/ RemoveDirInside(dir)

Spec == Init /\ [][Step]_vars

----------------------------------------------------------------------------
(***************************************************************************)
(* Properties.                                                             *)
(***************************************************************************)
LeafPages == {pg \in DOMAIN tree.pages : IsLeaf(tree, pg)}

TypeOK ==
    /\ tree.root \in DOMAIN tree.pages \cup {NoPage}
    /\ \A pg \in DOMAIN tree.pages : \A i \in DOMAIN Nodes(tree, pg) :
          LET node == Nodes(tree, pg)[i]
          IN  IF IsLeaf(tree, pg) THEN node.key \in Keys /\ node.child = NoPage
              ELSE node.key \in Keys \cup {Lowest} /\ node.child \in DOMAIN tree.pages
    /\ DOMAIN tree.cur = bound.cursors
    /\ answer \in Keys \cup {NotFound, Invalid, Finished}

\* The keys below page pg are in order, from lo on and below hi, with all
\* leaves at the same depth and no page too full or too empty.
RECURSIVE Ordered(_, _, _, _)
Ordered(pg, depth, lo, hi) ==
    LET nodes == Nodes(tree, pg)
        n     == Len(nodes)
        key(i) == IF i = 1 /\ ~IsLeaf(tree, pg) THEN lo ELSE nodes[i].key
    IN  /\ IsLeaf(tree, pg) <=> depth = 1
        /\ n >= MinKeys(tree, pg)
        /\ Used(nodes) <= Room(tree, pg)
        /\ \A i \in 1..n : lo <= key(i) /\ key(i) < hi /\ (i > 1 => key(i - 1) < key(i))
        /\ ~IsLeaf(tree, pg) =>
              /\ nodes[1].key = Lowest
              /\ \A i \in 1..n : Ordered(nodes[i].child, depth - 1, key(i),
                                         IF i = n THEN hi ELSE key(i + 1))

(***************************************************************************)
(* Whatever was split, moved and merged: the tree is one of searchable     *)
(* order, md_depth is its height, and its counts are those of its pages    *)
(* and keys, with no page outside it.                                      *)
(***************************************************************************)
WellFormed ==
    /\ IF tree.root = NoPage THEN tree.depth = 0 ELSE Ordered(tree.root, tree.depth, Lowest, Highest)
    /\ tree.leaves = Cardinality(LeafPages)
    /\ tree.branches = Cardinality(DOMAIN tree.pages \ LeafPages)
    /\ tree.entries = Cardinality(UNION {{<<pg, i>> : i \in DOMAIN Nodes(tree, pg)} : pg \in LeafPages})

(***************************************************************************)
(* The pages a cursor holds are a path of the tree, from its root to a     *)
(* leaf, after everything the others did to it, and it is at a node of the *)
(* leaf or just behind the last.                                           *)
(***************************************************************************)
CursorsFollowTree ==
    \A c \in bound.cursors :
        LET cu == tree.cur[c]
        IN  cu.init =>
              /\ cu.snum = tree.depth
              /\ Level(cu, 1).pg = tree.root
              /\ \A i \in 1..(cu.snum - 1) :
                    /\ Level(cu, i).ki < NumKeys(tree, Level(cu, i).pg)
                    /\ Level(cu, i + 1).pg = NodeAt(tree, Level(cu, i).pg, Level(cu, i).ki).child
              /\ Top(cu).ki \in 0..NumKeys(tree, Top(cu).pg)

(***************************************************************************)
(* The tree and its cursors implement a map in order with positions.       *)
(***************************************************************************)
Data == {[key |-> x.key, size |-> x.size] :
             x \in UNION {Range(tree.pages[pg].nodes) : pg \in LeafPages}}

PositionOf(cu) ==
    CASE ~cu.init -> [key |-> 0, gap |-> FALSE]
      [] cu.init /\ PastEnd(tree, cu) -> [key |-> Highest, gap |-> TRUE]
      [] cu.init /\ ~PastEnd(tree, cu) -> [key |-> Found(tree, cu).key, gap |-> cu.del]

Map == INSTANCE OrderedMap WITH
    Dirs    <- UNION {b.dirs : b \in Bounds},
    Sizes   <- UNION {b.sizes : b \in Bounds},
    data    <- Data,
    pos     <- [c \in Cursors |-> IF c \in bound.cursors THEN PositionOf(tree.cur[c])
                                  ELSE [key |-> 0, gap |-> FALSE]],
    ended   <- [c \in Cursors |-> c \in bound.cursors /\ tree.cur[c].eof]

ImplementsMap == Map!Spec

(***************************************************************************)
(* test_store.ml:273-275 of lib_shell removes a directory and expects that *)
(* none of its keys is left, and that the other keys are: remove_dir,      *)
(* called outside a transaction, removes its directory.                    *)
(***************************************************************************)
RemoveDirEmptiesDirectory ==
    [][\A dir \in bound.dirs : RemoveDir(dir) => \A x \in Data' : x.key \notin dir]_vars
=============================================================================

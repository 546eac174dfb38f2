----------------------------- MODULE LmdbPages -----------------------------
(***************************************************************************)
(* The pages of an LMDB environment and what the private steps of a write  *)
(* transaction do to them (ocaml-lmdb/src/mdb.c, the store under           *)
(* tezos-modded's lib_storage).  The file is a function from page numbers  *)
(* to pages.  Each of the two databases, the main one and the free list    *)
(* (freeDB), is small enough for its tree to be one leaf, and each value   *)
(* is too big for a node, so that it has an overflow page of its own: a    *)
(* database is a root page and the pages the root names.                   *)
(*                                                                         *)
(* A write transaction is a record w.  Its fields:                         *)
(*   pc, at    where it stands, and what it wants a page for               *)
(*   id        mt_txnid                                                    *)
(*   depth, parent, under    its parent, if it is nested, and the dirty      *)
(*             pages of its ancestors; stamp, the value that it writes       *)
(*   root      mt_dbs[MAIN_DBI].md_root                                    *)
(*   froot     mt_dbs[FREE_DBI].md_root                                    *)
(*   next      mt_next_pgno                                                *)
(*   dirty     the dirty list: page number to the private copy             *)
(*   freed     mt_free_pgs, the pages this transaction stops using         *)
(*   hasHead, head, last     me_pghead (null or not, its pages), me_pglast *)
(*   found, oldest, slot     the search for the oldest reader              *)
(*   key, op   the operation under way                                     *)
(*   step, done, count, headId, room, more    mdb_freelist_save: where it  *)
(*             stands, pglast, freecnt, head_id, head_room, more             *)
(***************************************************************************)
EXTENDS Integers, FiniteSets, FiniteSetsExt

\* P_INVALID, the root of an empty tree.
NoPage == 0

\* Pages 0 and 1 hold the meta pages.
FirstPage == 2

EmptyMap == [x \in {} |-> x]
Leaf(ov) == [kind |-> "leaf", ov |-> ov]
Value(v) == [kind |-> "value", v |-> v]
FreeLeaf(rec) == [kind |-> "freedb", rec |-> rec]
Unwritten == [kind |-> "unwritten"]

\* A function with one more value, with one less, and over another.
With(f, x, v) == [y \in DOMAIN f \cup {x} |-> IF y = x THEN v ELSE f[y]]
Without(f, x) == [y \in DOMAIN f \ {x} |-> f[y]]
Over(f, g) == [y \in DOMAIN f \cup DOMAIN g |-> IF y \in DOMAIN f THEN f[y] ELSE g[y]]

\* What a reader makes of a tree whose root is not a leaf of the main
\* database, and of a node whose overflow page holds something else.
Garbage == [x \in {0} |-> 0]
Unreadable == 0

(***************************************************************************)
(* What the tree under a root says, following the pages of file.           *)
(***************************************************************************)
Contents(file, root) ==
    IF root = NoPage THEN EmptyMap
    ELSE IF file[root].kind # "leaf" THEN Garbage
    ELSE [k \in DOMAIN file[root].ov |->
             LET page == file[file[root].ov[k]]
             IN  IF page.kind = "value" THEN page.v ELSE Unreadable]

\* The pages of the tree under a root.
PagesOf(file, root) ==
    IF root = NoPage THEN {}
    ELSE IF file[root].kind # "leaf" THEN {root}
    ELSE {root} \cup {file[root].ov[k] : k \in DOMAIN file[root].ov}

\* The records of the free list: transaction to the pages it freed.
Records(file, froot) ==
    IF froot = NoPage \/ file[froot].kind # "freedb" THEN EmptyMap
    ELSE file[froot].rec

\* The pages as the write transaction sees them: its dirty ones, those of its
\* ancestors, the file.
Own(w, file) ==
    [pg \in DOMAIN file \cup DOMAIN w.dirty \cup DOMAIN w.under |->
        IF pg \in DOMAIN w.dirty THEN w.dirty[pg]
        ELSE IF pg \in DOMAIN w.under THEN w.under[pg] ELSE file[pg]]

\* P_DIRTY: the page is of this transaction or of one it is nested in.
IsDirty(w, pg) == pg \in DOMAIN w.dirty \cup DOMAIN w.under

(***************************************************************************)
(* mdb_ovpage_free: an overflow page of this transaction, if it is not     *)
(* nested, goes back to me_pghead if there is one, and any other page to   *)
(* the list of the pages this transaction frees.                           *)
(***************************************************************************)
\* A mistake: the page of an earlier transaction is reused at once.
OvpageReuse(w, pg) ==
    IF w.hasHead
    THEN [w EXCEPT !.dirty = Without(@, pg), !.head = @ \cup {pg}]
    ELSE [w EXCEPT !.freed = @ \cup {pg}]

OvpageFree(w, pg) ==
    IF w.hasHead /\ w.depth = 0 /\ IsDirty(w, pg)
    THEN [w EXCEPT !.dirty = Without(@, pg), !.head = @ \cup {pg}]
    ELSE [w EXCEPT !.freed = @ \cup {pg}]

\* Asking mdb_page_alloc for one page, for the purpose at.
Want(w, at) == [w EXCEPT !.pc = "alloc", !.at = at]

(***************************************************************************)
(* mdb_page_touch: a page of an earlier transaction is copied into the new *)
(* page pg, and its own number goes to the list of freed pages.            *)
(***************************************************************************)
Touched(w, file, old, pg) ==
    [w EXCEPT !.dirty = With(@, pg, Own(w, file)[old]),
              !.freed = @ \cup {old}]

\* A dirty page of an ancestor is copied under its own number.
Adopt(w, pg) == [w EXCEPT !.dirty = With(@, pg, w.under[pg])]

\* The root of the main database is made writable.
TouchRoot(w) ==
    CASE w.root = NoPage            -> Want(w, "new root")
      [] w.root \in DOMAIN w.dirty  -> w
      [] w.root \in DOMAIN w.under \ DOMAIN w.dirty -> Adopt(w, w.root)
      [] w.root # NoPage /\ ~IsDirty(w, w.root) -> Want(w, "root")

(***************************************************************************)
(* What becomes of the page that mdb_page_alloc returns: the root of a new *)
(* tree or the copy of an old one, in either database, or the overflow     *)
(* page of a value, put into the root under its key.                       *)
(***************************************************************************)
Receive(w0, file, pg) ==
    LET w == [w0 EXCEPT !.pc = "work", !.found = FALSE]
    IN CASE w.at = "new root" ->
              [w EXCEPT !.dirty = With(@, pg, Leaf(EmptyMap)), !.root = pg]
         [] w.at = "root" ->
              [Touched(w, file, w.root, pg) EXCEPT !.root = pg]
         [] w.at = "new freedb" ->
              [w EXCEPT !.dirty = With(@, pg, FreeLeaf(EmptyMap)), !.froot = pg,
                        !.pc = "save"]
         [] w.at = "freedb" ->
              [Touched(w, file, w.froot, pg) EXCEPT !.froot = pg, !.pc = "save"]
         [] w.at = "value" ->
              [w EXCEPT !.dirty =
                          With([@ EXCEPT ![w.root] =
                                  Leaf(With(w.dirty[w.root].ov, w.key, pg))],
                               pg, Value(w.stamp)),
                        !.pc = "ready"]

(***************************************************************************)
(* mdb_page_alloc, the sources of a page.                                  *)
(***************************************************************************)
\* The smallest page of me_pghead, which is its tail.
FromHead(w, file) ==
    LET pg == Min(w.head)
    IN  Receive([w EXCEPT !.head = @ \ {pg}], file, pg)

\* A page at the end of the file, if the map has room for it.
FromMap(w, file, maxpg) ==
    IF w.next + 1 >= maxpg
    THEN [w EXCEPT !.pc = "failed"]
    ELSE Receive([w EXCEPT !.next = @ + 1], file, w.next)

\* The first record of the free list not consumed yet, or 0.
NextRecord(w, file) ==
    LET left == {r \in DOMAIN Records(Own(w, file), w.froot) : r > w.last}
    IN  IF left = {} THEN 0 ELSE Min(left)

\* A record is merged into me_pghead.
Consume(w, file, r) ==
    [w EXCEPT !.hasHead = TRUE, !.last = r,
              !.head = @ \cup Records(Own(w, file), w.froot)[r]]

(***************************************************************************)
(* A step of the loop of mdb_page_alloc, given the value of me_pgoldest:   *)
(* a page of me_pghead, else one more record of the free list if it is     *)
(* older than every reader, else a page of the map.  A record that seems   *)
(* too recent sends the transaction to look at the readers again, once.    *)
(***************************************************************************)
\* A mistake: the record of the oldest snapshot itself is taken too.
TooRecentByOne(oldest, r) == oldest < r

TooRecent(oldest, r) == oldest <= r

LookAgain(w, file, maxpg, numreaders) ==
    IF w.found
    THEN FromMap(w, file, maxpg)
    ELSE [w EXCEPT !.pc = "scan", !.slot = numreaders, !.oldest = w.id - 1]

Alloc(w, file, pgoldest, maxpg, numreaders) ==
    LET r == NextRecord(w, file)
    IN  CASE w.head # {} -> FromHead(w, file)
          [] w.head = {} /\ TooRecent(pgoldest, w.last + 1) ->
               LookAgain(w, file, maxpg, numreaders)
          [] w.head = {} /\ ~TooRecent(pgoldest, w.last + 1) ->
               CASE r = 0 -> FromMap(w, file, maxpg)
                 [] r # 0 /\ TooRecent(pgoldest, r) ->
                      LookAgain(w, file, maxpg, numreaders)
                 [] r # 0 /\ ~TooRecent(pgoldest, r) -> Consume(w, file, r)

(***************************************************************************)
(* mdb_cursor_put of a big value and mdb_cursor_del, once the root is      *)
(* dirty.  A value written before in this transaction is overwritten in    *)
(* place; the overflow page of any other is freed.  A tree left empty has  *)
(* no root any more (mdb_rebalance).                                       *)
(***************************************************************************)
PutValue(w) ==
    LET ov == w.dirty[w.root].ov
        unlink(x) == [x EXCEPT !.dirty[w.root] = Leaf(Without(ov, w.key))]
    IN  IF w.key \notin DOMAIN ov THEN Want(w, "value")
        ELSE IF IsDirty(w, ov[w.key])
        THEN [w EXCEPT !.dirty = With(@, ov[w.key], Value(w.stamp)), !.pc = "ready"]
        ELSE Want(unlink(OvpageFree(w, ov[w.key])), "value")

DelValue(w) ==
    LET ov == w.dirty[w.root].ov
        left == Without(ov, w.key)
        w1 == [OvpageFree(w, ov[w.key]) EXCEPT
                 !.dirty[w.root] = Leaf(left), !.pc = "ready"]
    IN  IF left # EmptyMap THEN w1
        ELSE [w1 EXCEPT !.root = NoPage, !.freed = @ \cup {w.root}]

(***************************************************************************)
(* Nested transactions.  mdb_txn_begin gives a child an empty dirty list   *)
(* and an empty list of freed pages, and saves me_pghead and me_pglast,    *)
(* which the end of the child brings back unless it commits.  A commit     *)
(* adds the lists of the child to those of its parent.                     *)
(***************************************************************************)
Child(w, stamp) ==
    [w EXCEPT !.parent = w, !.depth = @ + 1, !.stamp = stamp,
              !.under = Over(w.dirty, w.under), !.dirty = EmptyMap, !.freed = {}]

\* A mistake: the pages that the child freed are forgotten.
ChildUnfreed(w) ==
    [w EXCEPT !.parent = w.parent.parent, !.depth = @ - 1, !.stamp = w.parent.stamp,
              !.under = w.parent.under, !.dirty = Over(@, w.parent.dirty),
              !.freed = w.parent.freed]

ChildCommitted(w) ==
    [w EXCEPT !.parent = w.parent.parent, !.depth = @ - 1, !.stamp = w.parent.stamp,
              !.under = w.parent.under, !.dirty = Over(@, w.parent.dirty),
              !.freed = @ \cup w.parent.freed]

\* A mistake: me_pghead stays as the child left it.
ChildHeadKept(w, pc) ==
    [w.parent EXCEPT !.pc = pc, !.ops = w.ops, !.hasHead = w.hasHead,
                     !.head = w.head, !.last = w.last]

ChildAborted(w, pc) == [w.parent EXCEPT !.pc = pc, !.ops = w.ops]

(***************************************************************************)
(* mdb_freelist_save.  Each operator is one round of its loop.  A round    *)
(* that changes the free list needs the root of the free list writable; to *)
(* make it so frees a page or consumes a record, and then the round goes   *)
(* on at w.step with what it had decided before.  A record of the free     *)
(* list fits into a page, so that one record is reserved for me_pghead and *)
(* total_room is head_room.                                                *)
(***************************************************************************)
Save(w) ==
    [w EXCEPT !.pc = "save", !.step = "loop", !.done = 0, !.count = 0,
              !.headId = 0, !.room = 0, !.more = 1]

\* Is the root of the free list a dirty page?  If not, what to ask for.
Writable(w) == w.froot # NoPage /\ IsDirty(w, w.froot)
MakeWritable(w, step) ==
    [Want(w, IF w.froot = NoPage THEN "new freedb" ELSE "freedb") EXCEPT !.step = step]

SetRecords(w, rec) == [w EXCEPT !.dirty[w.froot] = FreeLeaf(rec), !.step = "loop"]

\* The first page is touched at the beginning, if me_pghead exists.
TouchFirst(w) == w.hasHead /\ w.froot # NoPage /\ ~IsDirty(w, w.froot)

\* A record below me_pglast, consumed or reserved, is deleted.
DeleteFirst(w) ==
    LET rec == w.dirty[w.froot].rec
        r == Min(DOMAIN rec)
        w1 == [w EXCEPT !.done = r, !.headId = r, !.room = 0, !.step = "loop"]
    IN  IF DOMAIN rec = {r}
        THEN [w1 EXCEPT !.froot = NoPage, !.freed = @ \cup {w.froot},
                        !.dirty[w.froot] = FreeLeaf(EmptyMap)]
        ELSE SetRecords(w1, Without(rec, r))

\* A mistake: how many pages were written is not noted.
WriteFreedUncounted(w) == SetRecords(w, With(w.dirty[w.froot].rec, w.id, w.freed))

\* The pages freed by this transaction are its record.
WriteFreed(w) ==
    [SetRecords(w, With(w.dirty[w.froot].rec, w.id, w.freed))
       EXCEPT !.count = Cardinality(w.freed)]

\* A record with room for the pages left in me_pghead.
WriteReserved(w) == SetRecords(w, With(w.dirty[w.froot].rec, w.headId, {}))

\* A mistake: the reserved record stays empty.
FillNothing(w) == w

\* The reserved record is filled.
Fill(w) ==
    IF w.head = {} THEN w
    ELSE SetRecords(w, With(w.dirty[w.froot].rec, w.headId, w.head))

\* The round to go on with, or the next one.
Round(w) ==
    LET len == Cardinality(w.head)
    IN  CASE w.step # "loop"              -> w.step
          [] w.step = "loop" /\ TouchFirst(w) -> "touch"
          [] w.step = "loop" /\ ~TouchFirst(w) ->
               CASE w.done < w.last -> "delete"
                 [] w.done >= w.last /\ w.count < Cardinality(w.freed) -> "freed"
                 [] w.done >= w.last /\ w.count >= Cardinality(w.freed) ->
                      IF w.room = len \/ (w.room > len /\ w.more = 0)
                      THEN "fill" ELSE "reserve"

FreelistSave(w) ==
    LET round == Round(w)
        len == Cardinality(w.head)
        decided == IF round = "reserve" /\ w.step = "loop"
                   THEN [w EXCEPT !.room = len,
                                  !.more = IF w.room > len THEN @ - 1 ELSE @]
                   ELSE w
    IN CASE round = "fill" -> [Fill(w) EXCEPT !.pc = "flush"]
         [] round = "touch" -> MakeWritable(w, "loop")
         [] round \notin {"fill", "touch"} /\ ~Writable(w) -> MakeWritable(decided, round)
         [] round = "delete" /\ Writable(w) -> DeleteFirst(w)
         [] round = "freed" /\ Writable(w) -> WriteFreed(w)
         [] round = "reserve" /\ Writable(w) -> WriteReserved(decided)
=============================================================================

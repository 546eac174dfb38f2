--------------------------- MODULE LmdbTxnProofs ---------------------------
(***************************************************************************)
(* Theorems about the transactions of mdb.c, for every set of processes,   *)
(* readers and keys and every bound: where each page of the file is at     *)
(* every step of a write transaction, and what is found after a stop.      *)
(*                                                                         *)
(* The invariant IInv says, of the commit that the meta pages name (Last), *)
(* that its tree, its free list and the records of its free list are the   *)
(* pages of the file, each once; of the write transaction, that the pages  *)
(* it sees, the records it has not consumed, the pages at hand and those   *)
(* it freed are the pages up to its own end, each once, and that it writes *)
(* to none of the pages of Last; and of the disk, that it has Last, and    *)
(* also the commit before (Other) until Last is known to be there.         *)
(***************************************************************************)
EXTENDS LmdbTxn, FiniteSetTheorems, WellFoundedInduction, TLAPS

-----------------------------------------------------------------------------
(* Functions and sets.                                                     *)

\* A function, as the provers need to be told.
Fn(f) == f = [x \in DOMAIN f |-> f[x]]

\* Over(f, g) is f where f is defined and g elsewhere.
LEMMA OverTwo ==
    ASSUME NEW f, NEW g
    PROVE  /\ DOMAIN Over(f, g) = DOMAIN f \cup DOMAIN g
           /\ \A x \in DOMAIN f : Over(f, g)[x] = f[x]
           /\ \A x \in DOMAIN g \ DOMAIN f : Over(f, g)[x] = g[x]
           /\ Fn(Over(f, g))
BY DEF Over, Fn

\* With changes or adds one value.
LEMMA WithOne ==
    ASSUME NEW f, NEW x, NEW v
    PROVE  /\ DOMAIN With(f, x, v) = DOMAIN f \cup {x}
           /\ With(f, x, v)[x] = v
           /\ \A y \in DOMAIN f \ {x} : With(f, x, v)[y] = f[y]
           /\ Fn(With(f, x, v))
BY DEF With, Fn

\* Without takes one value away.
LEMMA WithoutOne ==
    ASSUME NEW f, NEW x
    PROVE  /\ DOMAIN Without(f, x) = DOMAIN f \ {x}
           /\ \A y \in DOMAIN f \ {x} : Without(f, x)[y] = f[y]
           /\ Fn(Without(f, x))
BY DEF Without, Fn

\* Two functions with the same values.
LEMMA SameFn ==
    ASSUME NEW f, NEW g, Fn(f), Fn(g), DOMAIN f = DOMAIN g,
           \A x \in DOMAIN f : f[x] = g[x]
    PROVE  f = g
BY DEF Fn

\* The only function with an empty domain.
LEMMA NoMap ==
    /\ Fn(EmptyMap) /\ DOMAIN EmptyMap = {}
    /\ \A g : Fn(g) /\ DOMAIN g = {} => g = EmptyMap
<1>1. Fn(EmptyMap) /\ DOMAIN EmptyMap = {}
  BY DEF EmptyMap, Fn
<1>2. ASSUME NEW g, Fn(g), DOMAIN g = {}
      PROVE  g = EmptyMap
  BY <1>1, <1>2, SameFn
<1> QED BY <1>1, <1>2

\* The least element of a set of natural numbers.
LEMMA LeastOf ==
    ASSUME NEW T, T \subseteq Nat, T # {}
    PROVE  Min(T) \in T /\ \A m \in T : Min(T) <= m
<1> DEFINE Less == {p \in Nat \X Nat : p[1] < p[2]}
<1>1. IsWellFoundedOn(Less, Nat)
  <2>1. OpToRel(<, Nat) = Less
    BY DEF OpToRel
  <2> QED BY <2>1, NatLessThanWellFounded
<1>2. PICK n \in T : \A m \in T : ~ (<<m, n>> \in Less)
  BY <1>1, WFMin
<1>3. ASSUME NEW m \in T
      PROVE  n <= m
  <2>1. n \in Nat /\ m \in Nat
    OBVIOUS
  <2>2. m < n => <<m, n>> \in Less
    BY <2>1
  <2> QED BY <1>2, <2>1, <2>2
<1> QED
  BY <1>3 DEF Min

-----------------------------------------------------------------------------
(* A file f and a meta page m in it: where every page is.                  *)

\* The page of the free list, and the pages that a meta page uses.
ListPage(froot) == IF froot = NoPage THEN {} ELSE {froot}
Used(f, m) == PagesOf(f, m.root) \cup ListPage(m.froot)

\* The free list.
Listed(f, m) == Records(f, m.froot)

\* A tree: a leaf that names different pages, which hold values.
Tree(f, root) ==
    root # NoPage =>
      LET ov == f[root].ov
      IN  /\ f[root] = Leaf(ov)
          /\ Fn(ov)
          /\ \A k \in DOMAIN ov : ov[k] # root /\ f[ov[k]] = Value(f[ov[k]].v)
          /\ \A k, l \in DOMAIN ov : ov[k] = ov[l] => k = l

\* A free list: a page of records, under the numbers of past commits.
FreeList(f, froot, id) ==
    froot # NoPage =>
      LET rec == f[froot].rec
      IN  f[froot] = FreeLeaf(rec) /\ Fn(rec) /\ DOMAIN rec \subseteq 1..id

\* Every page up to the last is used or in a record, and none is in two places.
Accounted(f, m) ==
    LET rec == Listed(f, m)
    IN  /\ m.last \in (FirstPage - 1)..(MaxPg - 2)
        /\ Tree(f, m.root) /\ FreeList(f, m.froot, m.id)
        /\ PagesOf(f, m.root) \cap ListPage(m.froot) = {}
        /\ Used(f, m) \cup UNION {rec[r] : r \in DOMAIN rec} = FirstPage..m.last
        /\ \A r \in DOMAIN rec :
              /\ rec[r] \cap Used(f, m) = {}
              /\ \A s \in DOMAIN rec \ {r} : rec[r] \cap rec[s] = {}

\* The tree of m is on disk d, and is what was committed.
Sound(f, d, h, m) ==
    /\ Accounted(f, m)
    /\ \A pg \in Used(f, m) : d[pg] = {f[pg]}
    /\ m.id \in DOMAIN h
    /\ h[m.id] = Contents(f, m.root)

-----------------------------------------------------------------------------
(* A write transaction w that began from m.                                *)

\* The fields of a write transaction.
TxnFields ==
    {"pc", "at", "id", "depth", "parent", "under", "stamp", "root", "froot",
     "next", "dirty", "freed", "hasHead", "head", "last", "found", "oldest",
     "slot", "key", "op", "ops", "nests", "step", "done", "count", "headId",
     "room", "more", "left"}

\* Nothing but the fields in G is changed from w to x.
Changed(w, x, G) ==
    DOMAIN x = TxnFields /\ \A g \in TxnFields \ G : x[g] = w[g]

\* The pages freed by a transaction and by its parent.
Freed(w) == w.freed \cup (IF w.depth = 0 THEN {} ELSE w.parent.freed)

\* The records that it has not consumed.
Later(f, m, w) ==
    UNION {Listed(f, m)[r] : r \in {s \in DOMAIN Listed(f, m) : s > w.last}}

\* Each page is in a tree M, the free list L, a record R, at hand H or freed D.
Account(next, M, L, R, H, D) ==
    /\ M \cup L \cup R \cup H \cup D = FirstPage..(next - 1)
    /\ M \cap (L \cup R \cup H \cup D) = {}
    /\ L \cap (R \cup H \cup D) = {}
    /\ R \cap (H \cup D) = {}
    /\ H \cap D = {}

\* The pages w may write; H are those at hand.
Private(w, H) == DOMAIN w.dirty \cup DOMAIN w.under \cup H

\* A transaction that began from m: its number, its end of the file, its parent.
Shape(m, w) ==
    /\ DOMAIN w = TxnFields
    /\ w.id = m.id + 1
    /\ w.next \in (m.last + 1)..(MaxPg - 1)
    /\ Fn(w.dirty) /\ Fn(w.under)
    /\ w.depth \in {0, 1}
    /\ w.depth = 0 => DOMAIN w.under = {}

\* Every page is accounted for while H are at hand, and w writes to no page of m
\* nor of a record that it has not consumed.
Held(f, m, w, H) ==
    LET o == Own(w, f)
    IN  /\ Shape(m, w)
        /\ Account(w.next, PagesOf(o, w.root), ListPage(w.froot), Later(f, m, w),
                   H, Freed(w))
        /\ Private(w, H) \cap (Used(f, m) \cup Later(f, m, w)) = {}
        /\ Private(w, H) \subseteq FirstPage..(w.next - 1)
        /\ Tree(o, w.root)

\* How far w has gone in the records: never to that of m itself, whose pages the
\* commit before m still uses.
Consumed(f, m, w) ==
    IF w.hasHead THEN w.last \in DOMAIN Listed(f, m) /\ w.last < m.id
    ELSE w.last = 0 /\ w.head = {}

PageInv(f, m, w) == Held(f, m, w, w.head) /\ Consumed(f, m, w)

\* The free list has not been written yet.
Unsaved(m, w) ==
    /\ w.froot = m.froot
    /\ w.done = 0 /\ w.count = 0 /\ w.room = 0 /\ w.headId = 0

\* The parent of a nested transaction waits, with an account of its own.
ParentInv(f, m, w) ==
    w.depth = 1 =>
      /\ w.parent.pc = "ready" /\ w.parent.depth = 0
      /\ PageInv(f, m, w.parent) /\ Unsaved(m, w.parent)
      /\ w.under = Over(w.parent.dirty, w.parent.under)

Waiting(w) == w.pc \in {"alloc", "scan"}
ForList(w) == w.at \in {"freedb", "new freedb"}

\* What a page is wanted for while an operation is under way.
AtInv(f, w) ==
    /\ w.at \in {"new root", "root", "value"}
    /\ w.at = "new root" => w.root = NoPage /\ w.op = "put"
    /\ w.at = "root" =>
         /\ w.root # NoPage /\ ~IsDirty(w, w.root)
         /\ w.op # "put" => w.key \in DOMAIN Own(w, f)[w.root].ov
    /\ w.at = "value" =>
         /\ w.root # NoPage /\ w.root \in DOMAIN w.dirty
         /\ w.key \notin DOMAIN Own(w, f)[w.root].ov

\* A transaction before its commit.
OpInv(f, m, w) ==
    /\ PageInv(f, m, w) /\ Unsaved(m, w)
    /\ w.pc = "work" =>
         /\ w.root # NoPage /\ w.root \in DOMAIN w.dirty
         /\ w.op # "put" => w.key \in DOMAIN Own(w, f)[w.root].ov
    /\ Waiting(w) => AtInv(f, w)

\* The free list as it has been written so far.
RecordsInv(f, m, w) ==
    LET rec == Records(Own(w, f), w.froot)
    IN  /\ FreeList(Own(w, f), w.froot, w.id)
        /\ w.done \in 0..w.last /\ w.headId = w.done
        /\ w.room = 0 => w.done \notin DOMAIN rec
        /\ \A r \in DOMAIN rec \ {w.id, w.done} : r \in DOMAIN Listed(f, m) /\ r > w.done
        /\ \A r \in DOMAIN Listed(f, m) :
              r > w.done => r \in DOMAIN rec /\ rec[r] = Listed(f, m)[r]
        /\ IF w.id \in DOMAIN rec
           THEN rec[w.id] \subseteq w.freed /\ w.count = Cardinality(rec[w.id])
           ELSE w.count = 0
        /\ w.froot = NoPage /\ w.hasHead => w.freed # {}

\* Room has been reserved for the pages at hand.
ReservedInv(f, w) ==
    w.room # 0 =>
      /\ w.pc = "save" /\ w.step = "loop" /\ Writable(w)
      /\ w.done = w.last /\ w.hasHead
      /\ w.done \in DOMAIN Records(Own(w, f), w.froot)
      /\ Records(Own(w, f), w.froot)[w.done] = {}
      /\ w.room = Cardinality(w.head) /\ w.head # {}
      /\ w.count = Cardinality(w.freed)

\* A transaction in mdb_freelist_save.
SaveInv(f, m, w) ==
    /\ PageInv(f, m, w) /\ w.depth = 0 /\ DOMAIN w.dirty # {}
    /\ RecordsInv(f, m, w)
    /\ ReservedInv(f, w)
    /\ w.step \in {"loop", "freed"}
    /\ w.step = "freed" => w.freed # {} /\ (w.pc = "save" => Writable(w))
    /\ Waiting(w) => IF w.at = "freedb" THEN w.froot # NoPage /\ ~IsDirty(w, w.froot)
                     ELSE w.at = "new freedb" /\ w.froot = NoPage

NewMeta(w) == [id |-> w.id, root |-> w.root, froot |-> w.froot, last |-> w.next - 1]

\* The pages are being written.
FlushInv(f, m, w) ==
    LET o == Own(w, f)
        rec == Records(o, w.froot)
    IN  /\ Shape(m, w) /\ w.depth = 0
        /\ DOMAIN w.dirty \subseteq FirstPage..(w.next - 1)
        /\ DOMAIN w.dirty \cap Used(f, m) = {}
        /\ m.id \in DOMAIN Listed(f, m) => DOMAIN w.dirty \cap Listed(f, m)[m.id] = {}
        /\ Accounted(o, NewMeta(w))
        /\ \A r \in DOMAIN rec \ {w.id} : rec[r] \cap Used(f, m) = {}
        /\ w.left \subseteq DOMAIN w.dirty
        /\ \A pg \in DOMAIN w.dirty \ w.left : f[pg] = w.dirty[pg]
        /\ IF w.pc = "flush" THEN w.left # {} ELSE w.left = {}

-----------------------------------------------------------------------------
(* The invariant.                                                          *)

Last == PickMeta(meta)
Other == meta[(Last.id + 1) % 2]
Settled == metaDisk[Last.id % 2] = {Last}

\* The last two commits are in the two meta pages, and on disk, except that
\* the last one may not have reached it.
MetaInv ==
    /\ Fn(meta) /\ DOMAIN meta = 0..1
    /\ Fn(metaDisk) /\ DOMAIN metaDisk = 0..1
    /\ Last.id \in 0..MaxTxn
    /\ Last = meta[Last.id % 2]
    /\ IF Last.id = 0 THEN Other = EmptyMeta /\ Last = EmptyMeta
       ELSE Other.id = Last.id - 1
    /\ metaDisk[(Last.id + 1) % 2] = {Other}
    /\ Last \in metaDisk[Last.id % 2]
    /\ \A x \in metaDisk[Last.id % 2] :
          x = Last \/ (IF Last.id = 1 THEN x = EmptyMeta ELSE x.id = Last.id - 2)
    /\ \A i \in 0..1 : \A x \in metaDisk[i] : x.id = 0 => x = EmptyMeta
    /\ DOMAIN history = 0..Last.id
    /\ durable \in 0..Last.id
    /\ ~Settled => durable < Last.id

\* The commit before it is kept as long as the disk may have that one.
DiskInv ==
    /\ Fn(file) /\ DOMAIN file = Pages
    /\ Fn(disk) /\ DOMAIN disk = Pages
    /\ \A pg \in Pages : file[pg] \in disk[pg]
    /\ Sound(file, disk, history, Last)
    /\ ~Settled =>
         /\ Sound(file, disk, history, Other)
         /\ Used(file, Other) \subseteq FirstPage..Last.last
         /\ \A r \in DOMAIN Listed(file, Last) \ {Last.id} :
               Listed(file, Last)[r] \cap Used(file, Other) = {}

\* The lock file and the mutex of the writers.
LockInv ==
    /\ mti_txnid \in 0..Last.id
    /\ ~ownerDied /\ txn.pc # "publish" => mti_txnid = Last.id
    /\ \A p \in Procs : env[p].pgoldest \in 0..Last.id
    /\ wmutex # None => env[wmutex].open
    /\ wmutex \in Writers \cup {None}
    /\ wmutex = None <=> txn = NoTxn

Phases == {"ready", "work", "alloc", "scan", "failed", "save", "flush", "sync",
           "meta", "publish"}

InOp(w) == w.pc \in {"ready", "work"} \/ (Waiting(w) /\ ~ForList(w))
InSave(w) == w.pc = "save" \/ (Waiting(w) /\ ForList(w))

\* A write transaction w that began from m, in each phase; the table of readers
\* has n slots.
Alive(f, m, w, n) ==
    /\ DOMAIN w = TxnFields
    /\ w.pc \in Phases
    /\ w.id = m.id + 1 /\ w.id <= MaxTxn /\ w.depth \in {0, 1}
    /\ w.pc \in {"ready", "work", "alloc", "scan", "failed"} => ParentInv(f, m, w)
    /\ InOp(w) => OpInv(f, m, w)
    /\ InSave(w) => SaveInv(f, m, w)
    /\ w.pc = "scan" => w.oldest \in 0..m.id /\ w.slot \in 0..n
    /\ w.pc \in {"flush", "sync", "meta"} => FlushInv(f, m, w)

\* The write transaction, in whichever phase it is.
TxnInv ==
    txn # NoTxn =>
      /\ txn.pc # "publish" => Alive(file, Last, txn, Len(slots))
      /\ txn.pc = "meta" => disk = Synced /\ metaDisk = [i \in 0..1 |-> {meta[i]}]
      /\ txn.pc = "publish" => txn.id = Last.id

\* The processes and the readers.
EnvInv ==
    /\ DOMAIN env = Procs /\ DOMAIN reader = Readers
    /\ \A p \in Procs : /\ DOMAIN env[p] = {"open", "live", "pgoldest", "suspect"}
                        /\ env[p].live => env[p].open
    /\ \A p \in Readers :
          /\ DOMAIN reader[p] = {"pc", "slot", "txnid", "root", "next", "since"}
          /\ reader[p].pc = "store" => reader[p].txnid \in 0..MaxTxn
    /\ bound \in Bounds

\* The table of readers.
SlotInv ==
    /\ slots \in Seq([pid : Procs \cup {None}, txnid : 0..Idle])
    /\ Len(slots) <= bound.slots

\* The inductive invariant.
IInv == MetaInv /\ DiskInv /\ LockInv /\ TxnInv /\ EnvInv /\ SlotInv

-----------------------------------------------------------------------------
(* What depends on a few pages only.                                       *)

\* The root of a tree is a leaf, and its pages are the root and the values.
LEMMA LeafTree ==
    ASSUME NEW f, NEW root, Tree(f, root), root # NoPage
    PROVE  /\ f[root].kind = "leaf"
           /\ PagesOf(f, root) = {root} \cup {f[root].ov[k] : k \in DOMAIN f[root].ov}
BY DEF Tree, Leaf, PagesOf

\* What a tree says is the values on its pages.
LEMMA TreeContents ==
    ASSUME NEW f, NEW root, Tree(f, root), root # NoPage
    PROVE  /\ Fn(Contents(f, root)) /\ DOMAIN Contents(f, root) = DOMAIN f[root].ov
           /\ \A k \in DOMAIN f[root].ov : Contents(f, root)[k] = f[f[root].ov[k]].v
<1> DEFINE ov == f[root].ov
<1>1. f[root].kind = "leaf"
  BY LeafTree
<1>2. ASSUME NEW k \in DOMAIN ov
      PROVE  f[ov[k]].kind = "value"
  <2>1. f[ov[k]] = Value(f[ov[k]].v)
    BY DEF Tree
  <2>2. \A v : Value(v).kind = "value"
    BY DEF Value
  <2> QED BY <2>1, <2>2
<1>3. Contents(f, root) = [k \in DOMAIN ov |-> f[ov[k]].v]
  BY <1>1, <1>2 DEF Contents
<1> QED BY <1>3 DEF Fn

\* A tree whose pages are not written is the same tree.
LEMMA TreeFrame ==
    ASSUME NEW f, NEW g, NEW root, Tree(f, root),
           \A pg \in PagesOf(f, root) : g[pg] = f[pg]
    PROVE  /\ Tree(g, root)
           /\ PagesOf(g, root) = PagesOf(f, root)
           /\ Contents(g, root) = Contents(f, root)
<1>1. CASE root = NoPage
  BY <1>1 DEF Tree, PagesOf, Contents
<1>2. CASE root # NoPage
  <2>1. f[root].kind = "leaf" /\ g[root] = f[root]
    BY <1>2, LeafTree
  <2>2. \A k \in DOMAIN f[root].ov : g[f[root].ov[k]] = f[f[root].ov[k]]
    BY <1>2, LeafTree
  <2>3. Tree(g, root)
    BY <1>2, <2>1, <2>2 DEF Tree
  <2>4. PagesOf(g, root) = PagesOf(f, root)
    <3>1. PagesOf(g, root) = {root} \cup {g[root].ov[k] : k \in DOMAIN g[root].ov}
      BY <1>2, <2>3, LeafTree
    <3>2. PagesOf(f, root) = {root} \cup {f[root].ov[k] : k \in DOMAIN f[root].ov}
      BY <1>2, LeafTree
    <3> QED BY <2>1, <3>1, <3>2
  <2>5. Contents(g, root) = Contents(f, root)
    BY <1>2, <2>1, <2>2 DEF Contents
  <2> QED BY <2>3, <2>4, <2>5
<1> QED BY <1>1, <1>2

\* A free list whose page is not written is the same list.
LEMMA ListFrame ==
    ASSUME NEW f, NEW g, NEW froot, NEW id, FreeList(f, froot, id),
           \A pg \in ListPage(froot) : g[pg] = f[pg]
    PROVE  FreeList(g, froot, id) /\ Records(g, froot) = Records(f, froot)
BY DEF FreeList, ListPage, Records

\* Writing pages that a meta page does not use keeps its account.
LEMMA AccountedFrame ==
    ASSUME NEW f, NEW g, NEW m, Accounted(f, m),
           \A pg \in Used(f, m) : g[pg] = f[pg]
    PROVE  /\ Accounted(g, m)
           /\ Used(g, m) = Used(f, m)
           /\ Listed(g, m) = Listed(f, m)
           /\ Contents(g, m.root) = Contents(f, m.root)
<1>1. /\ Tree(g, m.root) /\ PagesOf(g, m.root) = PagesOf(f, m.root)
      /\ Contents(g, m.root) = Contents(f, m.root)
  <2>1. Tree(f, m.root) /\ \A pg \in PagesOf(f, m.root) : g[pg] = f[pg]
    BY DEF Accounted, Used
  <2> QED BY <2>1, TreeFrame
<1>2. FreeList(g, m.froot, m.id) /\ Records(g, m.froot) = Records(f, m.froot)
  <2>1. FreeList(f, m.froot, m.id) /\ \A pg \in ListPage(m.froot) : g[pg] = f[pg]
    BY DEF Accounted, Used
  <2> QED BY <2>1, ListFrame
<1>3. Used(g, m) = Used(f, m) /\ Listed(g, m) = Listed(f, m)
  BY <1>1, <1>2 DEF Used, Listed
<1>4. Accounted(g, m)
  BY <1>1, <1>2, <1>3 DEF Accounted
<1> QED BY <1>1, <1>3, <1>4

\* Writing pages that a commit does not use keeps it on disk as it was.
LEMMA SoundFrame ==
    ASSUME NEW f, NEW g, NEW d, NEW e, NEW h, NEW i, NEW m, Sound(f, d, h, m),
           \A pg \in Used(f, m) : g[pg] = f[pg] /\ e[pg] = d[pg],
           m.id \in DOMAIN i, i[m.id] = h[m.id]
    PROVE  Sound(g, e, i, m) /\ Used(g, m) = Used(f, m) /\ Listed(g, m) = Listed(f, m)
<1>1. /\ Accounted(g, m) /\ Used(g, m) = Used(f, m) /\ Listed(g, m) = Listed(f, m)
      /\ Contents(g, m.root) = Contents(f, m.root)
  BY AccountedFrame DEF Sound
<1> QED BY <1>1 DEF Sound

\* A committed page is a page of the file.
LEMMA UsedPages ==
    ASSUME NEW f, NEW m, Accounted(f, m)
    PROVE  /\ m.last \in Int /\ m.last >= FirstPage - 1 /\ m.last <= MaxPg - 2
           /\ \A pg \in Used(f, m) : pg \in FirstPage..m.last /\ pg \in Pages
           /\ \A r \in DOMAIN Listed(f, m) : \A pg \in Listed(f, m)[r] :
                 pg \in FirstPage..m.last /\ pg \in Pages
<1>1. m.last \in (FirstPage - 1)..(MaxPg - 2)
  BY DEF Accounted
<1>2. MaxPg \in Nat /\ FirstPage = 2
  BY LmdbAssumption DEF FirstPage
<1>3. m.last \in Int /\ m.last >= FirstPage - 1 /\ m.last <= MaxPg - 2
  BY <1>1, <1>2
<1>4. \A pg \in FirstPage..m.last : pg \in Pages
  BY <1>2, <1>3 DEF Pages
<1>5. \A pg \in Used(f, m) : pg \in FirstPage..m.last
  BY DEF Accounted
<1>6. \A r \in DOMAIN Listed(f, m) : \A pg \in Listed(f, m)[r] : pg \in FirstPage..m.last
  BY DEF Accounted
<1> QED BY <1>3, <1>4, <1>5, <1>6

-----------------------------------------------------------------------------
(* The pages as a transaction sees them.                                   *)

\* mdb_page_get: the dirty list first, then the parent's, then the map.
LEMMA Owned ==
    ASSUME NEW w, NEW f, DOMAIN f = Pages, NEW q \in Pages
    PROVE  /\ q \in DOMAIN w.dirty => Own(w, f)[q] = w.dirty[q]
           /\ q \notin DOMAIN w.dirty /\ q \in DOMAIN w.under => Own(w, f)[q] = w.under[q]
           /\ q \notin DOMAIN w.dirty /\ q \notin DOMAIN w.under => Own(w, f)[q] = f[q]
BY DEF Own

\* What the tree of a transaction says.
Tells(f, w) == Contents(Own(w, f), w.root)

\* Every page of a transaction is a page of the map.
LEMMA HeldPages ==
    ASSUME NEW f, NEW m, NEW w, NEW H, Accounted(f, m), Held(f, m, w, H)
    PROVE  /\ w.next \in Int /\ w.next > m.last /\ w.next >= FirstPage /\ w.next < MaxPg
           /\ \A pg \in FirstPage..(w.next - 1) : pg \in Pages
           /\ \A pg \in PagesOf(Own(w, f), w.root) : pg \in Pages
           /\ \A pg \in ListPage(w.froot) : pg \in Pages
           /\ \A pg \in H : pg \in Pages
<1>1. w.next \in (m.last + 1)..(MaxPg - 1)
  BY DEF Held, Shape
<1>2. MaxPg \in Nat /\ FirstPage = 2
  BY LmdbAssumption DEF FirstPage
<1>3. m.last \in Int /\ m.last >= FirstPage - 1
  BY UsedPages
<1>4. w.next \in Int /\ w.next > m.last /\ w.next >= FirstPage /\ w.next < MaxPg
  BY <1>1, <1>2, <1>3
<1>5. \A pg \in FirstPage..(w.next - 1) : pg \in Pages
  BY <1>2, <1>4 DEF Pages
<1>6. /\ PagesOf(Own(w, f), w.root) \subseteq FirstPage..(w.next - 1)
      /\ ListPage(w.froot) \subseteq FirstPage..(w.next - 1)
      /\ H \subseteq FirstPage..(w.next - 1)
  BY DEF Held, Account
<1> QED BY <1>4, <1>5, <1>6

-----------------------------------------------------------------------------
(* Which fields an operator changes.                                       *)

\* The page pg received is the root of a new tree or the copy of an old one, or
\* holds a value.
EmptyLeaf(v) == v = Leaf(v.ov) /\ Fn(v.ov) /\ DOMAIN v.ov = {}
EmptyList(v) == v = FreeLeaf(v.rec) /\ Fn(v.rec) /\ DOMAIN v.rec = {}

NewRoot(w, x, pg) ==
    /\ Changed(w, x, {"pc", "found", "dirty", "root"})
    /\ x.pc = "work" /\ x.root = pg
    /\ \E v : EmptyLeaf(v) /\ x.dirty = With(w.dirty, pg, v)

RootCopy(f, w, x, pg) ==
    /\ Changed(w, x, {"pc", "found", "dirty", "root", "freed"})
    /\ x.pc = "work" /\ x.root = pg
    /\ x.dirty = With(w.dirty, pg, Own(w, f)[w.root])
    /\ x.freed = w.freed \cup {w.root}

NewList(w, x, pg) ==
    /\ Changed(w, x, {"pc", "found", "dirty", "froot"})
    /\ x.pc = "save" /\ x.froot = pg
    /\ \E v : EmptyList(v) /\ x.dirty = With(w.dirty, pg, v)

ListCopy(f, w, x, pg) ==
    /\ Changed(w, x, {"pc", "found", "dirty", "froot", "freed"})
    /\ x.pc = "save" /\ x.froot = pg
    /\ x.dirty = With(w.dirty, pg, Own(w, f)[w.froot])
    /\ x.freed = w.freed \cup {w.froot}

NewValue(w, x, pg) ==
    /\ Changed(w, x, {"pc", "found", "dirty"})
    /\ x.pc = "ready"
    /\ x.dirty = With([w.dirty EXCEPT ![w.root] =
                          Leaf(With(w.dirty[w.root].ov, w.key, pg))], pg, Value(w.stamp))

\* A leaf and a free list with nothing in them.
LEMMA Empties == EmptyLeaf(Leaf(EmptyMap)) /\ EmptyList(FreeLeaf(EmptyMap))
<1>1. Fn(EmptyMap) /\ DOMAIN EmptyMap = {}
  BY DEF EmptyMap, Fn
<1> QED BY <1>1 DEF EmptyLeaf, EmptyList, Leaf, FreeLeaf

\* The page received becomes the root of a tree with no key.
LEMMA GotNewRoot ==
    ASSUME NEW w, NEW f, NEW pg, DOMAIN w = TxnFields, w.at = "new root"
    PROVE  NewRoot(w, Receive(w, f, pg), pg)
<1>1. LET x == Receive(w, f, pg) IN
        /\ Changed(w, x, {"pc", "found", "dirty", "root"})
        /\ x.pc = "work" /\ x.root = pg
        /\ x.dirty = With(w.dirty, pg, Leaf(EmptyMap))
  BY DEF Receive, Changed, TxnFields
<1> QED BY <1>1, Empties DEF NewRoot

\* The page received becomes the copy of the root that is written.
LEMMA GotRoot ==
    ASSUME NEW w, NEW f, NEW pg, DOMAIN w = TxnFields, w.at = "root"
    PROVE  RootCopy(f, w, Receive(w, f, pg), pg)
BY DEF Receive, Touched, Own, Changed, TxnFields, RootCopy

\* The page received becomes the root of an empty free list.
LEMMA GotNewList ==
    ASSUME NEW w, NEW f, NEW pg, DOMAIN w = TxnFields, w.at = "new freedb"
    PROVE  NewList(w, Receive(w, f, pg), pg)
<1>1. LET x == Receive(w, f, pg) IN
        /\ Changed(w, x, {"pc", "found", "dirty", "froot"})
        /\ x.pc = "save" /\ x.froot = pg
        /\ x.dirty = With(w.dirty, pg, FreeLeaf(EmptyMap))
  BY DEF Receive, Changed, TxnFields
<1> QED BY <1>1, Empties DEF NewList

\* The page received becomes the copy of the free list that is written.
LEMMA GotList ==
    ASSUME NEW w, NEW f, NEW pg, DOMAIN w = TxnFields, w.at = "freedb"
    PROVE  ListCopy(f, w, Receive(w, f, pg), pg)
BY DEF Receive, Touched, Own, Changed, TxnFields, ListCopy

\* The page received holds the value, and the leaf names it.
LEMMA GotValue ==
    ASSUME NEW w, NEW f, NEW pg, DOMAIN w = TxnFields, w.at = "value"
    PROVE  NewValue(w, Receive(w, f, pg), pg)
BY DEF Receive, Changed, TxnFields, NewValue

\* mdb_ovpage_free: a page written by this transaction goes back to the pages at
\* hand, any other is freed.
LEMMA FreedOverflow ==
    ASSUME NEW w, NEW pg, DOMAIN w = TxnFields
    PROVE  LET x == OvpageFree(w, pg) IN
           IF w.hasHead /\ w.depth = 0 /\ IsDirty(w, pg)
           THEN /\ Changed(w, x, {"dirty", "head"})
                /\ x.dirty = Without(w.dirty, pg) /\ x.head = w.head \cup {pg}
           ELSE /\ Changed(w, x, {"freed"})
                /\ x.freed = w.freed \cup {pg}
BY DEF OvpageFree, Changed, TxnFields

\* Fields outside of G, one by one.
LEMMA Unchanged ==
    ASSUME NEW w, NEW x, NEW G, NEW g \in TxnFields, Changed(w, x, G), g \notin G
    PROVE  x[g] = w[g]
BY DEF Changed

-----------------------------------------------------------------------------
(* Keeping account.                                                        *)

\* What Held says depends on these fields.
HeldFields == {"id", "next", "dirty", "under", "depth", "parent", "root", "froot",
               "freed", "last"}

\* The account of the pages does not depend on the other fields.
LEMMA HeldKept ==
    ASSUME NEW f, NEW m, NEW w, NEW x, NEW H, NEW G, Held(f, m, w, H),
           Changed(w, x, G), G \cap HeldFields = {}
    PROVE  Held(f, m, x, H)
<1>1. /\ x.id = w.id /\ x.next = w.next /\ x.dirty = w.dirty /\ x.under = w.under
      /\ x.depth = w.depth /\ x.parent = w.parent /\ x.root = w.root
      /\ x.froot = w.froot /\ x.freed = w.freed /\ x.last = w.last
  BY DEF Changed, HeldFields, TxnFields
<1>2. Own(x, f) = Own(w, f)
  BY <1>1 DEF Own
<1>3. Later(f, m, x) = Later(f, m, w) /\ Freed(x) = Freed(w) /\ Private(x, H) = Private(w, H)
  BY <1>1 DEF Later, Freed, Private
<1>4. DOMAIN x = TxnFields
  BY DEF Changed
<1> QED BY <1>1, <1>2, <1>3, <1>4 DEF Held, Shape

\* A step that writes private pages only and accounts for each page keeps Held.
LEMMA HeldNew ==
    ASSUME NEW f, NEW m, NEW w, NEW x, NEW H, NEW S, Held(f, m, w, H),
           Changed(w, x, TxnFields \ {"id", "next", "under", "depth", "parent", "last"}),
           Fn(x.dirty), Private(x, S) \subseteq Private(w, H),
           Tree(Own(x, f), x.root),
           Account(w.next, PagesOf(Own(x, f), x.root), ListPage(x.froot), Later(f, m, w),
                   S, Freed(x))
    PROVE  Held(f, m, x, S)
<1>1. /\ x.id = w.id /\ x.next = w.next /\ x.under = w.under
      /\ x.depth = w.depth /\ x.parent = w.parent /\ x.last = w.last
  BY DEF Changed, TxnFields
<1>2. Later(f, m, x) = Later(f, m, w)
  BY <1>1 DEF Later
<1>3. DOMAIN x = TxnFields
  BY DEF Changed
<1>4. Shape(m, x)
  BY <1>1, <1>3 DEF Held, Shape
<1>5. /\ Private(x, S) \cap (Used(f, m) \cup Later(f, m, x)) = {}
      /\ Private(x, S) \subseteq FirstPage..(x.next - 1)
  BY <1>1, <1>2 DEF Held
<1> QED BY <1>1, <1>2, <1>4, <1>5 DEF Held

\* PageInv does not depend on the other fields.
LEMMA PageKept ==
    ASSUME NEW f, NEW m, NEW w, NEW x, NEW G, PageInv(f, m, w),
           Changed(w, x, G), G \cap (HeldFields \cup {"hasHead", "head"}) = {}
    PROVE  PageInv(f, m, x)
<1>1. x.hasHead = w.hasHead /\ x.head = w.head /\ x.last = w.last
  BY DEF Changed, TxnFields, HeldFields
<1>2. Held(f, m, x, w.head)
  BY HeldKept DEF PageInv
<1> QED BY <1>1, <1>2 DEF PageInv, Consumed
\* A page at hand is in none of the trees.
LEMMA AtHand ==
    ASSUME NEW f, NEW m, NEW w, NEW H, NEW pg \in H, Held(f, m, w, H)
    PROVE  /\ pg \notin PagesOf(Own(w, f), w.root)
           /\ pg \notin ListPage(w.froot)
           /\ pg \in FirstPage..(w.next - 1)
BY DEF Held, Account

-----------------------------------------------------------------------------
(* Writing pages.                                                          *)

\* x is w after it wrote v to the page pg.
Writing(f, w, x, pg, v) ==
    /\ DOMAIN f = Pages
    /\ pg \in Pages
    /\ x.under = w.under
    /\ x.dirty = With(w.dirty, pg, v)

Written(f, w, x, pg, v) ==
    /\ Own(x, f)[pg] = v
    /\ \A q \in Pages \ {pg} : Own(x, f)[q] = Own(w, f)[q]
    /\ Fn(x.dirty)
    /\ DOMAIN x.dirty = DOMAIN w.dirty \cup {pg}

\* A page put into the dirty list is seen by the transaction, and no other
\* page changes.
LEMMA WritePage ==
    ASSUME NEW f, NEW w, NEW x, NEW pg, NEW v, Writing(f, w, x, pg, v)
    PROVE  Written(f, w, x, pg, v)
<1>1. /\ DOMAIN x.dirty = DOMAIN w.dirty \cup {pg} /\ Fn(x.dirty) /\ x.dirty[pg] = v
      /\ \A y \in DOMAIN w.dirty \ {pg} : x.dirty[y] = w.dirty[y]
  BY DEF Writing, With, Fn
<1>2. Own(x, f)[pg] = v
  BY <1>1, Owned DEF Writing
<1>3. ASSUME NEW q \in Pages \ {pg}
      PROVE  Own(x, f)[q] = Own(w, f)[q]
  BY <1>1, Owned DEF Writing
<1> QED BY <1>1, <1>2, <1>3 DEF Written

\* The first page of a tree moves from the pages at hand into the tree.
LEMMA NewRootHeld ==
    ASSUME NEW f, NEW m, NEW w, NEW x, NEW H, NEW pg \in H, DOMAIN f = Pages,
           Accounted(f, m), Held(f, m, w, H), w.root = NoPage, NewRoot(w, x, pg)
    PROVE  /\ Held(f, m, x, H \ {pg})
           /\ x.root # NoPage /\ x.root \in DOMAIN x.dirty
           /\ Tells(f, x) = Tells(f, w)
<1>1. PICK v : EmptyLeaf(v) /\ x.dirty = With(w.dirty, pg, v)
  BY DEF NewRoot
<1>2. /\ x.under = w.under /\ x.froot = w.froot /\ x.freed = w.freed /\ x.depth = w.depth
      /\ x.parent = w.parent /\ x.root = pg
  BY DEF NewRoot, Changed, TxnFields
<1>3. pg \in Pages /\ pg # NoPage /\ pg \in FirstPage..(w.next - 1)
  BY AtHand, HeldPages DEF Pages, NoPage, FirstPage
<1>4. Own(x, f)[pg] = v /\ Fn(x.dirty) /\ DOMAIN x.dirty = DOMAIN w.dirty \cup {pg}
  <2>1. Writing(f, w, x, pg, v)
    BY <1>1, <1>2, <1>3 DEF Writing
  <2>2. Written(f, w, x, pg, v)
    BY <2>1, WritePage
  <2> QED BY <2>2 DEF Written
<1>6. Tree(Own(x, f), pg)
  BY <1>1, <1>3, <1>4 DEF Tree, EmptyLeaf
<1>7. PagesOf(Own(x, f), pg) = {pg}
  BY <1>1, <1>3, <1>4, <1>6, LeafTree DEF EmptyLeaf
<1>8. PagesOf(Own(w, f), w.root) = {} /\ Freed(x) = Freed(w)
  BY <1>2 DEF PagesOf, Freed
<1>9. Account(w.next, {pg}, ListPage(w.froot), Later(f, m, w), H \ {pg}, Freed(w))
  <2>1. Account(w.next, {}, ListPage(w.froot), Later(f, m, w), H, Freed(w))
    BY <1>8 DEF Held
  <2> QED BY <2>1 DEF Account
<1>10. Private(x, H \ {pg}) \subseteq Private(w, H)
  BY <1>2, <1>4 DEF Private
<1>11. Changed(w, x, TxnFields \ {"id", "next", "under", "depth", "parent", "last"})
  BY DEF NewRoot, Changed, TxnFields
<1>12. Held(f, m, x, H \ {pg})
  <2>1. Tree(Own(x, f), x.root)
    BY <1>2, <1>6
  <2>2. Account(w.next, PagesOf(Own(x, f), x.root), ListPage(x.froot), Later(f, m, w),
                H \ {pg}, Freed(x))
    BY <1>2, <1>7, <1>8, <1>9
  <2>3. Fn(x.dirty)
    BY <1>4
  <2> QED BY <1>10, <1>11, <2>1, <2>2, <2>3, HeldNew
<1>13. Contents(Own(x, f), pg) = EmptyMap
  <2>1. DOMAIN Own(x, f)[pg].ov = {}
    BY <1>1, <1>4 DEF EmptyLeaf
  <2>2. Fn(Contents(Own(x, f), pg)) /\ DOMAIN Contents(Own(x, f), pg) = {}
    BY <1>3, <1>6, <2>1, TreeContents
  <2> QED BY <2>2, NoMap
<1>14. Tells(f, x) = Tells(f, w)
  BY <1>2, <1>13 DEF Tells, Contents
<1> QED BY <1>2, <1>3, <1>4, <1>12, <1>14

RootMoved(f, w, x) ==
    /\ x.root # NoPage /\ x.root \in DOMAIN x.dirty
    /\ Own(x, f)[x.root] = Own(w, f)[w.root]
    /\ Tells(f, x) = Tells(f, w)

\* mdb_page_touch of the root: the page at hand replaces the old root, which is
\* freed, and the values are those it had.
LEMMA RootHeld ==
    ASSUME NEW f, NEW m, NEW w, NEW x, NEW H, NEW pg \in H,
           DOMAIN f = Pages, Accounted(f, m), Held(f, m, w, H), w.root # NoPage,
           RootCopy(f, w, x, pg)
    PROVE  Held(f, m, x, H \ {pg}) /\ RootMoved(f, w, x)
<1>2. /\ x.under = w.under /\ x.froot = w.froot /\ x.depth = w.depth /\ x.parent = w.parent
      /\ x.root = pg /\ x.freed = w.freed \cup {w.root}
      /\ x.dirty = With(w.dirty, pg, Own(w, f)[w.root])
  BY DEF RootCopy, Changed, TxnFields
<1>3. pg \in Pages /\ pg # NoPage /\ pg \in FirstPage..(w.next - 1)
  BY AtHand, HeldPages DEF Pages, NoPage, FirstPage
<1>4. /\ Own(x, f)[pg] = Own(w, f)[w.root] /\ Fn(x.dirty)
      /\ DOMAIN x.dirty = DOMAIN w.dirty \cup {pg}
      /\ \A q \in Pages \ {pg} : Own(x, f)[q] = Own(w, f)[q]
  <2>1. Writing(f, w, x, pg, Own(w, f)[w.root])
    BY <1>2, <1>3 DEF Writing
  <2>2. Written(f, w, x, pg, Own(w, f)[w.root])
    BY <2>1, WritePage
  <2> QED BY <2>2 DEF Written
<1> DEFINE o == Own(w, f)
           ov == o[w.root].ov
           P == {ov[k] : k \in DOMAIN ov}
<1>5. Tree(o, w.root) /\ PagesOf(o, w.root) = {w.root} \cup P
  BY LeafTree DEF Held
<1>6. pg # w.root /\ pg \notin P /\ w.root \notin P /\ \A k \in DOMAIN ov : ov[k] \in Pages
  <2>1. pg \notin PagesOf(o, w.root)
    BY AtHand
  <2>2. \A q \in PagesOf(o, w.root) : q \in Pages
    BY HeldPages
  <2>3. \A k \in DOMAIN ov : ov[k] # w.root
    BY <1>5 DEF Tree
  <2> QED BY <1>5, <2>1, <2>2, <2>3
<1>7. Tree(Own(x, f), pg)
  <2>1. \A k \in DOMAIN ov : Own(x, f)[ov[k]] = o[ov[k]] /\ ov[k] # pg
    BY <1>4, <1>6
  <2> QED BY <1>3, <1>4, <1>5, <2>1 DEF Tree
<1>8. PagesOf(Own(x, f), pg) = {pg} \cup P
  BY <1>3, <1>4, <1>7, LeafTree
<1>14. Contents(Own(x, f), pg) = Contents(o, w.root)
  <2>1. \A k \in DOMAIN ov : Own(x, f)[ov[k]] = o[ov[k]]
    BY <1>4, <1>6
  <2>2. /\ Fn(Contents(Own(x, f), pg)) /\ DOMAIN Contents(Own(x, f), pg) = DOMAIN ov
        /\ \A k \in DOMAIN ov : Contents(Own(x, f), pg)[k] = Own(x, f)[ov[k]].v
    BY <1>3, <1>4, <1>7, TreeContents
  <2>3. /\ Fn(Contents(o, w.root)) /\ DOMAIN Contents(o, w.root) = DOMAIN ov
        /\ \A k \in DOMAIN ov : Contents(o, w.root)[k] = o[ov[k]].v
    BY <1>5, TreeContents
  <2> QED BY <2>1, <2>2, <2>3, SameFn
<1>15. Tells(f, x) = Tells(f, w)
  BY <1>2, <1>14 DEF Tells
<1>9. Freed(x) = Freed(w) \cup {w.root}
  BY <1>2 DEF Freed
<1>10. Account(w.next, {pg} \cup P, ListPage(w.froot), Later(f, m, w), H \ {pg},
               Freed(w) \cup {w.root})
  <2>1. Account(w.next, {w.root} \cup P, ListPage(w.froot), Later(f, m, w), H, Freed(w))
    BY <1>5 DEF Held
  <2> HIDE DEF P
  <2> QED BY <1>6, <2>1 DEF Account
<1>11. Private(x, H \ {pg}) \subseteq Private(w, H)
  BY <1>2, <1>4 DEF Private
<1>12. Changed(w, x, TxnFields \ {"id", "next", "under", "depth", "parent", "last"})
  BY DEF RootCopy, Changed, TxnFields
<1>13. Held(f, m, x, H \ {pg})
  <2>1. Tree(Own(x, f), x.root)
    BY <1>2, <1>7
  <2>2. Account(w.next, PagesOf(Own(x, f), x.root), ListPage(x.froot), Later(f, m, w),
                H \ {pg}, Freed(x))
    BY <1>2, <1>8, <1>9, <1>10
  <2>3. Fn(x.dirty)
    BY <1>4
  <2> QED BY <1>11, <1>12, <2>1, <2>2, <2>3, HeldNew
<1> QED BY <1>2, <1>3, <1>4, <1>13, <1>15 DEF RootMoved
-----------------------------------------------------------------------------
(* Linking and unlinking values.                                           *)

\* p is o but for the page of the value of k, which is pg.
Linked(o, p, root, k, pg) ==
    /\ root # NoPage
    /\ k \notin DOMAIN o[root].ov
    /\ pg \notin PagesOf(o, root)
    /\ p[root] = Leaf(With(o[root].ov, k, pg))
    /\ p[pg] = Value(p[pg].v)
    /\ \A q \in PagesOf(o, root) \ {root} : p[q] = o[q]

\* A tree with one more value, on a page that was not in it.
LEMMA LinkTree ==
    ASSUME NEW o, NEW p, NEW root, NEW k, NEW pg, Tree(o, root), Linked(o, p, root, k, pg)
    PROVE  Tree(p, root) /\ PagesOf(p, root) = PagesOf(o, root) \cup {pg}
<1> DEFINE ov == o[root].ov
           new == With(ov, k, pg)
<1>1. /\ PagesOf(o, root) = {root} \cup {ov[l] : l \in DOMAIN ov}
      /\ \A l \in DOMAIN ov : ov[l] # root /\ o[ov[l]] = Value(o[ov[l]].v)
      /\ \A l, j \in DOMAIN ov : ov[l] = ov[j] => l = j
  BY LeafTree DEF Tree, Linked
<1>2. /\ DOMAIN new = DOMAIN ov \cup {k} /\ new[k] = pg /\ Fn(new)
      /\ \A l \in DOMAIN ov : new[l] = ov[l]
  BY DEF Linked, With, Fn
<1>3. p[root].ov = new /\ p[root] = Leaf(new)
  BY DEF Linked, Leaf
<1>4. pg # root /\ \A l \in DOMAIN ov : ov[l] # pg /\ p[ov[l]] = o[ov[l]]
  BY <1>1 DEF Linked
<1>5. \A l \in DOMAIN new : new[l] # root /\ p[new[l]] = Value(p[new[l]].v)
  BY <1>1, <1>2, <1>4 DEF Linked
<1>6. \A l, j \in DOMAIN new : new[l] = new[j] => l = j
  BY <1>1, <1>2, <1>4
<1>7. Tree(p, root)
  BY <1>2, <1>3, <1>5, <1>6 DEF Tree
<1>8. PagesOf(p, root) = {root} \cup {new[l] : l \in DOMAIN new}
  BY <1>3, <1>7, LeafTree DEF Linked
<1>9. {new[l] : l \in DOMAIN new} = {ov[l] : l \in DOMAIN ov} \cup {pg}
  BY <1>2
<1> QED BY <1>1, <1>7, <1>8, <1>9

\* It says one value more.
LEMMA LinkContents ==
    ASSUME NEW o, NEW p, NEW root, NEW k, NEW pg, Tree(o, root), Linked(o, p, root, k, pg)
    PROVE  Contents(p, root) = With(Contents(o, root), k, p[pg].v)
<1> DEFINE ov == o[root].ov
           new == With(ov, k, pg)
           c == With(Contents(o, root), k, p[pg].v)
<1>1. Tree(p, root) /\ root # NoPage /\ PagesOf(o, root) = {root} \cup {ov[l] : l \in DOMAIN ov}
  <2>1. Tree(p, root)
    BY LinkTree
  <2>2. root # NoPage
    BY DEF Linked
  <2> QED BY <2>1, <2>2, LeafTree
<1>2. \A l \in DOMAIN ov : ov[l] # root /\ p[ov[l]] = o[ov[l]]
  BY <1>1 DEF Linked, Tree
<1>3. p[root].ov = new
  BY DEF Linked, Leaf
<1>4. /\ DOMAIN new = DOMAIN ov \cup {k} /\ new[k] = pg
      /\ \A l \in DOMAIN ov : l # k /\ new[l] = ov[l]
  <2>1. k \notin DOMAIN ov
    BY DEF Linked
  <2> HIDE DEF ov
  <2>2. /\ DOMAIN new = DOMAIN ov \cup {k} /\ new[k] = pg
        /\ \A l \in DOMAIN ov \ {k} : new[l] = ov[l]
    BY DEF With
  <2> QED BY <2>1, <2>2
<1> HIDE DEF new
<1>5. /\ Fn(Contents(o, root)) /\ DOMAIN Contents(o, root) = DOMAIN ov
      /\ \A l \in DOMAIN ov : Contents(o, root)[l] = o[ov[l]].v
  BY <1>1, TreeContents
<1>6. /\ Fn(Contents(p, root)) /\ DOMAIN Contents(p, root) = DOMAIN new
      /\ \A l \in DOMAIN new : Contents(p, root)[l] = p[new[l]].v
  BY <1>1, <1>3, TreeContents
<1>7. /\ Fn(c) /\ DOMAIN c = DOMAIN ov \cup {k} /\ c[k] = p[pg].v
      /\ \A l \in DOMAIN ov \ {k} : c[l] = Contents(o, root)[l]
  <2> DEFINE b == Contents(o, root)
  <2> HIDE DEF b
  <2>1. \A v : /\ Fn(With(b, k, v)) /\ DOMAIN With(b, k, v) = DOMAIN b \cup {k}
               /\ With(b, k, v)[k] = v
               /\ \A l \in DOMAIN b \ {k} : With(b, k, v)[l] = b[l]
    BY DEF With, Fn
  <2> QED BY <1>5, <2>1 DEF b
<1> HIDE DEF c
<1>8. \A l \in DOMAIN new : Contents(p, root)[l] = c[l]
  BY <1>2, <1>4, <1>5, <1>6, <1>7
<1>9. Contents(p, root) = c
  BY <1>4, <1>6, <1>7, <1>8, SameFn
<1> QED BY <1>9 DEF c

\* p is o without k.
Unlinked(o, p, root, k) ==
    /\ root # NoPage
    /\ k \in DOMAIN o[root].ov
    /\ p[root] = Leaf(Without(o[root].ov, k))
    /\ \A q \in PagesOf(o, root) \ {root, o[root].ov[k]} : p[q] = o[q]

\* A tree with one value less.
LEMMA UnlinkTree ==
    ASSUME NEW o, NEW p, NEW root, NEW k, Tree(o, root), Unlinked(o, p, root, k)
    PROVE  /\ Tree(p, root)
           /\ PagesOf(p, root) = PagesOf(o, root) \ {o[root].ov[k]}
           /\ o[root].ov[k] # root
           /\ k \notin DOMAIN p[root].ov
<1> DEFINE ov == o[root].ov
           new == Without(ov, k)
<1>1. /\ PagesOf(o, root) = {root} \cup {ov[l] : l \in DOMAIN ov}
      /\ \A l \in DOMAIN ov : ov[l] # root /\ o[ov[l]] = Value(o[ov[l]].v)
      /\ \A l, j \in DOMAIN ov : ov[l] = ov[j] => l = j
  BY LeafTree DEF Tree, Unlinked
<1>2. /\ DOMAIN new = DOMAIN ov \ {k} /\ Fn(new)
      /\ \A l \in DOMAIN new : new[l] = ov[l]
  BY DEF Unlinked, Without, Fn
<1>3. p[root].ov = new /\ p[root] = Leaf(new)
  BY DEF Unlinked, Leaf
<1>4. \A l \in DOMAIN new : ov[l] # ov[k] /\ p[ov[l]] = o[ov[l]]
  BY <1>1, <1>2 DEF Unlinked
<1>5. \A l \in DOMAIN new : new[l] # root /\ p[new[l]] = Value(p[new[l]].v)
  BY <1>1, <1>2, <1>4
<1>6. \A l, j \in DOMAIN new : new[l] = new[j] => l = j
  BY <1>1, <1>2
<1>7. Tree(p, root)
  BY <1>2, <1>3, <1>5, <1>6 DEF Tree
<1>8. PagesOf(p, root) = {root} \cup {new[l] : l \in DOMAIN new}
  BY <1>3, <1>7, LeafTree DEF Unlinked
<1>9. {new[l] : l \in DOMAIN new} = {ov[l] : l \in DOMAIN ov} \ {ov[k]}
  BY <1>1, <1>2, <1>4 DEF Unlinked
<1>10. ov[k] # root /\ k \notin DOMAIN new
  BY <1>1, <1>2 DEF Unlinked
<1> QED BY <1>1, <1>3, <1>7, <1>8, <1>9, <1>10

\* It says one value less.
LEMMA UnlinkContents ==
    ASSUME NEW o, NEW p, NEW root, NEW k, Tree(o, root), Unlinked(o, p, root, k)
    PROVE  Contents(p, root) = Without(Contents(o, root), k)
<1> DEFINE ov == o[root].ov
           new == Without(ov, k)
           c == Without(Contents(o, root), k)
<1>1. Tree(p, root) /\ root # NoPage /\ PagesOf(o, root) = {root} \cup {ov[l] : l \in DOMAIN ov}
  BY UnlinkTree, LeafTree DEF Unlinked
<1>2. \A l \in DOMAIN ov \ {k} : p[ov[l]] = o[ov[l]]
  <2>1. \A l \in DOMAIN ov : ov[l] # root /\ (ov[l] = ov[k] => l = k)
    BY DEF Unlinked, Tree
  <2> QED BY <1>1, <2>1 DEF Unlinked
<1>3. p[root].ov = new
  BY DEF Unlinked, Leaf
<1>4. DOMAIN new = DOMAIN ov \ {k} /\ \A l \in DOMAIN ov \ {k} : new[l] = ov[l]
  BY WithoutOne
<1> HIDE DEF new
<1>5. /\ Fn(Contents(o, root)) /\ DOMAIN Contents(o, root) = DOMAIN ov
      /\ \A l \in DOMAIN ov : Contents(o, root)[l] = o[ov[l]].v
  BY <1>1, TreeContents
<1>6. /\ Fn(Contents(p, root)) /\ DOMAIN Contents(p, root) = DOMAIN new
      /\ \A l \in DOMAIN new : Contents(p, root)[l] = p[new[l]].v
  BY <1>1, <1>3, TreeContents
<1>7. /\ Fn(c) /\ DOMAIN c = DOMAIN ov \ {k}
      /\ \A l \in DOMAIN ov \ {k} : c[l] = Contents(o, root)[l]
  <2> DEFINE b == Contents(o, root)
  <2> HIDE DEF b
  <2>1. /\ Fn(Without(b, k)) /\ DOMAIN Without(b, k) = DOMAIN b \ {k}
        /\ \A l \in DOMAIN b \ {k} : Without(b, k)[l] = b[l]
    BY WithoutOne
  <2> QED BY <1>5, <2>1 DEF b
<1> HIDE DEF c
<1>8. \A l \in DOMAIN new : Contents(p, root)[l] = c[l]
  BY <1>2, <1>4, <1>5, <1>6, <1>7
<1>9. Contents(p, root) = c
  BY <1>4, <1>6, <1>7, <1>8, SameFn
<1> QED BY <1>9 DEF c

\* p is o with another value of k.
Overwritten(o, p, root, k) ==
    /\ root # NoPage
    /\ k \in DOMAIN o[root].ov
    /\ p[o[root].ov[k]] = Value(p[o[root].ov[k]].v)
    /\ \A q \in PagesOf(o, root) \ {o[root].ov[k]} : p[q] = o[q]

\* A tree in which a value was written over.
LEMMA OverwriteTree ==
    ASSUME NEW o, NEW p, NEW root, NEW k, Tree(o, root), Overwritten(o, p, root, k)
    PROVE  Tree(p, root) /\ PagesOf(p, root) = PagesOf(o, root)
<1> DEFINE ov == o[root].ov
<1>1. /\ PagesOf(o, root) = {root} \cup {ov[l] : l \in DOMAIN ov}
      /\ \A l \in DOMAIN ov : ov[l] # root /\ o[ov[l]] = Value(o[ov[l]].v)
      /\ \A l, j \in DOMAIN ov : ov[l] = ov[j] => l = j
      /\ o[root] = Leaf(ov) /\ Fn(ov)
  BY LeafTree DEF Tree, Overwritten
<1>2. p[root] = o[root]
  BY <1>1 DEF Overwritten
<1>3. \A l \in DOMAIN ov : p[ov[l]] = Value(p[ov[l]].v)
  BY <1>1 DEF Overwritten
<1>4. Tree(p, root)
  BY <1>1, <1>2, <1>3 DEF Tree
<1>5. PagesOf(p, root) = {root} \cup {ov[l] : l \in DOMAIN ov}
  BY <1>2, <1>4, LeafTree DEF Overwritten
<1> QED BY <1>1, <1>4, <1>5

\* It says another value of k.
LEMMA OverwriteContents ==
    ASSUME NEW o, NEW p, NEW root, NEW k, Tree(o, root), Overwritten(o, p, root, k)
    PROVE  Contents(p, root) = With(Contents(o, root), k, p[o[root].ov[k]].v)
<1> DEFINE ov == o[root].ov
           c == With(Contents(o, root), k, p[ov[k]].v)
<1>1. /\ Tree(p, root) /\ root # NoPage /\ PagesOf(o, root) = {root} \cup {ov[l] : l \in DOMAIN ov}
      /\ k \in DOMAIN ov
  BY OverwriteTree, LeafTree DEF Overwritten
<1>2. \A l \in DOMAIN ov \ {k} : p[ov[l]] = o[ov[l]]
  <2>1. \A l \in DOMAIN ov : ov[l] = ov[k] => l = k
    BY DEF Overwritten, Tree
  <2> QED BY <1>1, <2>1 DEF Overwritten
<1>3. p[root] = o[root]
  <2>1. ov[k] # root
    BY DEF Overwritten, Tree
  <2> QED BY <1>1, <2>1 DEF Overwritten
<1>5. /\ Fn(Contents(o, root)) /\ DOMAIN Contents(o, root) = DOMAIN ov
      /\ \A l \in DOMAIN ov : Contents(o, root)[l] = o[ov[l]].v
  BY <1>1, TreeContents
<1>6. /\ Fn(Contents(p, root)) /\ DOMAIN Contents(p, root) = DOMAIN ov
      /\ \A l \in DOMAIN ov : Contents(p, root)[l] = p[ov[l]].v
  BY <1>1, <1>3, TreeContents
<1>7. /\ Fn(c) /\ DOMAIN c = DOMAIN ov \cup {k} /\ c[k] = p[ov[k]].v
      /\ \A l \in DOMAIN ov \ {k} : c[l] = Contents(o, root)[l]
  <2> DEFINE b == Contents(o, root)
  <2> HIDE DEF b
  <2>1. \A v : /\ Fn(With(b, k, v)) /\ DOMAIN With(b, k, v) = DOMAIN b \cup {k}
               /\ With(b, k, v)[k] = v
               /\ \A l \in DOMAIN b \ {k} : With(b, k, v)[l] = b[l]
    BY DEF With, Fn
  <2> QED BY <1>5, <2>1 DEF b
<1> HIDE DEF c
<1>8. \A l \in DOMAIN ov : Contents(p, root)[l] = c[l]
  BY <1>1, <1>2, <1>5, <1>6, <1>7
<1>9. DOMAIN c = DOMAIN ov
  BY <1>1, <1>7
<1>10. Contents(p, root) = c
  BY <1>6, <1>7, <1>8, <1>9, SameFn
<1> QED BY <1>10 DEF c

-----------------------------------------------------------------------------
(* Steps that keep account of the pages.                                   *)

Rewriting(f, w, x, root, v) ==
    /\ DOMAIN f = Pages
    /\ root \in Pages
    /\ root \in DOMAIN w.dirty
    /\ x.under = w.under
    /\ x.dirty = [w.dirty EXCEPT ![root] = v]

Rewritten(f, w, x, root, v) ==
    /\ Own(x, f)[root] = v
    /\ \A q \in Pages \ {root} : Own(x, f)[q] = Own(w, f)[q]
    /\ Fn(x.dirty)
    /\ DOMAIN x.dirty = DOMAIN w.dirty

\* A dirty page written again is the only one that changes.
LEMMA RewritePage ==
    ASSUME NEW f, NEW w, NEW x, NEW root, NEW v, Rewriting(f, w, x, root, v)
    PROVE  Rewritten(f, w, x, root, v)
<1>1. /\ DOMAIN x.dirty = DOMAIN w.dirty /\ Fn(x.dirty) /\ x.dirty[root] = v
      /\ \A y \in DOMAIN w.dirty \ {root} : x.dirty[y] = w.dirty[y]
  BY DEF Rewriting, Fn
<1>2. Own(x, f)[root] = v
  BY <1>1, Owned DEF Rewriting
<1>3. ASSUME NEW q \in Pages \ {root}
      PROVE  Own(x, f)[q] = Own(w, f)[q]
  BY <1>1, Owned DEF Rewriting
<1> QED BY <1>1, <1>2, <1>3 DEF Rewritten

\* A value is put into the root.
LEMMA ValueHeld ==
    ASSUME NEW f, NEW m, NEW w, NEW x, NEW H, NEW pg \in H, DOMAIN f = Pages,
           Accounted(f, m), Held(f, m, w, H), w.root # NoPage, w.root \in DOMAIN w.dirty,
           w.key \notin DOMAIN Own(w, f)[w.root].ov, NewValue(w, x, pg)
    PROVE  Held(f, m, x, H \ {pg}) /\ Tells(f, x) = With(Tells(f, w), w.key, w.stamp)
<1>1. /\ x.under = w.under /\ x.froot = w.froot /\ x.freed = w.freed /\ x.depth = w.depth
      /\ x.parent = w.parent /\ x.root = w.root
  BY DEF NewValue, Changed, TxnFields
<1>2. /\ pg \in Pages /\ pg \in FirstPage..(w.next - 1) /\ pg \notin PagesOf(Own(w, f), w.root)
      /\ pg \notin ListPage(w.froot)
  BY AtHand, HeldPages
<1>3. Tree(Own(w, f), w.root) /\ w.root \in PagesOf(Own(w, f), w.root) /\ w.root \in Pages
  <2>1. Tree(Own(w, f), w.root)
    BY DEF Held
  <2>2. w.root \in PagesOf(Own(w, f), w.root)
    BY <2>1, LeafTree
  <2> QED BY <2>1, <2>2, HeldPages
<1>4. Own(w, f)[w.root] = w.dirty[w.root]
  BY <1>3, Owned
<1> DEFINE leaf == Leaf(With(w.dirty[w.root].ov, w.key, pg))
<1>5. /\ DOMAIN x.dirty = DOMAIN w.dirty \cup {pg} /\ Fn(x.dirty)
      /\ x.dirty[pg] = Value(w.stamp) /\ x.dirty[w.root] = leaf
      /\ \A y \in DOMAIN w.dirty \ {pg, w.root} : x.dirty[y] = w.dirty[y]
  <2> HIDE DEF leaf
  <2>1. x.dirty = With([w.dirty EXCEPT ![w.root] = leaf], pg, Value(w.stamp)) /\ pg # w.root
    BY <1>2, <1>3 DEF NewValue, leaf
  <2> QED BY <2>1 DEF With, Fn
<1>6. Own(x, f)[pg] = Value(w.stamp) /\ Own(x, f)[w.root] = leaf
  <2> HIDE DEF leaf
  <2>1. Own(x, f)[pg] = x.dirty[pg]
    BY <1>2, <1>5, Owned
  <2>2. Own(x, f)[w.root] = x.dirty[w.root]
    <3>1. w.root \in DOMAIN x.dirty
      BY <1>5
    <3> QED BY <1>3, <3>1, Owned
  <2> QED BY <1>5, <2>1, <2>2
<1>7. ASSUME NEW q \in Pages \ {pg, w.root}
      PROVE  Own(x, f)[q] = Own(w, f)[q]
  BY <1>1, <1>5, Owned
<1>8. Linked(Own(w, f), Own(x, f), w.root, w.key, pg)
  <2>1. Own(x, f)[w.root] = Leaf(With(Own(w, f)[w.root].ov, w.key, pg))
    BY <1>4, <1>6
  <2>2. Own(x, f)[pg] = Value(Own(x, f)[pg].v)
    BY <1>6 DEF Value
  <2>3. \A q \in PagesOf(Own(w, f), w.root) \ {w.root} : Own(x, f)[q] = Own(w, f)[q]
    BY <1>2, <1>7, HeldPages
  <2> QED BY <1>2, <2>1, <2>2, <2>3 DEF Linked
<1>9. /\ Tree(Own(x, f), w.root)
      /\ PagesOf(Own(x, f), w.root) = PagesOf(Own(w, f), w.root) \cup {pg}
  BY <1>3, <1>8, LinkTree
<1>10. Account(w.next, PagesOf(Own(w, f), w.root) \cup {pg}, ListPage(w.froot),
               Later(f, m, w), H \ {pg}, Freed(w))
  <2>1. Account(w.next, PagesOf(Own(w, f), w.root), ListPage(w.froot), Later(f, m, w), H,
                Freed(w))
    BY DEF Held
  <2> QED BY <2>1 DEF Account
<1>11. Private(x, H \ {pg}) \subseteq Private(w, H)
  BY <1>1, <1>5 DEF Private
<1>12. Changed(w, x, TxnFields \ {"id", "next", "under", "depth", "parent", "last"})
  BY DEF NewValue, Changed, TxnFields
<1>13. Tree(Own(x, f), x.root) /\ Fn(x.dirty) /\ Freed(x) = Freed(w)
  BY <1>1, <1>5, <1>9 DEF Freed
<1>14. Account(w.next, PagesOf(Own(x, f), x.root), ListPage(x.froot), Later(f, m, w),
               H \ {pg}, Freed(x))
  BY <1>1, <1>9, <1>10, <1>13
<1>15. Held(f, m, x, H \ {pg})
  BY <1>11, <1>12, <1>13, <1>14, HeldNew
<1>16. Tells(f, x) = With(Tells(f, w), w.key, w.stamp)
  <2>1. Contents(Own(x, f), w.root) = With(Contents(Own(w, f), w.root), w.key, Own(x, f)[pg].v)
    BY <1>3, <1>8, LinkContents
  <2>2. Own(x, f)[pg].v = w.stamp
    BY <1>6 DEF Value
  <2> QED BY <1>1, <2>1, <2>2 DEF Tells
<1> QED BY <1>15, <1>16

\* The value of the key is taken out of the root, and its page becomes free.
Unlinking(w, x, pg) ==
    /\ w.key \in DOMAIN w.dirty[w.root].ov
    /\ pg = w.dirty[w.root].ov[w.key]
    /\ DOMAIN x.dirty \subseteq DOMAIN w.dirty
    /\ x.dirty[w.root] = Leaf(Without(w.dirty[w.root].ov, w.key))
    /\ w.root \in DOMAIN x.dirty
    /\ Fn(x.dirty)
    /\ DOMAIN w.dirty \subseteq DOMAIN x.dirty \cup {pg}
    /\ \A y \in DOMAIN x.dirty \ {w.root} : x.dirty[y] = w.dirty[y]

UnlinkedTree(f, w, x) ==
    /\ Tree(Own(x, f), w.root)
    /\ PagesOf(Own(x, f), w.root) = PagesOf(Own(w, f), w.root) \ {w.dirty[w.root].ov[w.key]}
    /\ w.dirty[w.root].ov[w.key] \in PagesOf(Own(w, f), w.root)
    /\ w.dirty[w.root].ov[w.key] # w.root
    /\ Own(x, f)[w.root] = x.dirty[w.root]
    /\ w.key \notin DOMAIN Own(x, f)[w.root].ov
    /\ Contents(Own(x, f), w.root) = Without(Tells(f, w), w.key)

\* The leaf without a key is a tree without its page.
LEMMA UnlinkOwn ==
    ASSUME NEW f, NEW m, NEW w, NEW x, NEW H, NEW pg, DOMAIN f = Pages,
           Accounted(f, m), Held(f, m, w, H), w.root # NoPage, w.root \in DOMAIN w.dirty,
           x.under = w.under, Unlinking(w, x, pg)
    PROVE  UnlinkedTree(f, w, x)
<1>3. Tree(Own(w, f), w.root) /\ w.root \in PagesOf(Own(w, f), w.root) /\ w.root \in Pages
  <2>1. Tree(Own(w, f), w.root)
    BY DEF Held
  <2>2. w.root \in PagesOf(Own(w, f), w.root)
    BY <2>1, LeafTree
  <2> QED BY <2>1, <2>2, HeldPages
<1>4. Own(w, f)[w.root] = w.dirty[w.root]
  BY <1>3, Owned
<1>5. Own(x, f)[w.root] = x.dirty[w.root]
  BY <1>3, Owned DEF Unlinking
<1>6. ASSUME NEW q \in Pages \ {pg, w.root}
      PROVE  Own(x, f)[q] = Own(w, f)[q]
  BY Owned DEF Unlinking
<1>7. pg = Own(w, f)[w.root].ov[w.key] /\ pg \in PagesOf(Own(w, f), w.root)
  <2>1. pg = Own(w, f)[w.root].ov[w.key] /\ w.key \in DOMAIN Own(w, f)[w.root].ov
    BY <1>4 DEF Unlinking
  <2>2. PagesOf(Own(w, f), w.root) =
          {w.root} \cup {Own(w, f)[w.root].ov[k] : k \in DOMAIN Own(w, f)[w.root].ov}
    BY <1>3, LeafTree
  <2> QED BY <2>1, <2>2
<1>8. Unlinked(Own(w, f), Own(x, f), w.root, w.key)
  <2>1. Own(x, f)[w.root] = Leaf(Without(Own(w, f)[w.root].ov, w.key))
    BY <1>4, <1>5 DEF Unlinking
  <2>2. \A q \in PagesOf(Own(w, f), w.root) \ {w.root, pg} : Own(x, f)[q] = Own(w, f)[q]
    BY <1>6, HeldPages
  <2>3. w.key \in DOMAIN Own(w, f)[w.root].ov
    BY <1>4 DEF Unlinking
  <2> QED BY <1>7, <2>1, <2>2, <2>3 DEF Unlinked
<1>9. /\ Tree(Own(x, f), w.root)
      /\ PagesOf(Own(x, f), w.root) = PagesOf(Own(w, f), w.root) \ {pg}
      /\ pg # w.root /\ w.key \notin DOMAIN Own(x, f)[w.root].ov
  BY <1>3, <1>7, <1>8, UnlinkTree
<1>10. Contents(Own(x, f), w.root) = Without(Tells(f, w), w.key)
  BY <1>3, <1>8, UnlinkContents DEF Tells
<1> QED BY <1>4, <1>5, <1>7, <1>9, <1>10 DEF UnlinkedTree, Unlinking

\* The page goes to those at hand, or to those freed.
LEMMA UnlinkHeld ==
    ASSUME NEW f, NEW m, NEW w, NEW x, NEW H, NEW pg, NEW S, DOMAIN f = Pages,
           Accounted(f, m), Held(f, m, w, H), w.root # NoPage, w.root \in DOMAIN w.dirty,
           Changed(w, x, {"pc", "at", "dirty", "head", "freed"}), Unlinking(w, x, pg),
           \/ /\ S = H \cup {pg} /\ pg \in DOMAIN w.dirty /\ x.freed = w.freed
           \/ /\ S = H /\ x.freed = w.freed \cup {pg}
    PROVE  Held(f, m, x, S) /\ UnlinkedTree(f, w, x)
<1>1. /\ x.under = w.under /\ x.froot = w.froot /\ x.depth = w.depth
      /\ x.parent = w.parent /\ x.root = w.root
  BY DEF Changed, TxnFields
<1>2. UnlinkedTree(f, w, x)
  BY <1>1, UnlinkOwn
<1>3. /\ Tree(Own(x, f), x.root)
      /\ PagesOf(Own(x, f), x.root) = PagesOf(Own(w, f), w.root) \ {pg}
      /\ pg \in PagesOf(Own(w, f), w.root)
  BY <1>1, <1>2 DEF UnlinkedTree, Unlinking
<1>4. Account(w.next, PagesOf(Own(w, f), w.root), ListPage(w.froot), Later(f, m, w), H,
              Freed(w))
  BY DEF Held
<1>5. Fn(x.dirty) /\ DOMAIN x.dirty \subseteq DOMAIN w.dirty
  BY DEF Unlinking
<1>6. Changed(w, x, TxnFields \ {"id", "next", "under", "depth", "parent", "last"})
  BY DEF Changed, TxnFields
<1>7. Private(x, S) \subseteq Private(w, H)
  BY <1>1, <1>5 DEF Private
<1>8. CASE S = H \cup {pg} /\ x.freed = w.freed
  <2>1. Freed(x) = Freed(w)
    BY <1>1, <1>8 DEF Freed
  <2>2. Account(w.next, PagesOf(Own(w, f), w.root) \ {pg}, ListPage(w.froot), Later(f, m, w), S,
                Freed(w))
    BY <1>3, <1>4, <1>8 DEF Account
  <2>3. Account(w.next, PagesOf(Own(x, f), x.root), ListPage(x.froot), Later(f, m, w), S, Freed(x))
    BY <1>1, <1>3, <2>1, <2>2
  <2> QED BY <1>2, <1>3, <1>5, <1>6, <1>7, <2>3, HeldNew
<1>9. CASE S = H /\ x.freed = w.freed \cup {pg}
  <2>1. Freed(x) = Freed(w) \cup {pg}
    BY <1>1, <1>9 DEF Freed
  <2>2. Account(w.next, PagesOf(Own(w, f), w.root) \ {pg}, ListPage(w.froot), Later(f, m, w), S,
                Freed(w) \cup {pg})
    BY <1>3, <1>4, <1>9 DEF Account
  <2>3. Account(w.next, PagesOf(Own(x, f), x.root), ListPage(x.froot), Later(f, m, w), S, Freed(x))
    BY <1>1, <1>3, <2>1, <2>2
  <2> QED BY <1>2, <1>3, <1>5, <1>6, <1>7, <2>3, HeldNew
<1> QED BY <1>8, <1>9

\* A root without values is dropped.
LEMMA DropHeld ==
    ASSUME NEW f, NEW m, NEW w, NEW x, NEW H, Held(f, m, w, H), w.root # NoPage,
           DOMAIN Own(w, f)[w.root].ov = {},
           Changed(w, x, {"root", "freed"}),
           x.root = NoPage, x.freed = w.freed \cup {w.root}
    PROVE  Held(f, m, x, H)
<1>1. /\ x.under = w.under /\ x.froot = w.froot /\ x.depth = w.depth
      /\ x.parent = w.parent /\ x.dirty = w.dirty
  BY DEF Changed, TxnFields
<1>2. PagesOf(Own(w, f), w.root) = {w.root}
  <2>1. Tree(Own(w, f), w.root)
    BY DEF Held
  <2> QED BY <2>1, LeafTree
<1>3. PagesOf(Own(x, f), x.root) = {} /\ Tree(Own(x, f), x.root)
  BY DEF PagesOf, Tree
<1>4. Freed(x) = Freed(w) \cup {w.root}
  BY <1>1 DEF Freed
<1>5. Account(w.next, {}, ListPage(w.froot), Later(f, m, w), H, Freed(w) \cup {w.root})
  <2>1. Account(w.next, {w.root}, ListPage(w.froot), Later(f, m, w), H, Freed(w))
    BY <1>2 DEF Held
  <2> QED BY <2>1 DEF Account
<1>6. Account(w.next, PagesOf(Own(x, f), x.root), ListPage(x.froot), Later(f, m, w), H, Freed(x))
  BY <1>1, <1>3, <1>4, <1>5
<1>7. Private(x, H) \subseteq Private(w, H) /\ Fn(x.dirty)
  BY <1>1 DEF Private, Held, Shape
<1>8. Changed(w, x, TxnFields \ {"id", "next", "under", "depth", "parent", "last"})
  BY DEF Changed, TxnFields
<1> QED BY <1>3, <1>6, <1>7, <1>8, HeldNew

\* A value written before is written again.
LEMMA OverwriteHeld ==
    ASSUME NEW f, NEW m, NEW w, NEW x, NEW H, NEW pg, NEW v, DOMAIN f = Pages,
           Accounted(f, m), Held(f, m, w, H), w.root # NoPage, w.root \in DOMAIN w.dirty,
           w.key \in DOMAIN w.dirty[w.root].ov, pg = w.dirty[w.root].ov[w.key],
           IsDirty(w, pg), Changed(w, x, {"pc", "dirty"}),
           x.dirty = With(w.dirty, pg, Value(v))
    PROVE  Held(f, m, x, H) /\ Tells(f, x) = With(Tells(f, w), w.key, v)
<1>1. /\ x.under = w.under /\ x.froot = w.froot /\ x.freed = w.freed /\ x.depth = w.depth
      /\ x.parent = w.parent /\ x.root = w.root
  BY DEF Changed, TxnFields
<1>2. Tree(Own(w, f), w.root) /\ w.root \in Pages
  <2>1. Tree(Own(w, f), w.root)
    BY DEF Held
  <2>2. w.root \in PagesOf(Own(w, f), w.root)
    BY <2>1, LeafTree
  <2> QED BY <2>1, <2>2, HeldPages
<1>3. Own(w, f)[w.root] = w.dirty[w.root]
  BY <1>2, Owned
<1>4. pg \in PagesOf(Own(w, f), w.root) /\ pg \in Pages
  <2>1. PagesOf(Own(w, f), w.root) =
          {w.root} \cup {Own(w, f)[w.root].ov[k] : k \in DOMAIN Own(w, f)[w.root].ov}
    BY <1>2, LeafTree
  <2>2. pg \in PagesOf(Own(w, f), w.root)
    BY <1>3, <2>1
  <2> QED BY <2>2, HeldPages
<1>5. /\ Own(x, f)[pg] = Value(v) /\ Fn(x.dirty)
      /\ DOMAIN x.dirty = DOMAIN w.dirty \cup {pg}
      /\ \A q \in Pages \ {pg} : Own(x, f)[q] = Own(w, f)[q]
  <2>1. Writing(f, w, x, pg, Value(v))
    BY <1>1, <1>4 DEF Writing
  <2>2. Written(f, w, x, pg, Value(v))
    BY <2>1, WritePage
  <2> QED BY <2>2 DEF Written
<1>6. Overwritten(Own(w, f), Own(x, f), w.root, w.key)
  <2>1. Own(x, f)[pg] = Value(Own(x, f)[pg].v)
    <3>1. Value(v).v = v
      BY DEF Value
    <3> QED BY <1>5, <3>1
  <2>2. \A q \in PagesOf(Own(w, f), w.root) \ {pg} : Own(x, f)[q] = Own(w, f)[q]
    BY <1>5, HeldPages
  <2> QED BY <1>3, <2>1, <2>2 DEF Overwritten
<1>7. Tree(Own(x, f), w.root) /\ PagesOf(Own(x, f), w.root) = PagesOf(Own(w, f), w.root)
  BY <1>2, <1>6, OverwriteTree
<1>8. Tree(Own(x, f), x.root) /\ Freed(x) = Freed(w)
  BY <1>1, <1>7 DEF Freed
<1>9. Account(w.next, PagesOf(Own(x, f), x.root), ListPage(x.froot), Later(f, m, w), H, Freed(x))
  BY <1>1, <1>7, <1>8 DEF Held
<1>10. Private(x, H) \subseteq Private(w, H)
  BY <1>1, <1>5 DEF Private, IsDirty
<1>11. Changed(w, x, TxnFields \ {"id", "next", "under", "depth", "parent", "last"})
  BY DEF Changed, TxnFields
<1>12. Held(f, m, x, H)
  BY <1>5, <1>8, <1>9, <1>10, <1>11, HeldNew
<1>13. Tells(f, x) = With(Tells(f, w), w.key, v)
  <2>1. Contents(Own(x, f), w.root) = With(Contents(Own(w, f), w.root), w.key, Own(x, f)[pg].v)
    BY <1>2, <1>3, <1>6, OverwriteContents
  <2>2. Own(x, f)[pg].v = v
    BY <1>5 DEF Value
  <2> QED BY <1>1, <2>1, <2>2 DEF Tells
<1> QED BY <1>12, <1>13

\* A page at the end of the file is at hand.
LEMMA MapHeld ==
    ASSUME NEW f, NEW m, NEW w, NEW x, NEW H, Accounted(f, m), Held(f, m, w, H),
           Changed(w, x, {"next"}), x.next = w.next + 1, w.next + 1 < MaxPg
    PROVE  Held(f, m, x, H \cup {w.next})
<1>1. /\ x.under = w.under /\ x.froot = w.froot /\ x.depth = w.depth /\ x.id = w.id
      /\ x.parent = w.parent /\ x.dirty = w.dirty /\ x.root = w.root /\ x.freed = w.freed
      /\ x.last = w.last
  BY DEF Changed, TxnFields
<1>2. /\ w.next \in Int /\ w.next > m.last /\ w.next >= FirstPage
      /\ MaxPg \in Nat /\ FirstPage = 2 /\ m.last \in Int
  BY HeldPages, UsedPages, LmdbAssumption DEF FirstPage
<1>3. FirstPage..(x.next - 1) = FirstPage..(w.next - 1) \cup {w.next}
  BY <1>2
<1>4. w.next \notin FirstPage..(w.next - 1)
  BY <1>2
<1>5. Own(x, f) = Own(w, f) /\ Later(f, m, x) = Later(f, m, w) /\ Freed(x) = Freed(w)
  BY <1>1 DEF Own, Later, Freed
<1>6. Account(x.next, PagesOf(Own(x, f), x.root), ListPage(x.froot), Later(f, m, x),
              H \cup {w.next}, Freed(x))
  <2>1. Account(w.next, PagesOf(Own(w, f), w.root), ListPage(w.froot), Later(f, m, w), H,
                Freed(w))
    BY DEF Held
  <2>2. Account(x.next, PagesOf(Own(w, f), w.root), ListPage(w.froot), Later(f, m, w),
                H \cup {w.next}, Freed(w))
    BY <1>3, <1>4, <2>1 DEF Account
  <2> QED BY <1>1, <1>5, <2>2
<1>7. w.next \notin Used(f, m) \cup Later(f, m, w)
  <2>1. \A pg \in Used(f, m) : pg <= m.last
    BY <1>2, UsedPages
  <2>2. \A pg \in Later(f, m, w) : pg <= m.last
    BY <1>2, UsedPages DEF Later
  <2> QED BY <1>2, <2>1, <2>2
<1>8. /\ Private(x, H \cup {w.next}) \cap (Used(f, m) \cup Later(f, m, x)) = {}
      /\ Private(x, H \cup {w.next}) \subseteq FirstPage..(x.next - 1)
  <2>1. Private(x, H \cup {w.next}) = Private(w, H) \cup {w.next}
    BY <1>1 DEF Private
  <2>2. /\ Private(w, H) \cap (Used(f, m) \cup Later(f, m, w)) = {}
        /\ Private(w, H) \subseteq FirstPage..(w.next - 1)
    BY DEF Held
  <2> QED BY <1>3, <1>5, <1>7, <2>1, <2>2
<1>9. Shape(m, x)
  <2>1. x.next \in (m.last + 1)..(MaxPg - 1)
    BY <1>2
  <2>2. DOMAIN x = TxnFields
    BY DEF Changed
  <2> QED BY <1>1, <2>1, <2>2 DEF Held, Shape
<1>10. Tree(Own(x, f), x.root)
  BY <1>1, <1>5 DEF Held
<1> QED BY <1>6, <1>8, <1>9, <1>10 DEF Held

\* The first record left is consumed.
Consuming(f, m, w, x, r) ==
    /\ r \in DOMAIN Listed(f, m)
    /\ DOMAIN Listed(f, m) \subseteq Nat
    /\ r > w.last
    /\ w.last \in Nat
    /\ \A s \in DOMAIN Listed(f, m) : s > w.last => r <= s
    /\ x.last = r

\* A record of the free list that is consumed joins the pages at hand.
LEMMA ConsumeHeld ==
    ASSUME NEW f, NEW m, NEW w, NEW x, NEW H, NEW r, Accounted(f, m), Held(f, m, w, H),
           Changed(w, x, {"hasHead", "head", "last"}), Consuming(f, m, w, x, r)
    PROVE  Held(f, m, x, H \cup Listed(f, m)[r])
<1>1. /\ x.under = w.under /\ x.froot = w.froot /\ x.depth = w.depth /\ x.id = w.id
      /\ x.parent = w.parent /\ x.dirty = w.dirty /\ x.root = w.root /\ x.freed = w.freed
      /\ x.next = w.next
  BY DEF Changed, TxnFields
<1> DEFINE T == Listed(f, m)[r]
<1>2. Own(x, f) = Own(w, f) /\ Freed(x) = Freed(w)
  BY <1>1 DEF Own, Freed
<1>3. Later(f, m, w) = T \cup Later(f, m, x)
  <2>1. \A s \in DOMAIN Listed(f, m) : s > w.last <=> s = r \/ s > x.last
    BY DEF Consuming
  <2> QED BY <2>1 DEF Later, Consuming
<1>4. T \cap Later(f, m, x) = {} /\ T \cap Used(f, m) = {}
  <2>1. T \cap Used(f, m) = {}
    BY DEF Accounted, Consuming
  <2>2. \A s \in DOMAIN Listed(f, m) : s > x.last => s # r
    BY DEF Consuming
  <2>3. \A s \in DOMAIN Listed(f, m) \ {r} : T \cap Listed(f, m)[s] = {}
    BY DEF Accounted, Consuming
  <2>4. T \cap Later(f, m, x) = {}
    BY <2>2, <2>3 DEF Later
  <2> QED BY <2>1, <2>4
<1> HIDE DEF T
<1>5. Account(w.next, PagesOf(Own(w, f), w.root), ListPage(w.froot), Later(f, m, w), H,
              Freed(w))
  BY DEF Held
<1>6. Account(w.next, PagesOf(Own(w, f), w.root), ListPage(w.froot), Later(f, m, x), H \cup T,
              Freed(w))
  BY <1>3, <1>4, <1>5 DEF Account
<1>7. Account(x.next, PagesOf(Own(x, f), x.root), ListPage(x.froot), Later(f, m, x), H \cup T,
              Freed(x))
  BY <1>1, <1>2, <1>6
<1>8. Private(x, H \cup T) = Private(w, H) \cup T
  BY <1>1 DEF Private
<1>9. /\ Private(w, H) \cap (Used(f, m) \cup Later(f, m, w)) = {}
      /\ Private(w, H) \subseteq FirstPage..(w.next - 1)
  BY DEF Held
<1>10. T \subseteq FirstPage..(w.next - 1)
  BY <1>3, <1>5 DEF Account
<1>11. /\ Private(x, H \cup T) \cap (Used(f, m) \cup Later(f, m, x)) = {}
       /\ Private(x, H \cup T) \subseteq FirstPage..(x.next - 1)
  BY <1>1, <1>3, <1>4, <1>8, <1>9, <1>10
<1>12. Shape(m, x) /\ Tree(Own(x, f), x.root)
  <2>1. DOMAIN x = TxnFields
    BY DEF Changed
  <2> QED BY <1>1, <1>2, <2>1 DEF Held, Shape
<1>13. Held(f, m, x, H \cup T)
  BY <1>7, <1>11, <1>12 DEF Held
<1> QED BY <1>13 DEF T

\* x sees the same pages as w.
Same(f, w, x) ==
    /\ x.id = w.id /\ x.next = w.next /\ x.root = w.root /\ x.froot = w.froot
    /\ x.last = w.last
    /\ DOMAIN x.dirty \cup DOMAIN x.under = DOMAIN w.dirty \cup DOMAIN w.under
    /\ \A pg \in Pages : Own(x, f)[pg] = Own(w, f)[pg]
    /\ Freed(x) = Freed(w)

\* Held depends on the pages that a transaction sees and owns.
LEMMA SameHeld ==
    ASSUME NEW f, NEW m, NEW w, NEW x, NEW H, Accounted(f, m), Held(f, m, w, H),
           Same(f, w, x), Shape(m, x)
    PROVE  Held(f, m, x, H) /\ Tells(f, x) = Tells(f, w)
<1>1. Tree(Own(w, f), w.root) /\ \A pg \in PagesOf(Own(w, f), w.root) : Own(x, f)[pg] = Own(w, f)[pg]
  BY HeldPages DEF Held, Same
<1>2. /\ Tree(Own(x, f), w.root) /\ PagesOf(Own(x, f), w.root) = PagesOf(Own(w, f), w.root)
      /\ Contents(Own(x, f), w.root) = Contents(Own(w, f), w.root)
  BY <1>1, TreeFrame
<1>3. Later(f, m, x) = Later(f, m, w) /\ Private(x, H) = Private(w, H)
  BY DEF Same, Later, Private
<1>4. /\ x.id = w.id /\ x.next = w.next /\ x.root = w.root /\ x.froot = w.froot
      /\ Freed(x) = Freed(w)
  BY DEF Same
<1>5. Held(f, m, x, H)
  BY <1>2, <1>3, <1>4 DEF Held
<1>6. Tells(f, x) = Tells(f, w)
  BY <1>2, <1>4 DEF Tells
<1> QED BY <1>5, <1>6

\* A page of an ancestor is copied under its own number.
LEMMA AdoptHeld ==
    ASSUME NEW f, NEW m, NEW w, NEW x, NEW H, NEW pg, DOMAIN f = Pages, Accounted(f, m),
           Held(f, m, w, H),
           pg \in DOMAIN w.under \ DOMAIN w.dirty, Changed(w, x, {"dirty"}),
           x.dirty = With(w.dirty, pg, w.under[pg])
    PROVE  /\ Held(f, m, x, H) /\ pg \in DOMAIN x.dirty /\ Own(x, f)[pg] = Own(w, f)[pg]
           /\ Tells(f, x) = Tells(f, w)
<1>1. /\ x.under = w.under /\ x.froot = w.froot /\ x.depth = w.depth /\ x.id = w.id
      /\ x.parent = w.parent /\ x.root = w.root /\ x.freed = w.freed /\ x.next = w.next
      /\ x.last = w.last /\ DOMAIN x = TxnFields
  BY DEF Changed, TxnFields
<1>2. pg \in Pages
  BY HeldPages DEF Held, Private
<1>3. Written(f, w, x, pg, w.under[pg])
  <2>1. Writing(f, w, x, pg, w.under[pg])
    BY <1>1, <1>2 DEF Writing
  <2> QED BY <2>1, WritePage
<1>4. Own(w, f)[pg] = w.under[pg]
  BY <1>2, Owned
<1>5. /\ \A q \in Pages : Own(x, f)[q] = Own(w, f)[q]
      /\ DOMAIN x.dirty = DOMAIN w.dirty \cup {pg} /\ Fn(x.dirty)
  BY <1>3, <1>4 DEF Written
<1>6. Same(f, w, x)
  BY <1>1, <1>5 DEF Same, Freed
<1>7. Shape(m, x)
  BY <1>1, <1>5 DEF Held, Shape
<1> QED BY <1>2, <1>5, <1>6, <1>7, SameHeld

-----------------------------------------------------------------------------
(* Nested transactions.                                                    *)

\* What a child is.
Nested(w, x) ==
    /\ Changed(w, x, {"parent", "depth", "stamp", "under", "dirty", "freed"})
    /\ x.parent = w /\ x.depth = w.depth + 1
    /\ x.under = Over(w.dirty, w.under)
    /\ Fn(x.dirty) /\ DOMAIN x.dirty = {} /\ x.freed = {}

\* mdb_txn_begin of a nested transaction: its parent's dirty list lies under its
\* own, which is empty.
LEMMA GotChild ==
    ASSUME NEW w, NEW s, DOMAIN w = TxnFields
    PROVE  Nested(w, Child(w, s))
<1> DEFINE x == Child(w, s)
<1>1. /\ Changed(w, x, {"parent", "depth", "stamp", "under", "dirty", "freed"})
      /\ x.parent = w /\ x.depth = w.depth + 1
      /\ x.under = Over(w.dirty, w.under) /\ x.freed = {}
  BY DEF Child, Changed, TxnFields
<1>2. x.dirty = EmptyMap
  BY DEF Child, TxnFields
<1>3. Fn(x.dirty) /\ DOMAIN x.dirty = {}
  BY <1>2, NoMap
<1> QED BY <1>1, <1>3 DEF Nested

\* The account of a nested transaction that begins is its parent's.
LEMMA ChildHeld ==
    ASSUME NEW f, NEW m, NEW w, NEW x, NEW H, DOMAIN f = Pages, Accounted(f, m),
           Held(f, m, w, H), w.depth = 0, Nested(w, x)
    PROVE  Held(f, m, x, H) /\ Tells(f, x) = Tells(f, w)
<1>1. /\ x.froot = w.froot /\ x.id = w.id /\ x.root = w.root /\ x.next = w.next
      /\ x.last = w.last /\ DOMAIN x = TxnFields /\ x.depth = 1
      /\ x.parent = w /\ x.under = Over(w.dirty, w.under)
      /\ Fn(x.dirty) /\ DOMAIN x.dirty = {} /\ x.freed = {}
  BY DEF Nested, Changed, TxnFields
<1>2. /\ DOMAIN x.under = DOMAIN w.dirty \cup DOMAIN w.under
      /\ \A y \in DOMAIN w.dirty : x.under[y] = w.dirty[y]
      /\ \A y \in DOMAIN w.under \ DOMAIN w.dirty : x.under[y] = w.under[y]
      /\ Fn(x.under)
  BY <1>1 DEF Over, Fn
<1>3. ASSUME NEW q \in Pages
      PROVE  Own(x, f)[q] = Own(w, f)[q]
  BY <1>1, <1>2, Owned
<1>4. Freed(x) = Freed(w)
  BY <1>1 DEF Freed
<1>5. Same(f, w, x)
  BY <1>1, <1>2, <1>3, <1>4 DEF Same
<1>6. Shape(m, x)
  BY <1>1, <1>2 DEF Held, Shape
<1> QED BY <1>5, <1>6, SameHeld

\* A child that is done.
Joined(w, x) ==
    /\ Changed(w, x, {"parent", "depth", "stamp", "under", "dirty", "freed"})
    /\ x.parent = w.parent.parent /\ x.depth = w.depth - 1
    /\ x.under = w.parent.under
    /\ x.dirty = Over(w.dirty, w.parent.dirty) /\ x.freed = w.freed \cup w.parent.freed

\* mdb_txn_commit of a nested transaction: the dirty lists and the freed pages
\* are joined.
LEMMA GotJoined ==
    ASSUME NEW w, DOMAIN w = TxnFields
    PROVE  Joined(w, ChildCommitted(w))
<1> DEFINE x == ChildCommitted(w)
<1>1. Changed(w, x, {"parent", "depth", "stamp", "under", "dirty", "freed"})
  BY DEF ChildCommitted, Changed, TxnFields
<1>2. /\ x.parent = w.parent.parent /\ x.depth = w.depth - 1
      /\ x.under = w.parent.under
  BY DEF ChildCommitted, TxnFields
<1>3. x.dirty = Over(w.dirty, w.parent.dirty) /\ x.freed = w.freed \cup w.parent.freed
  BY DEF ChildCommitted, TxnFields
<1> QED BY <1>1, <1>2, <1>3 DEF Joined

\* The account of the parent, after its nested transaction was committed.
LEMMA JoinedHeld ==
    ASSUME NEW f, NEW m, NEW w, NEW x, NEW H, DOMAIN f = Pages, Accounted(f, m),
           Held(f, m, w, H), w.depth = 1, ParentInv(f, m, w), Joined(w, x)
    PROVE  Held(f, m, x, H) /\ Tells(f, x) = Tells(f, w)
<1>1. /\ x.froot = w.froot /\ x.id = w.id /\ x.root = w.root /\ x.next = w.next
      /\ x.last = w.last /\ DOMAIN x = TxnFields /\ x.depth = 0
      /\ x.under = w.parent.under
      /\ x.dirty = Over(w.dirty, w.parent.dirty) /\ x.freed = w.freed \cup w.parent.freed
  BY DEF Joined, Changed, TxnFields
<1>2. /\ w.under = Over(w.parent.dirty, w.parent.under) /\ DOMAIN w.parent.under = {}
      /\ Fn(w.parent.under)
  BY DEF ParentInv, PageInv, Held, Shape
<1>3. DOMAIN w.under = DOMAIN w.parent.dirty /\ \A y \in DOMAIN w.parent.dirty : w.under[y] = w.parent.dirty[y]
  BY <1>2 DEF Over
<1>4. /\ DOMAIN x.dirty = DOMAIN w.dirty \cup DOMAIN w.under /\ Fn(x.dirty)
      /\ \A y \in DOMAIN w.dirty : x.dirty[y] = w.dirty[y]
      /\ \A y \in DOMAIN w.under \ DOMAIN w.dirty : x.dirty[y] = w.under[y]
      /\ DOMAIN x.under = {}
  BY <1>1, <1>2, <1>3 DEF Over, Fn
<1>5. ASSUME NEW q \in Pages
      PROVE  Own(x, f)[q] = Own(w, f)[q]
  BY <1>4, Owned
<1>6. Freed(x) = Freed(w)
  BY <1>1 DEF Freed
<1>7. Same(f, w, x)
  BY <1>1, <1>4, <1>5, <1>6 DEF Same
<1>8. Shape(m, x)
  BY <1>1, <1>2, <1>4 DEF Held, Shape
<1> QED BY <1>7, <1>8, SameHeld

-----------------------------------------------------------------------------
(* The operations of a transaction.                                        *)

\* What a transaction sees depends on its dirty lists only.
LEMMA OwnKept ==
    ASSUME NEW f, NEW w, NEW x, NEW G, Changed(w, x, G), G \cap {"dirty", "under"} = {}
    PROVE  Own(x, f) = Own(w, f)
<1>1. x.dirty = w.dirty /\ x.under = w.under
  BY DEF Changed, TxnFields
<1> QED BY <1>1 DEF Own

\* What is known of the parent does not depend on the other fields.
LEMMA ParentKept ==
    ASSUME NEW f, NEW m, NEW w, NEW x, NEW G, ParentInv(f, m, w), Changed(w, x, G),
           G \cap {"depth", "parent", "under"} = {}
    PROVE  ParentInv(f, m, x)
<1>1. x.depth = w.depth /\ x.parent = w.parent /\ x.under = w.under
  BY DEF Changed, TxnFields
<1> QED BY <1>1 DEF ParentInv

\* A free list that was not written yet stays so.
LEMMA UnsavedKept ==
    ASSUME NEW m, NEW w, NEW x, NEW G, Unsaved(m, w), Changed(w, x, G),
           G \cap {"froot", "done", "count", "room", "headId"} = {}
    PROVE  Unsaved(m, x)
<1>1. /\ x.froot = w.froot /\ x.done = w.done /\ x.count = w.count /\ x.room = w.room
      /\ x.headId = w.headId
  BY DEF Changed, TxnFields
<1> QED BY <1>1 DEF Unsaved

\* An operation goes on, returns, or fails.
Going(f, m, x) ==
    /\ DOMAIN x = TxnFields
    /\ ParentInv(f, m, x)
    /\ x.pc \in {"ready", "work", "alloc", "scan", "failed"}
    /\ Waiting(x) => ~ForList(x)
    /\ x.pc # "failed" => OpInv(f, m, x)

\* What the root of the main database is to be when the operation goes on.
AtRoot(f, w) ==
    /\ w.root # NoPage /\ w.root \in DOMAIN w.dirty
    /\ w.op # "put" => w.key \in DOMAIN Own(w, f)[w.root].ov

Fields(w, x) ==
    /\ x.id = w.id /\ x.depth = w.depth /\ x.parent = w.parent
    /\ x.stamp = w.stamp /\ x.key = w.key

SameTxn(w, x) == x.id = w.id /\ x.depth = w.depth

\* x sees the tree that w sees, and has consumed the same records.
Stays(f, w, x) == Tells(f, x) = Tells(f, w) /\ x.last = w.last

\* TouchRoot keeps the invariant of an operation: the root is written already,
\* is adopted from the parent, or a page is wanted for its copy.
LEMMA TouchOp ==
    ASSUME NEW f, NEW m, NEW w, NEW x, DOMAIN f = Pages, Accounted(f, m), PageInv(f, m, w),
           Unsaved(m, w), ParentInv(f, m, w), w.pc = "work", x = TouchRoot(w),
           w.op # "put" => w.root # NoPage /\ w.key \in DOMAIN Own(w, f)[w.root].ov
    PROVE  /\ Going(f, m, x) /\ Fields(w, x) /\ x.pc \in {"work", "alloc"}
           /\ Stays(f, w, x) /\ (x.pc = "alloc" => x.at # "value")
<1>0. DOMAIN w = TxnFields
  BY DEF PageInv, Held, Shape
<1>1. CASE w.root = NoPage
  <2>1. /\ Changed(w, x, {"pc", "at"}) /\ x.pc = "alloc" /\ x.at = "new root"
    <3>1. NoPage \notin DOMAIN w.dirty \cup DOMAIN w.under
      BY DEF PageInv, Held, Private, NoPage, FirstPage
    <3>2. x = Want(w, "new root")
      BY <1>1, <3>1 DEF TouchRoot
    <3> QED BY <1>0, <3>2 DEF Want, Changed, TxnFields
  <2>2. PageInv(f, m, x) /\ Unsaved(m, x) /\ ParentInv(f, m, x)
    BY <2>1, PageKept, UnsavedKept, ParentKept DEF HeldFields
  <2>3. /\ x.root = NoPage /\ x.root = w.root /\ x.op = w.op /\ Fields(w, x)
        /\ x.last = w.last
    BY <1>1, <2>1 DEF Changed, TxnFields, Fields
  <2>4. AtInv(f, x)
    BY <1>1, <2>1, <2>3 DEF AtInv
  <2>5. OpInv(f, m, x)
    BY <2>1, <2>2, <2>4 DEF OpInv
  <2>6. Stays(f, w, x)
    BY <2>1, <2>3, OwnKept DEF Stays, Tells
  <2> QED BY <2>1, <2>2, <2>3, <2>5, <2>6 DEF Going, Changed, ForList
<1>2. CASE w.root # NoPage /\ w.root \in DOMAIN w.dirty
  <2>1. x = w
    BY <1>2 DEF TouchRoot, IsDirty
  <2>2. OpInv(f, m, w)
    BY <1>2 DEF OpInv, Waiting
  <2> QED BY <1>0, <2>1, <2>2 DEF Going, Fields, Waiting, Stays
<1>3. CASE w.root # NoPage /\ w.root \in DOMAIN w.under \ DOMAIN w.dirty
  <2>1. x = Adopt(w, w.root)
    BY <1>3 DEF TouchRoot, IsDirty
  <2>2. Changed(w, x, {"dirty"}) /\ x.dirty = With(w.dirty, w.root, w.under[w.root])
    BY <1>0, <2>1 DEF Adopt, Changed, TxnFields
  <2>3. /\ Held(f, m, x, w.head) /\ w.root \in DOMAIN x.dirty
        /\ Own(x, f)[w.root] = Own(w, f)[w.root] /\ Tells(f, x) = Tells(f, w)
    BY <1>3, <2>2, AdoptHeld DEF PageInv
  <2>4. /\ x.root = w.root /\ x.op = w.op /\ x.depth = w.depth /\ x.id = w.id /\ x.pc = w.pc
        /\ x.head = w.head /\ x.hasHead = w.hasHead /\ x.last = w.last /\ x.key = w.key
        /\ Fields(w, x)
    BY <2>2 DEF Changed, TxnFields, Fields
  <2>5. PageInv(f, m, x)
    BY <2>3, <2>4 DEF PageInv, Consumed
  <2>6. Unsaved(m, x) /\ ParentInv(f, m, x)
    BY <2>2, UnsavedKept, ParentKept
  <2>7. OpInv(f, m, x)
    BY <1>3, <2>3, <2>4, <2>5, <2>6 DEF OpInv, Waiting
  <2>8. Stays(f, w, x)
    BY <2>3, <2>4 DEF Stays
  <2> QED BY <2>2, <2>4, <2>6, <2>7, <2>8 DEF Going, Changed, Waiting
<1>4. CASE w.root # NoPage /\ ~IsDirty(w, w.root)
  <2>1. /\ Changed(w, x, {"pc", "at"}) /\ x.pc = "alloc" /\ x.at = "root"
    <3>1. x = Want(w, "root")
      BY <1>4 DEF TouchRoot, IsDirty
    <3> QED BY <1>0, <3>1 DEF Want, Changed, TxnFields
  <2>2. PageInv(f, m, x) /\ Unsaved(m, x) /\ ParentInv(f, m, x)
    BY <2>1, PageKept, UnsavedKept, ParentKept DEF HeldFields
  <2>3. /\ x.root = w.root /\ x.op = w.op /\ x.depth = w.depth /\ x.id = w.id /\ x.key = w.key
        /\ x.dirty = w.dirty /\ x.under = w.under /\ x.last = w.last /\ Fields(w, x)
    BY <2>1 DEF Changed, TxnFields, Fields
  <2>4. Own(x, f) = Own(w, f)
    BY <2>1, OwnKept
  <2>5. AtInv(f, x)
    BY <1>4, <2>1, <2>3, <2>4 DEF AtInv, IsDirty
  <2>6. OpInv(f, m, x)
    BY <2>1, <2>2, <2>5 DEF OpInv
  <2>7. Stays(f, w, x)
    BY <2>3, <2>4 DEF Stays, Tells
  <2> QED BY <2>1, <2>2, <2>3, <2>6, <2>7 DEF Going, Changed, ForList
<1> QED BY <1>1, <1>2, <1>3, <1>4 DEF IsDirty

\* The root is writable, and the key has a value in it.
AtValue(f, w) ==
    /\ w.root # NoPage /\ w.root \in DOMAIN w.dirty
    /\ w.key \in DOMAIN w.dirty[w.root].ov

\* x is w without that value.
ValueFreed(f, m, w, x) ==
    /\ Changed(w, x, {"pc", "at", "dirty", "head", "freed"})
    /\ PageInv(f, m, x) /\ Unsaved(m, x) /\ ParentInv(f, m, x)
    /\ x.root \in DOMAIN x.dirty
    /\ x.dirty[x.root] = Leaf(Without(w.dirty[w.root].ov, w.key))
    /\ x.key \notin DOMAIN Own(x, f)[x.root].ov
    /\ DOMAIN Own(x, f)[x.root].ov = DOMAIN w.dirty[w.root].ov \ {w.key}
    /\ Tells(f, x) = Without(Tells(f, w), w.key)

Unlink(w, y) == [y EXCEPT !.dirty[w.root] = Leaf(Without(w.dirty[w.root].ov, w.key))]

\* A root that is dirty is seen as it is in the dirty list.
LEMMA RootOwn ==
    ASSUME NEW f, NEW m, NEW w, NEW H, DOMAIN f = Pages, Accounted(f, m), Held(f, m, w, H),
           w.root # NoPage, w.root \in DOMAIN w.dirty
    PROVE  /\ w.root \in Pages /\ Own(w, f)[w.root] = w.dirty[w.root]
           /\ Tree(Own(w, f), w.root)
<1>1. Tree(Own(w, f), w.root)
  BY DEF Held
<1>2. w.root \in PagesOf(Own(w, f), w.root)
  BY <1>1, LeafTree
<1>3. w.root \in Pages
  BY <1>2, HeldPages
<1> QED BY <1>1, <1>3, Owned

\* Freeing the page of a value and unlinking it keeps account of every page.
LEMMA FreeValue ==
    ASSUME NEW f, NEW m, NEW w, NEW y, NEW x, DOMAIN f = Pages, Accounted(f, m),
           PageInv(f, m, w), Unsaved(m, w), ParentInv(f, m, w), AtValue(f, w),
           y = OvpageFree(w, w.dirty[w.root].ov[w.key]),
           x.dirty = Unlink(w, y).dirty, Changed(y, x, {"pc", "at", "dirty"})
    PROVE  ValueFreed(f, m, w, x)
<1> DEFINE pg == w.dirty[w.root].ov[w.key]
           leaf == Leaf(Without(w.dirty[w.root].ov, w.key))
<1>0. DOMAIN w = TxnFields /\ Held(f, m, w, w.head) /\ Fn(w.dirty)
  BY DEF PageInv, Held, Shape
<1>1. pg # w.root
  <2>1. Tree(Own(w, f), w.root) /\ Own(w, f)[w.root] = w.dirty[w.root]
    BY <1>0, RootOwn DEF AtValue
  <2> QED BY <2>1 DEF AtValue, Tree
<1>2. leaf.ov = Without(w.dirty[w.root].ov, w.key)
  BY DEF Leaf
<1> HIDE DEF leaf, pg
<1>3. CASE w.hasHead /\ w.depth = 0 /\ IsDirty(w, pg)
  <2>1. /\ Changed(w, y, {"dirty", "head"})
        /\ y.dirty = Without(w.dirty, pg) /\ y.head = w.head \cup {pg}
    BY <1>0, <1>3, FreedOverflow DEF pg
  <2>2. /\ pg \in DOMAIN w.dirty
    BY <1>0, <1>3 DEF IsDirty, Held, Shape
  <2>3. x.dirty = [Without(w.dirty, pg) EXCEPT ![w.root] = leaf]
    BY <2>1 DEF Unlink, leaf, Changed, TxnFields
  <2>4. Changed(w, x, {"pc", "at", "dirty", "head", "freed"}) /\ x.head = w.head \cup {pg}
        /\ x.freed = w.freed
    BY <2>1 DEF Changed, TxnFields
  <2>5. /\ DOMAIN x.dirty = DOMAIN w.dirty \ {pg} /\ x.dirty[w.root] = leaf /\ Fn(x.dirty)
        /\ \A z \in DOMAIN x.dirty \ {w.root} : x.dirty[z] = w.dirty[z]
    BY <1>1, <2>3 DEF Without, Fn, AtValue
  <2>6. Unlinking(w, x, pg)
    BY <1>1, <2>5 DEF Unlinking, AtValue, pg, leaf
  <2>7. Held(f, m, x, w.head \cup {pg}) /\ UnlinkedTree(f, w, x)
    BY <1>0, <2>2, <2>4, <2>6, UnlinkHeld DEF AtValue
  <2>8. x.hasHead = w.hasHead /\ x.last = w.last /\ x.root = w.root /\ x.key = w.key
    BY <2>4 DEF Changed, TxnFields
  <2>9. PageInv(f, m, x)
    BY <1>3, <2>4, <2>7, <2>8 DEF PageInv, Consumed
  <2>10. Unsaved(m, x) /\ ParentInv(f, m, x)
    BY <2>4, UnsavedKept, ParentKept
  <2>11. x.key \notin DOMAIN Own(x, f)[x.root].ov /\ Own(x, f)[x.root] = leaf
    BY <2>5, <2>7, <2>8 DEF UnlinkedTree
  <2>12. DOMAIN Own(x, f)[x.root].ov = DOMAIN w.dirty[w.root].ov \ {w.key}
    BY <1>2, <2>11 DEF Without
  <2>13. w.root \in DOMAIN x.dirty
    BY <1>1, <2>5 DEF AtValue
  <2>14. Tells(f, x) = Without(Tells(f, w), w.key)
    BY <2>7, <2>8 DEF UnlinkedTree, Tells
  <2> QED BY <2>4, <2>5, <2>8, <2>9, <2>10, <2>11, <2>12, <2>13, <2>14 DEF ValueFreed, leaf
<1>4. CASE ~ (w.hasHead /\ w.depth = 0 /\ IsDirty(w, pg))
  <2>1. /\ Changed(w, y, {"freed"}) /\ y.freed = w.freed \cup {pg}
    BY <1>0, <1>4, FreedOverflow DEF pg
  <2>3. x.dirty = [w.dirty EXCEPT ![w.root] = leaf]
    BY <2>1 DEF Unlink, leaf, Changed, TxnFields
  <2>4. Changed(w, x, {"pc", "at", "dirty", "head", "freed"}) /\ x.head = w.head
        /\ x.freed = w.freed \cup {pg}
    BY <2>1 DEF Changed, TxnFields
  <2>5. /\ DOMAIN x.dirty = DOMAIN w.dirty /\ x.dirty[w.root] = leaf /\ Fn(x.dirty)
        /\ \A z \in DOMAIN x.dirty \ {w.root} : x.dirty[z] = w.dirty[z]
    BY <2>3 DEF Fn, AtValue
  <2>6. Unlinking(w, x, pg)
    BY <1>1, <2>5 DEF Unlinking, AtValue, pg, leaf
  <2>7. Held(f, m, x, w.head) /\ UnlinkedTree(f, w, x)
    BY <1>0, <2>4, <2>6, UnlinkHeld DEF AtValue
  <2>8. x.hasHead = w.hasHead /\ x.last = w.last /\ x.root = w.root /\ x.key = w.key
    BY <2>4 DEF Changed, TxnFields
  <2>9. PageInv(f, m, x)
    BY <2>4, <2>7, <2>8 DEF PageInv, Consumed
  <2>10. Unsaved(m, x) /\ ParentInv(f, m, x)
    BY <2>4, UnsavedKept, ParentKept
  <2>11. x.key \notin DOMAIN Own(x, f)[x.root].ov /\ Own(x, f)[x.root] = leaf
    BY <2>5, <2>7, <2>8 DEF UnlinkedTree
  <2>12. DOMAIN Own(x, f)[x.root].ov = DOMAIN w.dirty[w.root].ov \ {w.key}
    BY <1>2, <2>11 DEF Without
  <2>13. w.root \in DOMAIN x.dirty
    BY <2>5 DEF AtValue
  <2>14. Tells(f, x) = Without(Tells(f, w), w.key)
    BY <2>7, <2>8 DEF UnlinkedTree, Tells
  <2> QED BY <2>4, <2>5, <2>8, <2>9, <2>10, <2>11, <2>12, <2>13, <2>14 DEF ValueFreed, leaf
<1> QED BY <1>3, <1>4

\* What a value that is put, or waits for its page, makes of the tree.
Puts(f, w, x) ==
    /\ x.last = w.last
    /\ x.pc = "ready" => Tells(f, x) = With(Tells(f, w), w.key, w.stamp)
    /\ x.pc = "alloc" => x.at = "value" /\ Tells(f, x) = Without(Tells(f, w), w.key)

\* A function is the same without what it does not have.
LEMMA WithoutNone ==
    ASSUME NEW f, NEW x, Fn(f), x \notin DOMAIN f
    PROVE  Without(f, x) = f
<1>1. /\ Fn(Without(f, x)) /\ DOMAIN Without(f, x) = DOMAIN f
      /\ \A y \in DOMAIN f : Without(f, x)[y] = f[y]
  BY DEF Without, Fn
<1> QED BY <1>1, SameFn

\* PutValue keeps the invariant of an operation.
LEMMA PutOp ==
    ASSUME NEW f, NEW m, NEW w, NEW x, DOMAIN f = Pages, Accounted(f, m), OpInv(f, m, w),
           ParentInv(f, m, w), w.pc = "work", x = PutValue(w)
    PROVE  /\ Going(f, m, x) /\ Fields(w, x) /\ x.pc \in {"ready", "alloc"}
           /\ Puts(f, w, x)
<1> DEFINE ov == w.dirty[w.root].ov
           pg == ov[w.key]
<1>0. /\ DOMAIN w = TxnFields /\ PageInv(f, m, w) /\ Unsaved(m, w)
      /\ w.root # NoPage /\ w.root \in DOMAIN w.dirty /\ Held(f, m, w, w.head)
  BY DEF OpInv, PageInv, Held, Shape
<1>1. Own(w, f)[w.root] = w.dirty[w.root] /\ Tree(Own(w, f), w.root)
  BY <1>0, RootOwn
<1>2. CASE w.key \notin DOMAIN ov
  <2>1. /\ Changed(w, x, {"pc", "at"}) /\ x.pc = "alloc" /\ x.at = "value"
    <3>1. x = Want(w, "value")
      BY <1>2 DEF PutValue
    <3> QED BY <1>0, <3>1 DEF Want, Changed, TxnFields
  <2>2. PageInv(f, m, x) /\ Unsaved(m, x) /\ ParentInv(f, m, x)
    BY <1>0, <2>1, PageKept, UnsavedKept, ParentKept DEF HeldFields
  <2>3. /\ x.root = w.root /\ x.op = w.op /\ x.depth = w.depth /\ x.id = w.id /\ x.key = w.key
        /\ x.dirty = w.dirty /\ x.last = w.last /\ Fields(w, x)
    BY <2>1 DEF Changed, TxnFields, Fields
  <2>4. Own(x, f) = Own(w, f)
    BY <2>1, OwnKept
  <2>5. AtInv(f, x)
    BY <1>0, <1>1, <1>2, <2>1, <2>3, <2>4 DEF AtInv
  <2>6. OpInv(f, m, x)
    BY <2>1, <2>2, <2>5 DEF OpInv
  <2>7. Puts(f, w, x)
    <3>1. Tells(f, x) = Tells(f, w)
      BY <2>3, <2>4 DEF Tells
    <3>2. Fn(Tells(f, w)) /\ DOMAIN Tells(f, w) = DOMAIN ov
      BY <1>0, <1>1, TreeContents DEF Tells
    <3>3. Without(Tells(f, w), w.key) = Tells(f, w)
      <4> HIDE DEF ov
      <4> QED BY <1>2, <3>2, WithoutNone
    <3> QED BY <2>1, <2>3, <3>1, <3>3 DEF Puts
  <2> QED BY <2>1, <2>2, <2>3, <2>6, <2>7 DEF Going, Changed, ForList
<1>3. CASE w.key \in DOMAIN ov /\ IsDirty(w, pg)
  <2>1. /\ Changed(w, x, {"pc", "dirty"}) /\ x.pc = "ready"
        /\ x.dirty = With(w.dirty, pg, Value(w.stamp))
    <3>1. x = [w EXCEPT !.dirty = With(@, ov[w.key], Value(w.stamp)), !.pc = "ready"]
      BY <1>3 DEF PutValue
    <3> HIDE DEF ov
    <3> QED BY <1>0, <3>1 DEF Changed, TxnFields
  <2>2. Held(f, m, x, w.head) /\ Tells(f, x) = With(Tells(f, w), w.key, w.stamp)
    BY <1>0, <1>3, <2>1, OverwriteHeld
  <2>3. /\ x.depth = w.depth /\ x.id = w.id /\ x.head = w.head /\ x.hasHead = w.hasHead
        /\ x.last = w.last /\ Fields(w, x)
    BY <2>1 DEF Changed, TxnFields, Fields
  <2>4. PageInv(f, m, x)
    BY <1>0, <2>2, <2>3 DEF PageInv, Consumed
  <2>5. Unsaved(m, x) /\ ParentInv(f, m, x)
    BY <1>0, <2>1, UnsavedKept, ParentKept
  <2>6. Puts(f, w, x)
    BY <2>1, <2>2, <2>3 DEF Puts
  <2> QED BY <2>1, <2>3, <2>4, <2>5, <2>6 DEF Going, Changed, OpInv, Waiting
<1>4. CASE w.key \in DOMAIN ov /\ ~IsDirty(w, pg)
  <2> DEFINE y == OvpageFree(w, pg)
  <2>1. x = Want(Unlink(w, y), "value")
    BY <1>4 DEF PutValue, Unlink
  <2>2. DOMAIN y = TxnFields
    BY <1>0 DEF OvpageFree, TxnFields
  <2> HIDE DEF ov, pg
  <2>3. ValueFreed(f, m, w, x)
    <3>1. x.dirty = Unlink(w, y).dirty /\ Changed(y, x, {"pc", "at", "dirty"})
      <4> HIDE DEF y
      <4> QED BY <2>1, <2>2 DEF Unlink, Want, Changed, TxnFields
    <3>2. y = OvpageFree(w, w.dirty[w.root].ov[w.key])
      BY DEF pg, ov
    <3>3. AtValue(f, w)
      BY <1>0, <1>4 DEF AtValue, ov
    <3> HIDE DEF y
    <3> QED BY <1>0, <3>1, <3>2, <3>3, FreeValue
  <2>4. x.pc = "alloc" /\ x.at = "value"
    <3> HIDE DEF y
    <3> QED BY <2>1, <2>2 DEF Unlink, Want, TxnFields
  <2>5. x.root = w.root /\ x.last = w.last /\ Fields(w, x)
    BY <2>3 DEF ValueFreed, Changed, TxnFields, Fields
  <2>6. AtInv(f, x)
    BY <1>0, <2>3, <2>4, <2>5 DEF AtInv, ValueFreed
  <2>7. OpInv(f, m, x)
    BY <2>3, <2>4, <2>6 DEF OpInv, ValueFreed
  <2>8. ParentInv(f, m, x) /\ DOMAIN x = TxnFields
    BY <2>3 DEF ValueFreed, Changed
  <2>9. Puts(f, w, x)
    BY <2>3, <2>4, <2>5 DEF Puts, ValueFreed
  <2> QED BY <2>4, <2>5, <2>7, <2>8, <2>9 DEF Going, ForList
<1> QED BY <1>2, <1>3, <1>4

Dropped(z, x, root) ==
    Changed(z, x, {"root", "freed"}) /\ x.root = NoPage /\ x.freed = z.freed \cup {root}

\* What dropping the root of an empty tree changes.
LEMMA DropFields ==
    ASSUME NEW z, NEW root, DOMAIN z = TxnFields
    PROVE  Dropped(z, [z EXCEPT !.root = NoPage, !.freed = @ \cup {root}], root)
BY DEF Dropped, Changed, TxnFields

\* DelValue keeps the invariant of an operation.
LEMMA DelOp ==
    ASSUME NEW f, NEW m, NEW w, NEW x, DOMAIN f = Pages, Accounted(f, m), OpInv(f, m, w),
           ParentInv(f, m, w), w.pc = "work", w.op # "put", x = DelValue(w)
    PROVE  /\ Going(f, m, x) /\ Fields(w, x) /\ x.pc = "ready"
           /\ x.last = w.last /\ Tells(f, x) = Without(Tells(f, w), w.key)
<1> DEFINE ov == w.dirty[w.root].ov
           y == OvpageFree(w, ov[w.key])
           z == [y EXCEPT !.dirty[w.root] = Leaf(Without(ov, w.key)), !.pc = "ready"]
<1>0. /\ DOMAIN w = TxnFields /\ PageInv(f, m, w) /\ Unsaved(m, w)
      /\ w.root # NoPage /\ w.root \in DOMAIN w.dirty /\ Held(f, m, w, w.head)
      /\ w.key \in DOMAIN Own(w, f)[w.root].ov
  BY DEF OpInv, PageInv, Held, Shape
<1>1. Own(w, f)[w.root] = w.dirty[w.root] /\ Tree(Own(w, f), w.root)
  BY <1>0, RootOwn
<1>2. DOMAIN y = TxnFields
  BY <1>0 DEF OvpageFree, TxnFields
<1>3. AtValue(f, w)
  BY <1>0, <1>1 DEF AtValue
<1>4. z.dirty = Unlink(w, y).dirty /\ Changed(y, z, {"pc", "at", "dirty"}) /\ z.pc = "ready"
  <2> HIDE DEF y
  <2> QED BY <1>2 DEF Unlink, Changed, TxnFields
<1>5. x = IF Without(ov, w.key) # EmptyMap THEN z
          ELSE [z EXCEPT !.root = NoPage, !.freed = @ \cup {w.root}]
  BY DEF DelValue
<1>6. y = OvpageFree(w, w.dirty[w.root].ov[w.key])
  OBVIOUS
<1> HIDE DEF y, z, ov
<1>7. ValueFreed(f, m, w, z)
  BY <1>0, <1>3, <1>4, <1>6, FreeValue
<1>8. /\ z.root = w.root /\ z.last = w.last /\ Fields(w, z) /\ DOMAIN z = TxnFields
      /\ PageInv(f, m, z) /\ Unsaved(m, z) /\ ParentInv(f, m, z)
      /\ Tells(f, z) = Without(Tells(f, w), w.key)
  BY <1>7 DEF ValueFreed, Changed, TxnFields, Fields
<1>9. CASE x = z
  BY <1>4, <1>8, <1>9 DEF Going, OpInv, Waiting
<1>10. CASE /\ Without(ov, w.key) = EmptyMap
            /\ x = [z EXCEPT !.root = NoPage, !.freed = @ \cup {w.root}]
  <2>1. DOMAIN Own(z, f)[z.root].ov = {}
    <3>1. DOMAIN Without(ov, w.key) = {}
      BY <1>10, NoMap
    <3>2. DOMAIN Own(z, f)[z.root].ov = DOMAIN ov \ {w.key}
      BY <1>7 DEF ValueFreed, ov
    <3> QED BY <3>1, <3>2 DEF Without
  <2>2. Changed(z, x, {"root", "freed"}) /\ x.root = NoPage /\ x.freed = z.freed \cup {z.root}
    <3>1. x = [z EXCEPT !.root = NoPage, !.freed = @ \cup {w.root}]
      BY <1>10
    <3>2. z.root = w.root /\ DOMAIN z = TxnFields
      BY <1>8
    <3>3. Dropped(z, [z EXCEPT !.root = NoPage, !.freed = @ \cup {w.root}], w.root)
      BY <3>2, DropFields
    <3> QED BY <3>1, <3>2, <3>3 DEF Dropped
  <2>3. Held(f, m, x, z.head)
    BY <1>0, <1>8, <2>1, <2>2, DropHeld DEF PageInv
  <2>4. x.head = z.head /\ x.hasHead = z.hasHead /\ x.last = z.last /\ x.pc = z.pc
        /\ Fields(z, x)
    BY <2>2 DEF Changed, TxnFields, Fields
  <2>5. PageInv(f, m, x)
    BY <1>8, <2>3, <2>4 DEF PageInv, Consumed
  <2>6. Unsaved(m, x) /\ ParentInv(f, m, x)
    BY <1>8, <2>2, UnsavedKept, ParentKept
  <2>7. Fields(w, x) /\ x.last = w.last
    BY <1>8, <2>4 DEF Fields
  <2>8. Tells(f, x) = Without(Tells(f, w), w.key)
    <3>1. Tells(f, x) = EmptyMap
      BY <2>2 DEF Tells, Contents
    <3>2. Fn(Tells(f, z)) /\ DOMAIN Tells(f, z) = DOMAIN Own(z, f)[z.root].ov
      <4>1. Tree(Own(z, f), z.root) /\ z.root # NoPage
        BY <1>0, <1>8 DEF PageInv, Held
      <4> QED BY <4>1, TreeContents DEF Tells
    <3>3. Tells(f, z) = EmptyMap
      BY <2>1, <3>2, NoMap
    <3> QED BY <1>8, <3>1, <3>3
  <2> QED BY <1>4, <1>8, <2>2, <2>4, <2>5, <2>6, <2>7, <2>8 DEF Going, OpInv, Waiting, Changed
<1> QED BY <1>5, <1>9, <1>10

-----------------------------------------------------------------------------
(* Getting a page.                                                         *)

\* What a page is wanted for does not depend on the other fields.
LEMMA AtKept ==
    ASSUME NEW f, NEW w, NEW x, NEW G, AtInv(f, w), Changed(w, x, G),
           G \cap {"at", "root", "op", "key", "dirty", "under"} = {}
    PROVE  AtInv(f, x)
<1>1. /\ x.at = w.at /\ x.root = w.root /\ x.op = w.op /\ x.key = w.key /\ x.dirty = w.dirty
      /\ x.under = w.under
  BY DEF Changed, TxnFields
<1>2. Own(x, f) = Own(w, f)
  BY <1>1 DEF Own
<1> QED BY <1>1, <1>2 DEF AtInv, IsDirty

\* The page is used for the operation.
Used4Op(f, w, x) ==
    /\ Changed(w, x, {"pc", "found", "dirty", "root", "freed"})
    /\ x.pc \in {"work", "ready"}
    /\ x.pc = "work" => AtRoot(f, x) /\ w.at # "value" /\ Tells(f, x) = Tells(f, w)
    /\ x.pc = "ready" => w.at = "value" /\ Tells(f, x) = With(Tells(f, w), w.key, w.stamp)

\* An operation that receives a page at hand uses it for what it asked.
LEMMA ReceiveOp ==
    ASSUME NEW f, NEW m, NEW w, NEW x, NEW H, NEW pg \in H, DOMAIN f = Pages,
           Accounted(f, m), Held(f, m, w, H), AtInv(f, w), x = Receive(w, f, pg)
    PROVE  Held(f, m, x, H \ {pg}) /\ Used4Op(f, w, x)
<1>0. DOMAIN w = TxnFields
  BY DEF Held, Shape
<1>1. CASE w.at = "new root"
  <2>1. NewRoot(w, x, pg)
    BY <1>0, <1>1, GotNewRoot
  <2>2. w.root = NoPage /\ w.op = "put"
    BY <1>1 DEF AtInv
  <2>3. /\ Held(f, m, x, H \ {pg}) /\ x.root # NoPage /\ x.root \in DOMAIN x.dirty
        /\ Tells(f, x) = Tells(f, w)
    BY <2>1, <2>2, NewRootHeld
  <2>4. /\ Changed(w, x, {"pc", "found", "dirty", "root", "freed"}) /\ x.pc = "work"
        /\ x.op = w.op
    BY <2>1 DEF NewRoot, Changed, TxnFields
  <2> QED BY <1>1, <2>2, <2>3, <2>4 DEF Used4Op, AtRoot
<1>2. CASE w.at = "root"
  <2>1. RootCopy(f, w, x, pg)
    BY <1>0, <1>2, GotRoot
  <2>2. w.root # NoPage /\ w.op # "put" => w.key \in DOMAIN Own(w, f)[w.root].ov
    BY <1>2 DEF AtInv
  <2>3. /\ Held(f, m, x, H \ {pg}) /\ x.root # NoPage /\ x.root \in DOMAIN x.dirty
        /\ Own(x, f)[x.root] = Own(w, f)[w.root] /\ Tells(f, x) = Tells(f, w)
    <3>1. w.root # NoPage
      BY <1>2 DEF AtInv
    <3>2. Held(f, m, x, H \ {pg}) /\ RootMoved(f, w, x)
      BY <2>1, <3>1, RootHeld
    <3> QED BY <3>2 DEF RootMoved
  <2>4. /\ Changed(w, x, {"pc", "found", "dirty", "root", "freed"}) /\ x.pc = "work"
        /\ x.op = w.op /\ x.key = w.key
    BY <2>1 DEF RootCopy, Changed, TxnFields
  <2>5. w.root # NoPage
    BY <1>2 DEF AtInv
  <2> QED BY <1>2, <2>2, <2>3, <2>4, <2>5 DEF Used4Op, AtRoot
<1>3. CASE w.at = "value"
  <2>1. NewValue(w, x, pg)
    BY <1>0, <1>3, GotValue
  <2>2. /\ w.root # NoPage /\ w.root \in DOMAIN w.dirty
        /\ w.key \notin DOMAIN Own(w, f)[w.root].ov
    BY <1>3 DEF AtInv
  <2>3. Held(f, m, x, H \ {pg}) /\ Tells(f, x) = With(Tells(f, w), w.key, w.stamp)
    BY <2>1, <2>2, ValueHeld
  <2>4. Changed(w, x, {"pc", "found", "dirty", "root", "freed"}) /\ x.pc = "ready"
    BY <2>1 DEF NewValue, Changed, TxnFields
  <2> QED BY <1>3, <2>3, <2>4 DEF Used4Op
<1> QED BY <1>1, <1>2, <1>3 DEF AtInv

\* The free list that has not been written is the one of m.
LEMMA UnsavedRecords ==
    ASSUME NEW f, NEW m, NEW w, NEW H, DOMAIN f = Pages, Accounted(f, m), Held(f, m, w, H),
           w.froot = m.froot
    PROVE  /\ Records(Own(w, f), w.froot) = Listed(f, m)
           /\ FreeList(Own(w, f), w.froot, m.id)
<1>1. ASSUME NEW pg \in ListPage(m.froot)
      PROVE  Own(w, f)[pg] = f[pg]
  <2>1. pg \in Used(f, m) /\ pg \in Pages
    BY UsedPages DEF Used
  <2>2. pg \notin DOMAIN w.dirty /\ pg \notin DOMAIN w.under
    BY <2>1 DEF Held, Private
  <2> QED BY <2>1, <2>2, Owned
<1>2. FreeList(f, m.froot, m.id)
  BY DEF Accounted
<1> QED BY <1>1, <1>2, ListFrame DEF Listed

\* A record of the free list bears the number of a past commit.
LEMMA ListedIds ==
    ASSUME NEW f, NEW m, Accounted(f, m), m.id \in Nat
    PROVE  \A r \in DOMAIN Listed(f, m) : r \in Nat /\ r >= 1 /\ r <= m.id
<1>1. CASE m.froot = NoPage \/ f[m.froot].kind # "freedb"
  <2>1. Listed(f, m) = EmptyMap
    BY <1>1 DEF Listed, Records
  <2> QED BY <2>1, NoMap
<1>2. CASE m.froot # NoPage /\ f[m.froot].kind = "freedb"
  <2>1. Listed(f, m) = f[m.froot].rec
    BY <1>2 DEF Listed, Records
  <2>2. DOMAIN f[m.froot].rec \subseteq 1..m.id
    BY <1>2 DEF Accounted, FreeList
  <2> QED BY <2>1, <2>2
<1> QED BY <1>1, <1>2

\* A record of the free list is consumed.
NextOne(f, m, w, r) ==
    /\ r \in DOMAIN Listed(f, m) /\ r > w.last
    /\ \A s \in DOMAIN Listed(f, m) : s > w.last => r <= s

ConsumedOne(f, m, w, x, r) ==
    /\ Changed(w, x, {"hasHead", "head", "last"})
    /\ x.hasHead
    /\ x.last = r
    /\ x.head = w.head \cup Listed(f, m)[r]

\* What consuming a record changes.
LEMMA ConsumeFields ==
    ASSUME NEW f, NEW w, NEW r, DOMAIN w = TxnFields
    PROVE  LET x == Consume(w, f, r) IN
           /\ Changed(w, x, {"hasHead", "head", "last"})
           /\ x.hasHead /\ x.last = r
           /\ x.head = w.head \cup Records(Own(w, f), w.froot)[r]
<1> DEFINE x == Consume(w, f, r)
<1>1. Changed(w, x, {"hasHead", "head", "last"})
  BY DEF Consume, Changed, TxnFields
<1>2. x.hasHead = TRUE
  BY DEF Consume, TxnFields
<1>3. x.last = r /\ x.head = w.head \cup Records(Own(w, f), w.froot)[r]
  BY DEF Consume, TxnFields
<1> HIDE DEF x
<1>4. x.hasHead
  BY <1>2
<1> QED BY <1>1, <1>3, <1>4 DEF x

\* The number of the last record consumed is a natural number.
LEMMA LastOf ==
    ASSUME NEW f, NEW m, NEW w, Consumed(f, m, w), Accounted(f, m), m.id \in Nat
    PROVE  w.last \in Nat
BY ListedIds DEF Consumed

\* Consuming the next record of the free list keeps PageInv.
LEMMA ConsumeOne ==
    ASSUME NEW f, NEW m, NEW w, NEW x, NEW r, DOMAIN f = Pages, Accounted(f, m),
           m.id \in Nat, PageInv(f, m, w), NextOne(f, m, w, r), r < m.id,
           ConsumedOne(f, m, w, x, r)
    PROVE  PageInv(f, m, x)
<1>1. w.last \in Nat
  BY LastOf DEF PageInv
<1>2. Consuming(f, m, w, x, r)
  BY <1>1, ListedIds DEF Consuming, NextOne, ConsumedOne
<1>3. Changed(w, x, {"hasHead", "head", "last"})
  BY DEF ConsumedOne
<1>4. Held(f, m, x, w.head \cup Listed(f, m)[r])
  BY <1>2, <1>3, ConsumeHeld DEF PageInv
<1>5. Consumed(f, m, x)
  BY DEF Consumed, ConsumedOne, NextOne
<1>6. x.head = w.head \cup Listed(f, m)[r]
  BY DEF ConsumedOne
<1> QED BY <1>4, <1>5, <1>6 DEF PageInv

\* Which page is taken, from w, so that y asks for its use.
Taken(f, m, w, y, H, pg) ==
    /\ pg \in H
    /\ Held(f, m, y, H)
    /\ H \ {pg} = y.head
    /\ Changed(w, y, {"head", "next"})
    /\ Consumed(f, m, y)

\* Taking the least of the pages at hand.
LEMMA TakeHead ==
    ASSUME NEW f, NEW m, NEW w, DOMAIN f = Pages, Accounted(f, m), PageInv(f, m, w),
           w.head # {}
    PROVE  Taken(f, m, w, [w EXCEPT !.head = @ \ {Min(w.head)}], w.head, Min(w.head))
<1> DEFINE y == [w EXCEPT !.head = @ \ {Min(w.head)}]
<1>1. w.head \subseteq Nat
  <2>1. \A pg \in w.head : pg \in Pages
    BY HeldPages DEF PageInv
  <2>2. \A pg \in Pages : pg \in Nat
    BY LmdbAssumption DEF Pages, FirstPage
  <2> QED BY <2>1, <2>2
<1>2. Min(w.head) \in w.head
  BY <1>1, LeastOf
<1>3. DOMAIN w = TxnFields
  BY DEF PageInv, Held, Shape
<1>4. Changed(w, y, {"head"}) /\ y.head = w.head \ {Min(w.head)}
  BY <1>3 DEF Changed, TxnFields
<1> HIDE DEF y
<1>5. Held(f, m, y, w.head)
  BY <1>4, HeldKept DEF PageInv, HeldFields
<1>6. y.hasHead = w.hasHead /\ y.last = w.last
  BY <1>4 DEF Changed, TxnFields
<1>7. Consumed(f, m, y)
  BY <1>2, <1>6 DEF PageInv, Consumed
<1>8. Changed(w, y, {"head", "next"})
  BY <1>4 DEF Changed, TxnFields
<1>9. Taken(f, m, w, y, w.head, Min(w.head))
  BY <1>2, <1>4, <1>5, <1>7, <1>8 DEF Taken
<1> QED BY <1>9 DEF y

\* Taking the page after the last one used.
LEMMA TakeMap ==
    ASSUME NEW f, NEW m, NEW w, DOMAIN f = Pages, Accounted(f, m), PageInv(f, m, w),
           w.next + 1 < MaxPg
    PROVE  Taken(f, m, w, [w EXCEPT !.next = @ + 1], w.head \cup {w.next}, w.next)
<1> DEFINE y == [w EXCEPT !.next = @ + 1]
<1>1. DOMAIN w = TxnFields
  BY DEF PageInv, Held, Shape
<1>2. Changed(w, y, {"next"}) /\ y.next = w.next + 1
  BY <1>1 DEF Changed, TxnFields
<1> HIDE DEF y
<1>3. Held(f, m, y, w.head \cup {w.next})
  BY <1>2, MapHeld DEF PageInv
<1>4. y.hasHead = w.hasHead /\ y.last = w.last /\ y.head = w.head
  BY <1>2 DEF Changed, TxnFields
<1>5. Consumed(f, m, y)
  BY <1>4 DEF PageInv, Consumed
<1>6. Changed(w, y, {"head", "next"})
  BY <1>2 DEF Changed, TxnFields
<1>7. w.next \notin w.head
  <2>1. \A pg \in w.head : pg \in FirstPage..(w.next - 1)
    BY AtHand DEF PageInv
  <2>2. w.next \in Int
    BY HeldPages DEF PageInv
  <2> QED BY <2>1, <2>2
<1>8. Taken(f, m, w, y, w.head \cup {w.next}, w.next)
  BY <1>3, <1>4, <1>5, <1>6, <1>7 DEF Taken
<1> QED BY <1>8 DEF y

\* What mdb_page_alloc does.
Fails(w, x) == Changed(w, x, {"pc"}) /\ x.pc = "failed"

Looks(m, w, x, n) ==
    /\ Changed(w, x, {"pc", "slot", "oldest"})
    /\ x.pc = "scan" /\ x.slot = n /\ x.oldest = m.id

Consumes(f, m, w, x, oldest) ==
    \E r : NextOne(f, m, w, r) /\ r < m.id /\ r < oldest /\ ConsumedOne(f, m, w, x, r)

Takes(f, m, w, x) ==
    \E y, H, pg : Taken(f, m, w, y, H, pg) /\ x = Receive(y, f, pg)

\* The free list as the transaction sees it from the record after the last
\* one it consumed.
SameRest(f, m, w) ==
    LET rec == Records(Own(w, f), w.froot)
    IN  /\ \A r \in DOMAIN rec : r > w.last /\ r < m.id => r \in DOMAIN Listed(f, m)
        /\ \A r \in DOMAIN Listed(f, m) : r > w.last => r \in DOMAIN rec /\ rec[r] = Listed(f, m)[r]
        /\ DOMAIN rec \subseteq Nat

\* mdb_page_alloc, one step: it fails, looks at the readers, consumes a record or
\* takes a page.
LEMMA AllocStep1 ==
    ASSUME NEW f, NEW m, NEW w, NEW x, NEW oldest, NEW n, DOMAIN f = Pages,
           Accounted(f, m), m.id \in Nat, PageInv(f, m, w), SameRest(f, m, w),
           oldest \in 0..m.id, x = Alloc(w, f, oldest, MaxPg, n)
    PROVE  \/ Fails(w, x) \/ Looks(m, w, x, n) \/ Consumes(f, m, w, x, oldest)
           \/ Takes(f, m, w, x)
<1>0. DOMAIN w = TxnFields /\ w.id = m.id + 1 /\ w.next \in Int /\ MaxPg \in Nat
  BY HeldPages, LmdbAssumption DEF PageInv, Held, Shape
<1>1. ASSUME x = FromMap(w, f, MaxPg)
      PROVE  Fails(w, x) \/ Takes(f, m, w, x)
  <2>1. CASE w.next + 1 >= MaxPg
    <3>1. x = [w EXCEPT !.pc = "failed"]
      BY <1>1, <2>1 DEF FromMap
    <3> QED BY <1>0, <3>1 DEF Fails, Changed, TxnFields
  <2>2. CASE ~ (w.next + 1 >= MaxPg)
    <3>1. x = Receive([w EXCEPT !.next = @ + 1], f, w.next)
      BY <1>1, <2>2 DEF FromMap
    <3>2. w.next + 1 < MaxPg
      BY <1>0, <2>2
    <3>3. Taken(f, m, w, [w EXCEPT !.next = @ + 1], w.head \cup {w.next}, w.next)
      BY <3>2, TakeMap
    <3> QED BY <3>1, <3>3 DEF Takes
  <2> QED BY <2>1, <2>2
<1>2. ASSUME x = LookAgain(w, f, MaxPg, n)
      PROVE  Fails(w, x) \/ Looks(m, w, x, n) \/ Takes(f, m, w, x)
  <2>1. CASE w.found
    BY <1>1, <1>2, <2>1 DEF LookAgain
  <2>2. CASE ~w.found
    <3>1. x = [w EXCEPT !.pc = "scan", !.slot = n, !.oldest = w.id - 1]
      BY <1>2, <2>2 DEF LookAgain
    <3>2. /\ Changed(w, x, {"pc", "slot", "oldest"})
          /\ x.pc = "scan" /\ x.slot = n /\ x.oldest = w.id - 1
      BY <1>0, <3>1 DEF Changed, TxnFields
    <3>3. w.id - 1 = m.id
      BY <1>0
    <3> QED BY <3>2, <3>3 DEF Looks
  <2> QED BY <2>1, <2>2
<1>3. CASE w.head # {}
  <2>1. x = Receive([w EXCEPT !.head = @ \ {Min(w.head)}], f, Min(w.head))
    BY <1>3 DEF Alloc, FromHead
  <2>2. Taken(f, m, w, [w EXCEPT !.head = @ \ {Min(w.head)}], w.head, Min(w.head))
    BY <1>3, TakeHead
  <2> QED BY <2>1, <2>2 DEF Takes
<1> DEFINE r == NextRecord(w, f)
           rec == Records(Own(w, f), w.froot)
<1>4. CASE w.head = {}
  <2>1. CASE TooRecent(oldest, w.last + 1)
    <3>1. x = LookAgain(w, f, MaxPg, n)
      BY <1>4, <2>1 DEF Alloc
    <3> QED BY <1>2, <3>1
  <2>2. CASE ~TooRecent(oldest, w.last + 1) /\ r = 0
    <3>1. x = FromMap(w, f, MaxPg)
      BY <1>4, <2>2 DEF Alloc
    <3> QED BY <1>1, <3>1
  <2>3. CASE ~TooRecent(oldest, w.last + 1) /\ r # 0 /\ TooRecent(oldest, r)
    <3>1. x = LookAgain(w, f, MaxPg, n)
      BY <1>4, <2>3 DEF Alloc
    <3> QED BY <1>2, <3>1
  <2>4. CASE ~TooRecent(oldest, w.last + 1) /\ r # 0 /\ ~TooRecent(oldest, r)
    <3>1. x = Consume(w, f, r)
      BY <1>4, <2>4 DEF Alloc
    <3>2. w.last \in Nat
      BY LastOf DEF PageInv
    <3> DEFINE left == {s \in DOMAIN rec : s > w.last}
    <3>3. left # {} /\ r = Min(left)
      BY <2>4 DEF NextRecord
    <3>4. left \subseteq Nat
      BY DEF SameRest
    <3>5. r \in left /\ \A s \in left : r <= s
      BY <3>3, <3>4, LeastOf
    <3> HIDE DEF r
    <3>6. r \in Nat /\ r < m.id /\ r < oldest /\ r > w.last /\ r \in DOMAIN rec
      BY <2>4, <3>4, <3>5 DEF TooRecent
    <3>7. NextOne(f, m, w, r) /\ rec[r] = Listed(f, m)[r]
      BY <3>5, <3>6 DEF NextOne, SameRest
    <3>8. ConsumedOne(f, m, w, x, r)
      BY <1>0, <3>1, <3>7, ConsumeFields DEF ConsumedOne
    <3> QED BY <3>6, <3>7, <3>8 DEF Consumes
  <2> QED BY <2>1, <2>2, <2>3, <2>4
<1> QED BY <1>3, <1>4

\* What the allocation of a page for an operation makes of the tree: nothing, or
\* it puts the value.
Allocates(f, w, x) ==
    /\ x.at = w.at
    /\ x.pc = "ready" => w.at = "value" /\ Tells(f, x) = With(Tells(f, w), w.key, w.stamp)
    /\ x.pc = "work" => w.at # "value" /\ Tells(f, x) = Tells(f, w)
    /\ Waiting(x) => Tells(f, x) = Tells(f, w)

\* mdb_page_alloc for an operation on the tree keeps its invariant.
LEMMA AllocOp ==
    ASSUME NEW f, NEW m, NEW w, NEW x, NEW oldest, NEW n, DOMAIN f = Pages,
           Accounted(f, m), m.id \in Nat, OpInv(f, m, w), ParentInv(f, m, w),
           w.pc = "alloc", ~ForList(w), oldest \in 0..m.id,
           x = Alloc(w, f, oldest, MaxPg, n)
    PROVE  /\ Going(f, m, x) /\ Fields(w, x)
           /\ x.pc = "scan" => x.slot = n /\ x.oldest = m.id
           /\ Allocates(f, w, x) /\ (x.last = w.last \/ x.last \in 0..(oldest - 1))
<1>0. /\ PageInv(f, m, w) /\ Unsaved(m, w) /\ AtInv(f, w) /\ Held(f, m, w, w.head)
      /\ DOMAIN w = TxnFields
  BY DEF OpInv, Waiting, PageInv, Held, Shape
<1>1. SameRest(f, m, w)
  <2>1. Records(Own(w, f), w.froot) = Listed(f, m)
    BY <1>0, UnsavedRecords DEF Unsaved
  <2> QED BY <2>1, ListedIds DEF SameRest
<1>2. CASE Fails(w, x)
  <2>1. ParentInv(f, m, x)
    BY <1>2, ParentKept DEF Fails
  <2>2. /\ DOMAIN x = TxnFields /\ Fields(w, x) /\ x.pc = "failed" /\ x.last = w.last
        /\ x.at = w.at
    BY <1>2 DEF Fails, Changed, TxnFields, Fields
  <2> QED BY <2>1, <2>2 DEF Going, Waiting, Allocates
<1>3. CASE Looks(m, w, x, n)
  <2>1. /\ Changed(w, x, {"pc", "slot", "oldest"})
        /\ x.pc = "scan" /\ x.slot = n /\ x.oldest = m.id
    BY <1>3 DEF Looks
  <2>2. PageInv(f, m, x) /\ Unsaved(m, x) /\ ParentInv(f, m, x) /\ AtInv(f, x)
    BY <1>0, <2>1, PageKept, UnsavedKept, ParentKept, AtKept DEF HeldFields
  <2>3. /\ DOMAIN x = TxnFields /\ Fields(w, x) /\ x.at = w.at /\ x.last = w.last
        /\ x.root = w.root
    BY <2>1 DEF Changed, TxnFields, Fields
  <2>4. Allocates(f, w, x)
    BY <2>1, <2>3, OwnKept DEF Allocates, Tells
  <2> QED BY <2>1, <2>2, <2>3, <2>4 DEF Going, OpInv, ForList
<1>4. CASE Consumes(f, m, w, x, oldest)
  <2>1. PICK r : NextOne(f, m, w, r) /\ r < m.id /\ r < oldest /\ ConsumedOne(f, m, w, x, r)
    BY <1>4 DEF Consumes
  <2>2. Changed(w, x, {"hasHead", "head", "last"})
    BY <2>1 DEF ConsumedOne
  <2>3. PageInv(f, m, x)
    BY <1>0, <2>1, ConsumeOne
  <2>4. Unsaved(m, x) /\ ParentInv(f, m, x) /\ AtInv(f, x)
    BY <1>0, <2>2, UnsavedKept, ParentKept, AtKept
  <2>5. /\ DOMAIN x = TxnFields /\ Fields(w, x) /\ x.at = w.at /\ x.pc = w.pc
        /\ x.root = w.root
    BY <2>2 DEF Changed, TxnFields, Fields
  <2>6. Allocates(f, w, x)
    BY <2>2, <2>5, OwnKept DEF Allocates, Tells
  <2>7. x.last \in 0..(oldest - 1)
    <3>1. r \in Nat /\ x.last = r
      BY <2>1, ListedIds DEF NextOne, ConsumedOne
    <3> QED BY <2>1, <3>1
  <2> QED BY <2>3, <2>4, <2>5, <2>6, <2>7 DEF Going, OpInv, ForList
<1>5. CASE Takes(f, m, w, x)
  <2>1. PICK y, H, pg : Taken(f, m, w, y, H, pg) /\ x = Receive(y, f, pg)
    BY <1>5 DEF Takes
  <2>2. /\ pg \in H /\ Held(f, m, y, H) /\ H \ {pg} = y.head
        /\ Changed(w, y, {"head", "next"}) /\ Consumed(f, m, y)
    BY <2>1 DEF Taken
  <2>3. AtInv(f, y) /\ Unsaved(m, y) /\ ParentInv(f, m, y)
    BY <1>0, <2>2, UnsavedKept, ParentKept, AtKept
  <2>4. Held(f, m, x, H \ {pg}) /\ Used4Op(f, y, x)
    BY <2>1, <2>2, <2>3, ReceiveOp
  <2>5. Changed(y, x, {"pc", "found", "dirty", "root", "freed"})
    BY <2>4 DEF Used4Op
  <2>6. Unsaved(m, x) /\ ParentInv(f, m, x)
    BY <2>3, <2>5, UnsavedKept, ParentKept
  <2>7. /\ x.head = y.head /\ x.hasHead = y.hasHead /\ x.last = y.last
        /\ DOMAIN x = TxnFields
    BY <2>5 DEF Changed, TxnFields
  <2>8. PageInv(f, m, x)
    BY <2>2, <2>4, <2>7 DEF PageInv, Consumed
  <2>9. x.pc \in {"work", "ready"} /\ (x.pc = "work" => AtRoot(f, x))
    BY <2>4 DEF Used4Op
  <2>10. OpInv(f, m, x)
    BY <2>6, <2>8, <2>9 DEF OpInv, Waiting, AtRoot
  <2>11. Fields(w, x) /\ x.last = w.last /\ Fields(w, y) /\ y.root = w.root /\ y.at = w.at
         /\ x.at = w.at
    BY <2>2, <2>5 DEF Changed, TxnFields, Fields
  <2>12. Allocates(f, w, x)
    <3>1. Tells(f, y) = Tells(f, w)
      BY <2>2, <2>11, OwnKept DEF Tells
    <3>2. ~Waiting(x)
      BY <2>9 DEF Waiting
    <3>3. y.key = w.key /\ y.stamp = w.stamp
      BY <2>11 DEF Fields
    <3> QED BY <2>4, <2>11, <3>1, <3>2, <3>3 DEF Allocates, Used4Op
  <2> QED BY <2>6, <2>7, <2>9, <2>10, <2>11, <2>12 DEF Going, Waiting
<1>6. \/ Fails(w, x) \/ Looks(m, w, x, n) \/ Consumes(f, m, w, x, oldest)
      \/ Takes(f, m, w, x)
  BY <1>0, <1>1, AllocStep1
<1> QED BY <1>2, <1>3, <1>4, <1>5, <1>6

\* The search for the oldest reader.
LEMMA ScanOp ==
    ASSUME NEW f, NEW m, NEW w, NEW x, OpInv(f, m, w), ParentInv(f, m, w), w.pc = "scan",
           ~ForList(w), Changed(w, x, {"pc", "found", "oldest", "slot"}),
           x.pc \in {"alloc", "scan"}
    PROVE  Going(f, m, x) /\ Fields(w, x)
<1>1. PageInv(f, m, w) /\ Unsaved(m, w) /\ AtInv(f, w)
  BY DEF OpInv, Waiting
<1>2. PageInv(f, m, x) /\ Unsaved(m, x) /\ ParentInv(f, m, x) /\ AtInv(f, x)
  BY <1>1, PageKept, UnsavedKept, ParentKept, AtKept DEF HeldFields
<1>3. DOMAIN x = TxnFields /\ Fields(w, x) /\ x.at = w.at
  BY DEF Changed, TxnFields, Fields
<1> QED BY <1>2, <1>3 DEF Going, OpInv, ForList

\* Nested transactions.
LEMMA BeginOp ==
    ASSUME NEW f, NEW m, NEW w, NEW x, NEW s, DOMAIN f = Pages, Accounted(f, m),
           OpInv(f, m, w), w.pc = "ready", w.depth = 0,
           x = Child([w EXCEPT !.nests = @ + 1], s)
    PROVE  /\ Going(f, m, x) /\ x.id = w.id /\ x.depth = 1 /\ x.pc = "ready"
           /\ Stays(f, w, x) /\ Stays(f, w, x.parent) /\ x.stamp = s
           /\ x.parent.stamp = w.stamp /\ x.parent.at = w.at /\ x.at = w.at
<1> DEFINE y == [w EXCEPT !.nests = @ + 1]
<1>0. PageInv(f, m, w) /\ Unsaved(m, w) /\ DOMAIN w = TxnFields
  BY DEF OpInv, PageInv, Held, Shape
<1>1. Changed(w, y, {"nests"}) /\ DOMAIN y = TxnFields
  BY <1>0 DEF Changed, TxnFields
<1>2. x = Child(y, s)
  OBVIOUS
<1> HIDE DEF y
<1>3. PageInv(f, m, y) /\ Unsaved(m, y) /\ y.pc = "ready" /\ y.depth = 0 /\ y.id = w.id
  <2>1. PageInv(f, m, y) /\ Unsaved(m, y)
    BY <1>0, <1>1, PageKept, UnsavedKept DEF HeldFields
  <2> QED BY <1>1, <2>1 DEF Changed, TxnFields
<1>4. Nested(y, x)
  BY <1>1, <1>2, GotChild
<1>5. Held(f, m, x, y.head) /\ Tells(f, x) = Tells(f, y)
  BY <1>3, <1>4, ChildHeld DEF PageInv
<1>6. /\ x.parent = y /\ x.depth = 1 /\ x.under = Over(y.dirty, y.under)
      /\ x.head = y.head /\ x.hasHead = y.hasHead /\ x.last = y.last /\ x.pc = y.pc
      /\ x.id = y.id /\ DOMAIN x = TxnFields
      /\ Changed(y, x, {"parent", "depth", "stamp", "under", "dirty", "freed"})
  BY <1>3, <1>4 DEF Nested, Changed, TxnFields
<1>7. PageInv(f, m, x)
  BY <1>3, <1>5, <1>6 DEF PageInv, Consumed
<1>8. Unsaved(m, x)
  BY <1>3, <1>6, UnsavedKept
<1>9. ParentInv(f, m, x)
  BY <1>3, <1>6 DEF ParentInv
<1>10. Stays(f, w, y) /\ y.stamp = w.stamp /\ y.at = w.at
  <2>1. y.root = w.root /\ y.last = w.last /\ y.stamp = w.stamp /\ y.at = w.at
    BY <1>1 DEF Changed, TxnFields
  <2> QED BY <1>1, <2>1, OwnKept DEF Stays, Tells
<1>11. Stays(f, w, x)
  BY <1>5, <1>6, <1>10 DEF Stays
<1>12. x.stamp = s /\ x.at = y.at
  <2>1. x.stamp = s
    BY <1>1, <1>2 DEF Child, TxnFields
  <2>2. x.at = y.at
    BY <1>6 DEF Changed, TxnFields
  <2> QED BY <2>1, <2>2
<1> QED BY <1>3, <1>6, <1>7, <1>8, <1>9, <1>10, <1>11, <1>12 DEF Going, OpInv, Waiting

\* After the commit of a nested transaction its parent goes on.
LEMMA CommitOp ==
    ASSUME NEW f, NEW m, NEW w, NEW x, DOMAIN f = Pages, Accounted(f, m),
           OpInv(f, m, w), ParentInv(f, m, w), w.pc = "ready", w.depth = 1,
           x = ChildCommitted(w)
    PROVE  /\ Going(f, m, x) /\ x.id = w.id /\ x.depth = 0 /\ x.pc = "ready"
           /\ Stays(f, w, x) /\ x.stamp = w.parent.stamp /\ x.at = w.at
<1>0. PageInv(f, m, w) /\ Unsaved(m, w) /\ DOMAIN w = TxnFields
  BY DEF OpInv, PageInv, Held, Shape
<1>1. Joined(w, x)
  BY <1>0, GotJoined
<1>2. Held(f, m, x, w.head) /\ Tells(f, x) = Tells(f, w)
  BY <1>0, <1>1, JoinedHeld DEF PageInv
<1>3. /\ x.depth = 0 /\ x.head = w.head /\ x.hasHead = w.hasHead /\ x.last = w.last
      /\ x.pc = w.pc /\ x.id = w.id /\ DOMAIN x = TxnFields
      /\ Changed(w, x, {"parent", "depth", "stamp", "under", "dirty", "freed"})
  BY <1>1 DEF Joined, Changed, TxnFields
<1>4. PageInv(f, m, x)
  BY <1>0, <1>2, <1>3 DEF PageInv, Consumed
<1>5. Unsaved(m, x)
  BY <1>0, <1>3, UnsavedKept
<1>6. ParentInv(f, m, x)
  BY <1>3 DEF ParentInv
<1>7. x.stamp = w.parent.stamp /\ x.at = w.at
  BY <1>0 DEF ChildCommitted, TxnFields
<1> QED BY <1>2, <1>3, <1>4, <1>5, <1>6, <1>7 DEF Going, OpInv, Waiting, Stays

\* After the abort of a nested transaction its parent is as it was.
LEMMA AbortOp ==
    ASSUME NEW f, NEW m, NEW w, NEW x, NEW pc \in {"ready", "failed"},
           ParentInv(f, m, w), w.depth = 1, x = ChildAborted(w, pc)
    PROVE  /\ Going(f, m, x) /\ x.id = m.id + 1 /\ x.depth = 0 /\ x.pc = pc
           /\ Stays(f, w.parent, x) /\ x.stamp = w.parent.stamp /\ x.at = w.parent.at
<1> DEFINE y == w.parent
<1>1. /\ y.pc = "ready" /\ y.depth = 0 /\ PageInv(f, m, y) /\ Unsaved(m, y)
      /\ DOMAIN y = TxnFields /\ y.id = m.id + 1
  BY DEF ParentInv, PageInv, Held, Shape
<1>2. x = [y EXCEPT !.pc = pc, !.ops = w.ops]
  BY DEF ChildAborted
<1> HIDE DEF y
<1>3. Changed(y, x, {"pc", "ops"}) /\ x.pc = pc
  BY <1>1, <1>2 DEF Changed, TxnFields
<1>4. PageInv(f, m, x) /\ Unsaved(m, x)
  BY <1>1, <1>3, PageKept, UnsavedKept DEF HeldFields
<1>5. x.depth = 0 /\ x.id = m.id + 1 /\ DOMAIN x = TxnFields
  BY <1>1, <1>3 DEF Changed, TxnFields
<1>6. ParentInv(f, m, x)
  BY <1>5 DEF ParentInv
<1>7. x.root = y.root /\ x.last = y.last /\ x.stamp = y.stamp /\ x.at = y.at
  BY <1>3 DEF Changed, TxnFields
<1>8. Stays(f, y, x)
  BY <1>3, <1>7, OwnKept DEF Stays, Tells
<1> QED BY <1>3, <1>4, <1>5, <1>6, <1>7, <1>8 DEF Going, OpInv, Waiting, y

-----------------------------------------------------------------------------
(* Saving the free list.                                                   *)

\* The records as the transaction sees them.
Rec(f, w) == Records(Own(w, f), w.froot)

RecFields == {"froot", "done", "last", "headId", "room", "id", "freed", "count",
              "hasHead", "dirty", "under"}

\* The records written so far do not depend on the other fields.
LEMMA RecordsKept ==
    ASSUME NEW f, NEW m, NEW w, NEW x, NEW G, RecordsInv(f, m, w), Changed(w, x, G),
           G \cap RecFields = {}
    PROVE  RecordsInv(f, m, x)
<1>1. /\ x.froot = w.froot /\ x.done = w.done /\ x.last = w.last /\ x.headId = w.headId
      /\ x.room = w.room /\ x.id = w.id /\ x.freed = w.freed /\ x.count = w.count
      /\ x.hasHead = w.hasHead /\ x.dirty = w.dirty /\ x.under = w.under
  BY DEF Changed, TxnFields, RecFields
<1>2. Own(x, f) = Own(w, f)
  BY <1>1 DEF Own
<1> QED BY <1>1, <1>2 DEF RecordsInv

\* The sets of pages that are counted are finite.
LEMMA Counted ==
    ASSUME NEW f, NEW m, NEW w, NEW H, Accounted(f, m), Held(f, m, w, H), w.depth = 0
    PROVE  IsFiniteSet(H) /\ IsFiniteSet(w.freed)
<1>1. w.next \in Int /\ FirstPage \in Int
  BY HeldPages DEF FirstPage
<1>2. IsFiniteSet(FirstPage..(w.next - 1))
  BY <1>1, FS_Interval
<1>3. H \subseteq FirstPage..(w.next - 1) /\ w.freed \subseteq FirstPage..(w.next - 1)
  BY DEF Held, Account, Freed
<1> QED BY <1>2, <1>3, FS_Subset

\* A step of the save: the transaction is the same, and says the same.
Kept(f, w, x) == SameTxn(w, x) /\ Tells(f, x) = Tells(f, w)

\* A round of the loop.
KeptRound(f, w, x) == SameTxn(w, x) /\ Stays(f, w, x)

\* The pages that w writes are in no record that it has not consumed, and it
\* keeps those records as they are.
Flushing(f, m, w) ==
    /\ DOMAIN w.dirty \cap Later(f, m, w) = {}
    /\ \A r \in DOMAIN Listed(f, m) :
          r > w.last => /\ r \in DOMAIN Records(Own(w, f), w.froot)
                        /\ Records(Own(w, f), w.froot)[r] = Listed(f, m)[r]

\* The list of w has the records rec.
ListIs(f, w, rec) == w.froot # NoPage /\ Own(w, f)[w.froot] = FreeLeaf(rec)

\* A list that is on its page has the records of that page.
LEMMA ListRecords ==
    ASSUME NEW f, NEW w, NEW rec, ListIs(f, w, rec)
    PROVE  /\ Rec(f, w) = rec
           /\ Fn(rec) /\ DOMAIN rec \subseteq 1..w.id => FreeList(Own(w, f), w.froot, w.id)
BY DEF ListIs, Rec, Records, FreeList, FreeLeaf

\* A list with no page has no records.
LEMMA NoRecords ==
    ASSUME NEW f, NEW w, w.froot = NoPage
    PROVE  Fn(Rec(f, w)) /\ DOMAIN Rec(f, w) = {} /\ FreeList(Own(w, f), w.froot, w.id)
<1>1. Rec(f, w) = EmptyMap
  BY DEF Rec, Records
<1>2. FreeList(Own(w, f), w.froot, w.id)
  BY DEF FreeList
<1> QED BY <1>1, <1>2, NoMap

\* The records bear numbers of commits, up to this one.
LEMMA RecIds ==
    ASSUME NEW f, NEW w, FreeList(Own(w, f), w.froot, w.id)
    PROVE  Fn(Rec(f, w)) /\ DOMAIN Rec(f, w) \subseteq 1..w.id
<1>1. CASE w.froot = NoPage
  BY <1>1, NoRecords
<1>2. CASE w.froot # NoPage
  <2>1. LET rec == Own(w, f)[w.froot].rec IN
        ListIs(f, w, rec) /\ Fn(rec) /\ DOMAIN rec \subseteq 1..w.id
    BY <1>2 DEF FreeList, ListIs
  <2> QED BY <2>1, ListRecords
<1> QED BY <1>1, <1>2

\* mdb_txn_commit begins.
LEMMA SaveOp ==
    ASSUME NEW f, NEW m, NEW w, NEW x, DOMAIN f = Pages, Accounted(f, m), m.id \in Nat,
           OpInv(f, m, w), w.depth = 0, DOMAIN w.dirty # {}, x = Save(w)
    PROVE  SaveInv(f, m, x) /\ x.pc = "save" /\ KeptRound(f, w, x)
<1>0. /\ DOMAIN w = TxnFields /\ PageInv(f, m, w) /\ Unsaved(m, w) /\ Held(f, m, w, w.head)
      /\ Consumed(f, m, w) /\ w.id = m.id + 1
  BY DEF OpInv, PageInv, Held, Shape
<1>1. /\ Changed(w, x, {"pc", "step", "done", "count", "headId", "room", "more"})
      /\ x.pc = "save" /\ x.step = "loop" /\ x.done = 0 /\ x.count = 0 /\ x.headId = 0
      /\ x.room = 0
  BY <1>0 DEF Save, Changed, TxnFields
<1>2. /\ x.depth = w.depth /\ x.id = w.id /\ x.dirty = w.dirty /\ x.froot = w.froot
      /\ x.last = w.last /\ x.hasHead = w.hasHead /\ x.freed = w.freed
  BY <1>1 DEF Changed, TxnFields
<1>3. PageInv(f, m, x)
  BY <1>0, <1>1, PageKept DEF HeldFields
<1>4. Own(x, f) = Own(w, f)
  BY <1>1, OwnKept
<1>5. w.froot = m.froot
  BY <1>0 DEF Unsaved
<1>6. Rec(f, x) = Listed(f, m) /\ FreeList(Own(x, f), x.froot, m.id)
  BY <1>0, <1>2, <1>4, <1>5, UnsavedRecords DEF Rec
<1>7. FreeList(Own(x, f), x.froot, x.id)
  <2>1. 1..m.id \subseteq 1..x.id
    BY <1>0, <1>2
  <2> QED BY <1>6, <2>1 DEF FreeList
<1>8. \A r \in DOMAIN Listed(f, m) : r \in Nat /\ r >= 1 /\ r <= m.id
  BY ListedIds
<1>9. x.id \notin DOMAIN Listed(f, m) /\ 0 \notin DOMAIN Listed(f, m)
  BY <1>0, <1>2, <1>8
<1>10. x.last \in Nat
  BY <1>0, <1>2, LastOf
<1>11. x.froot = NoPage /\ x.hasHead => x.freed # {}
  <2>1. SUFFICES ASSUME x.froot = NoPage, x.hasHead
                 PROVE  FALSE
    OBVIOUS
  <2>2. x.last \in DOMAIN Listed(f, m)
    BY <1>3, <2>1 DEF PageInv, Consumed
  <2>3. DOMAIN Rec(f, x) = {}
    BY <2>1, NoRecords
  <2> QED BY <1>6, <2>2, <2>3
<1>12. RecordsInv(f, m, x)
  BY <1>1, <1>6, <1>7, <1>8, <1>9, <1>10, <1>11 DEF RecordsInv, Rec
<1>13. ReservedInv(f, x)
  BY <1>1 DEF ReservedInv
<1>14. KeptRound(f, w, x)
  <2>1. x.root = w.root
    BY <1>1 DEF Changed, TxnFields
  <2> QED BY <1>2, <1>4, <2>1 DEF KeptRound, SameTxn, Stays, Tells
<1> QED BY <1>1, <1>2, <1>3, <1>12, <1>13, <1>14 DEF SaveInv, Waiting

\* The page of the list is written in place.
ListWriting(w, x, rec) ==
    /\ w.froot # NoPage /\ w.froot \in DOMAIN w.dirty
    /\ Changed(w, x, {"pc", "dirty", "step", "done", "count", "headId", "room", "more"})
    /\ x.dirty = [w.dirty EXCEPT ![w.froot] = FreeLeaf(rec)]

\* Where a transaction sees its free list.
LEMMA ListAt ==
    ASSUME NEW f, NEW m, NEW w, NEW H, DOMAIN f = Pages, Accounted(f, m), Held(f, m, w, H),
           w.froot # NoPage
    PROVE  /\ w.froot \in Pages
           /\ w.froot \in DOMAIN w.dirty => Own(w, f)[w.froot] = w.dirty[w.froot]
           /\ FreeList(Own(w, f), w.froot, w.id) =>
                Rec(f, w) = Own(w, f)[w.froot].rec
<1>1. w.froot \in Pages
  BY HeldPages DEF ListPage
<1>2. w.froot \in DOMAIN w.dirty => Own(w, f)[w.froot] = w.dirty[w.froot]
  BY <1>1, Owned
<1>3. ASSUME FreeList(Own(w, f), w.froot, w.id)
      PROVE  Rec(f, w) = Own(w, f)[w.froot].rec
  <2>1. ListIs(f, w, Own(w, f)[w.froot].rec)
    BY <1>3 DEF FreeList, ListIs
  <2> QED BY <2>1, ListRecords
<1> QED BY <1>1, <1>2, <1>3

\* Writing other records to the dirty page of the list keeps the account.
LEMMA ListWritten ==
    ASSUME NEW f, NEW m, NEW w, NEW x, NEW H, NEW rec, DOMAIN f = Pages, Accounted(f, m),
           Held(f, m, w, H), ListWriting(w, x, rec)
    PROVE  /\ Held(f, m, x, H) /\ ListIs(f, x, rec) /\ DOMAIN x.dirty = DOMAIN w.dirty
           /\ Tells(f, x) = Tells(f, w)
<1>1. /\ w.froot # NoPage /\ w.froot \in DOMAIN w.dirty
      /\ x.under = w.under /\ x.froot = w.froot /\ x.depth = w.depth
      /\ x.parent = w.parent /\ x.root = w.root /\ x.freed = w.freed
      /\ x.dirty = [w.dirty EXCEPT ![w.froot] = FreeLeaf(rec)]
  BY DEF ListWriting, Changed, TxnFields
<1>2. w.froot \in Pages
  BY <1>1, ListAt
<1>3. /\ Own(x, f)[w.froot] = FreeLeaf(rec)
      /\ \A q \in Pages \ {w.froot} : Own(x, f)[q] = Own(w, f)[q]
      /\ Fn(x.dirty) /\ DOMAIN x.dirty = DOMAIN w.dirty
  <2>1. Rewriting(f, w, x, w.froot, FreeLeaf(rec))
    BY <1>1, <1>2 DEF Rewriting
  <2>2. Rewritten(f, w, x, w.froot, FreeLeaf(rec))
    BY <2>1, RewritePage
  <2> QED BY <2>2 DEF Rewritten
<1>4. Account(w.next, PagesOf(Own(w, f), w.root), {w.froot}, Later(f, m, w), H, Freed(w))
  BY <1>1 DEF Held, ListPage
<1>5. Tree(Own(x, f), w.root) /\ PagesOf(Own(x, f), w.root) = PagesOf(Own(w, f), w.root)
      /\ Contents(Own(x, f), w.root) = Contents(Own(w, f), w.root)
  <2>1. \A pg \in PagesOf(Own(w, f), w.root) : pg # w.froot /\ pg \in Pages
    BY <1>4, HeldPages DEF Account
  <2>2. Tree(Own(w, f), w.root)
    BY DEF Held
  <2>3. \A pg \in PagesOf(Own(w, f), w.root) : Own(x, f)[pg] = Own(w, f)[pg]
    BY <1>3, <2>1
  <2> QED BY <2>2, <2>3, TreeFrame
<1>6. Freed(x) = Freed(w) /\ ListPage(x.froot) = ListPage(w.froot)
  BY <1>1 DEF Freed
<1>7. Account(w.next, PagesOf(Own(x, f), x.root), ListPage(x.froot), Later(f, m, w), H, Freed(x))
  BY <1>1, <1>5, <1>6 DEF Held
<1>8. Private(x, H) \subseteq Private(w, H)
  BY <1>1, <1>3 DEF Private
<1>9. Changed(w, x, TxnFields \ {"id", "next", "under", "depth", "parent", "last"})
  BY DEF ListWriting, Changed, TxnFields
<1>10. Tree(Own(x, f), x.root)
  BY <1>1, <1>5
<1>11. Held(f, m, x, H)
  BY <1>3, <1>7, <1>8, <1>9, <1>10, HeldNew
<1>12. Tells(f, x) = Tells(f, w)
  BY <1>1, <1>5 DEF Tells
<1> QED BY <1>1, <1>3, <1>11, <1>12 DEF ListIs

\* The page of the list is given up.
ListDropping(w, x) ==
    /\ w.froot # NoPage /\ w.froot \in DOMAIN w.dirty
    /\ Changed(w, x, {"dirty", "step", "done", "headId", "room", "froot", "freed"})
    /\ x.froot = NoPage /\ x.freed = w.freed \cup {w.froot}
    /\ \E v : x.dirty = [w.dirty EXCEPT ![w.froot] = v]

\* Dropping the page of an empty list frees it.
LEMMA ListDropped ==
    ASSUME NEW f, NEW m, NEW w, NEW x, NEW H, DOMAIN f = Pages, Accounted(f, m),
           Held(f, m, w, H), ListDropping(w, x)
    PROVE  /\ Held(f, m, x, H) /\ DOMAIN x.dirty = DOMAIN w.dirty
           /\ Tells(f, x) = Tells(f, w)
<1>0. PICK v : x.dirty = [w.dirty EXCEPT ![w.froot] = v]
  BY DEF ListDropping
<1>1. /\ w.froot # NoPage /\ w.froot \in DOMAIN w.dirty
      /\ x.under = w.under /\ x.froot = NoPage /\ x.depth = w.depth
      /\ x.parent = w.parent /\ x.root = w.root /\ x.freed = w.freed \cup {w.froot}
  BY DEF ListDropping, Changed, TxnFields
<1>2. w.froot \in Pages
  BY <1>1, ListAt
<1>3. /\ \A q \in Pages \ {w.froot} : Own(x, f)[q] = Own(w, f)[q]
      /\ Fn(x.dirty) /\ DOMAIN x.dirty = DOMAIN w.dirty
  <2>1. Rewriting(f, w, x, w.froot, v)
    BY <1>0, <1>1, <1>2 DEF Rewriting
  <2>2. Rewritten(f, w, x, w.froot, v)
    BY <2>1, RewritePage
  <2> QED BY <2>2 DEF Rewritten
<1>4. Account(w.next, PagesOf(Own(w, f), w.root), {w.froot}, Later(f, m, w), H, Freed(w))
  BY <1>1 DEF Held, ListPage
<1>5. Tree(Own(x, f), w.root) /\ PagesOf(Own(x, f), w.root) = PagesOf(Own(w, f), w.root)
      /\ Contents(Own(x, f), w.root) = Contents(Own(w, f), w.root)
  <2>1. \A pg \in PagesOf(Own(w, f), w.root) : pg # w.froot /\ pg \in Pages
    BY <1>4, HeldPages DEF Account
  <2>2. Tree(Own(w, f), w.root)
    BY DEF Held
  <2>3. \A pg \in PagesOf(Own(w, f), w.root) : Own(x, f)[pg] = Own(w, f)[pg]
    BY <1>3, <2>1
  <2> QED BY <2>2, <2>3, TreeFrame
<1>6. Freed(x) = Freed(w) \cup {w.froot} /\ ListPage(x.froot) = {}
  BY <1>1 DEF Freed, ListPage
<1>7. Account(w.next, PagesOf(Own(x, f), x.root), ListPage(x.froot), Later(f, m, w), H, Freed(x))
  <2>1. Account(w.next, PagesOf(Own(w, f), w.root), {}, Later(f, m, w), H, Freed(w) \cup {w.froot})
    BY <1>4 DEF Account
  <2> QED BY <1>1, <1>5, <1>6, <2>1
<1>8. Private(x, H) \subseteq Private(w, H)
  BY <1>1, <1>3 DEF Private
<1>9. Changed(w, x, TxnFields \ {"id", "next", "under", "depth", "parent", "last"})
  BY DEF ListDropping, Changed, TxnFields
<1>10. Tree(Own(x, f), x.root)
  BY <1>1, <1>5
<1>11. Held(f, m, x, H)
  BY <1>3, <1>7, <1>8, <1>9, <1>10, HeldNew
<1>12. Tells(f, x) = Tells(f, w)
  BY <1>1, <1>5 DEF Tells
<1> QED BY <1>3, <1>11, <1>12

\* A page is received for the list.
LEMMA NewListHeld ==
    ASSUME NEW f, NEW m, NEW w, NEW x, NEW H, NEW pg \in H, DOMAIN f = Pages,
           Accounted(f, m), Held(f, m, w, H), w.froot = NoPage, NewList(w, x, pg)
    PROVE  /\ Held(f, m, x, H \ {pg}) /\ Tells(f, x) = Tells(f, w)
           /\ x.froot # NoPage /\ x.froot \in DOMAIN x.dirty
           /\ \E rec : Fn(rec) /\ DOMAIN rec = {} /\ ListIs(f, x, rec)
<1>0. PICK v : EmptyList(v) /\ x.dirty = With(w.dirty, pg, v)
  BY DEF NewList
<1>1. /\ x.under = w.under /\ x.freed = w.freed /\ x.depth = w.depth
      /\ x.parent = w.parent /\ x.root = w.root /\ x.froot = pg
  BY DEF NewList, Changed, TxnFields
<1>2. /\ pg \in Pages /\ pg # NoPage /\ pg \notin PagesOf(Own(w, f), w.root)
  BY AtHand, HeldPages DEF Pages, NoPage, FirstPage
<1>3. /\ Own(x, f)[pg] = v /\ Fn(x.dirty) /\ DOMAIN x.dirty = DOMAIN w.dirty \cup {pg}
      /\ \A q \in Pages \ {pg} : Own(x, f)[q] = Own(w, f)[q]
  <2>1. Writing(f, w, x, pg, v)
    BY <1>0, <1>1, <1>2 DEF Writing
  <2>2. Written(f, w, x, pg, v)
    BY <2>1, WritePage
  <2> QED BY <2>2 DEF Written
<1>4. Account(w.next, PagesOf(Own(w, f), w.root), {}, Later(f, m, w), H, Freed(w))
  BY DEF Held, ListPage
<1>5. Tree(Own(x, f), w.root) /\ PagesOf(Own(x, f), w.root) = PagesOf(Own(w, f), w.root)
      /\ Contents(Own(x, f), w.root) = Contents(Own(w, f), w.root)
  <2>1. Tree(Own(w, f), w.root)
    BY DEF Held
  <2>2. \A q \in PagesOf(Own(w, f), w.root) : Own(x, f)[q] = Own(w, f)[q]
    BY <1>2, <1>3, HeldPages
  <2> QED BY <2>1, <2>2, TreeFrame
<1>6. Freed(x) = Freed(w) /\ ListPage(x.froot) = {pg}
  BY <1>1, <1>2 DEF Freed, ListPage
<1>7. Account(w.next, PagesOf(Own(x, f), x.root), ListPage(x.froot), Later(f, m, w),
              H \ {pg}, Freed(x))
  <2>1. Account(w.next, PagesOf(Own(w, f), w.root), {pg}, Later(f, m, w), H \ {pg}, Freed(w))
    BY <1>4 DEF Account
  <2> QED BY <1>1, <1>5, <1>6, <2>1
<1>8. Private(x, H \ {pg}) \subseteq Private(w, H)
  BY <1>1, <1>3 DEF Private
<1>9. Changed(w, x, TxnFields \ {"id", "next", "under", "depth", "parent", "last"})
  BY DEF NewList, Changed, TxnFields
<1>10. Tree(Own(x, f), x.root)
  BY <1>1, <1>5
<1>11. Held(f, m, x, H \ {pg})
  BY <1>3, <1>7, <1>8, <1>9, <1>10, HeldNew
<1>12. Fn(v.rec) /\ DOMAIN v.rec = {} /\ ListIs(f, x, v.rec)
  BY <1>0, <1>1, <1>2, <1>3 DEF EmptyList, ListIs
<1>13. Tells(f, x) = Tells(f, w)
  BY <1>1, <1>5 DEF Tells
<1> QED BY <1>1, <1>2, <1>3, <1>11, <1>12, <1>13

\* mdb_page_touch of the free list: the page at hand replaces the old one, which
\* is freed, and the records are those it had.
LEMMA ListCopyHeld ==
    ASSUME NEW f, NEW m, NEW w, NEW x, NEW H, NEW pg \in H, DOMAIN f = Pages,
           Accounted(f, m), Held(f, m, w, H), w.froot # NoPage, ListCopy(f, w, x, pg)
    PROVE  /\ Held(f, m, x, H \ {pg}) /\ Tells(f, x) = Tells(f, w)
           /\ x.froot # NoPage /\ x.froot \in DOMAIN x.dirty
           /\ Own(x, f)[x.froot] = Own(w, f)[w.froot]
<1>1. /\ x.under = w.under /\ x.freed = w.freed \cup {w.froot} /\ x.depth = w.depth
      /\ x.parent = w.parent /\ x.root = w.root /\ x.froot = pg
      /\ x.dirty = With(w.dirty, pg, Own(w, f)[w.froot])
  BY DEF ListCopy, Changed, TxnFields
<1>2. /\ pg \in Pages /\ pg # NoPage /\ pg \notin PagesOf(Own(w, f), w.root)
  BY AtHand, HeldPages DEF Pages, NoPage, FirstPage
<1>3. /\ Own(x, f)[pg] = Own(w, f)[w.froot] /\ Fn(x.dirty)
      /\ DOMAIN x.dirty = DOMAIN w.dirty \cup {pg}
      /\ \A q \in Pages \ {pg} : Own(x, f)[q] = Own(w, f)[q]
  <2>1. Writing(f, w, x, pg, Own(w, f)[w.froot])
    BY <1>1, <1>2 DEF Writing
  <2>2. Written(f, w, x, pg, Own(w, f)[w.froot])
    BY <2>1, WritePage
  <2> QED BY <2>2 DEF Written
<1>4. Account(w.next, PagesOf(Own(w, f), w.root), {w.froot}, Later(f, m, w), H, Freed(w))
  BY DEF Held, ListPage
<1>5. Tree(Own(x, f), w.root) /\ PagesOf(Own(x, f), w.root) = PagesOf(Own(w, f), w.root)
      /\ Contents(Own(x, f), w.root) = Contents(Own(w, f), w.root)
  <2>1. Tree(Own(w, f), w.root)
    BY DEF Held
  <2>2. \A q \in PagesOf(Own(w, f), w.root) : Own(x, f)[q] = Own(w, f)[q]
    BY <1>2, <1>3, HeldPages
  <2> QED BY <2>1, <2>2, TreeFrame
<1>6. Freed(x) = Freed(w) \cup {w.froot} /\ ListPage(x.froot) = {pg}
  BY <1>1, <1>2 DEF Freed, ListPage
<1>7. Account(w.next, PagesOf(Own(x, f), x.root), ListPage(x.froot), Later(f, m, w),
              H \ {pg}, Freed(x))
  <2>1. Account(w.next, PagesOf(Own(w, f), w.root), {pg}, Later(f, m, w), H \ {pg},
                Freed(w) \cup {w.froot})
    BY <1>4 DEF Account
  <2> QED BY <1>1, <1>5, <1>6, <2>1
<1>8. Private(x, H \ {pg}) \subseteq Private(w, H)
  BY <1>1, <1>3 DEF Private
<1>9. Changed(w, x, TxnFields \ {"id", "next", "under", "depth", "parent", "last"})
  BY DEF ListCopy, Changed, TxnFields
<1>10. Tree(Own(x, f), x.root)
  BY <1>1, <1>5
<1>11. Held(f, m, x, H \ {pg})
  BY <1>3, <1>7, <1>8, <1>9, <1>10, HeldNew
<1>12. Tells(f, x) = Tells(f, w)
  BY <1>1, <1>5 DEF Tells
<1> QED BY <1>1, <1>2, <1>3, <1>11, <1>12

\* What is asked for while the free list is saved.
Asking(w) ==
    /\ w.at = "freedb" => w.froot # NoPage /\ ~IsDirty(w, w.froot)
    /\ w.at # "freedb" => w.at = "new freedb" /\ w.froot = NoPage

\* How the round goes on afterwards.
Stepping(w) == w.step \in {"loop", "freed"} /\ (w.step = "freed" => w.freed # {})

\* The list is in another page.
Moved(f, w, x) ==
    /\ Changed(w, x, {"pc", "found", "dirty", "froot", "freed"})
    /\ x.pc = "save"
    /\ x.froot # NoPage /\ x.froot \in DOMAIN x.dirty
    /\ Rec(f, x) = Rec(f, w) /\ FreeList(Own(x, f), x.froot, x.id)
    /\ w.freed \subseteq x.freed

\* A list on another page has the same records.
LEMMA RecordsMoved ==
    ASSUME NEW f, NEW m, NEW w, NEW x, RecordsInv(f, m, w), Moved(f, w, x)
    PROVE  RecordsInv(f, m, x)
<1>1. /\ x.done = w.done /\ x.last = w.last /\ x.headId = w.headId
      /\ x.room = w.room /\ x.id = w.id /\ x.count = w.count
      /\ x.hasHead = w.hasHead
  BY DEF Moved, Changed, TxnFields
<1>2. /\ Rec(f, x) = Rec(f, w) /\ FreeList(Own(x, f), x.froot, x.id)
      /\ w.freed \subseteq x.freed /\ x.froot # NoPage
  BY DEF Moved
<1> QED BY <1>1, <1>2 DEF RecordsInv, Rec

\* The save that receives a page uses it for the free list.
LEMMA ReceiveSave ==
    ASSUME NEW f, NEW m, NEW w, NEW x, NEW H, NEW pg \in H, DOMAIN f = Pages,
           Accounted(f, m), Held(f, m, w, H), RecordsInv(f, m, w), Asking(w),
           x = Receive(w, f, pg)
    PROVE  Held(f, m, x, H \ {pg}) /\ Moved(f, w, x) /\ Tells(f, x) = Tells(f, w)
<1>0. DOMAIN w = TxnFields /\ FreeList(Own(w, f), w.froot, w.id)
  BY DEF Held, Shape, RecordsInv
<1>1. CASE w.at = "new freedb"
  <2>1. NewList(w, x, pg) /\ w.froot = NoPage
    BY <1>0, <1>1, GotNewList DEF Asking
  <2>2. /\ Held(f, m, x, H \ {pg}) /\ Tells(f, x) = Tells(f, w)
        /\ x.froot # NoPage /\ x.froot \in DOMAIN x.dirty
        /\ \E rec : Fn(rec) /\ DOMAIN rec = {} /\ ListIs(f, x, rec)
    BY <2>1, NewListHeld
  <2>3. PICK rec : Fn(rec) /\ DOMAIN rec = {} /\ ListIs(f, x, rec)
    BY <2>2
  <2>4. Rec(f, x) = rec /\ FreeList(Own(x, f), x.froot, x.id)
    BY <2>3, ListRecords
  <2>5. Rec(f, w) = rec
    BY <2>1, <2>3, NoRecords, SameFn
  <2>6. /\ Changed(w, x, {"pc", "found", "dirty", "froot", "freed"})
        /\ x.pc = "save" /\ x.freed = w.freed
    BY <2>1 DEF NewList, Changed, TxnFields
  <2>7. Moved(f, w, x)
    BY <2>2, <2>4, <2>5, <2>6 DEF Moved
  <2> QED BY <2>2, <2>7
<1>2. CASE w.at = "freedb"
  <2>1. ListCopy(f, w, x, pg) /\ w.froot # NoPage
    BY <1>0, <1>2, GotList DEF Asking
  <2>2. /\ Held(f, m, x, H \ {pg}) /\ Tells(f, x) = Tells(f, w)
        /\ x.froot # NoPage /\ x.froot \in DOMAIN x.dirty
        /\ Own(x, f)[x.froot] = Own(w, f)[w.froot]
    BY <2>1, ListCopyHeld
  <2>3. /\ Changed(w, x, {"pc", "found", "dirty", "froot", "freed"})
        /\ x.pc = "save" /\ x.freed = w.freed \cup {w.froot} /\ x.id = w.id
    BY <2>1 DEF ListCopy, Changed, TxnFields
  <2> DEFINE rec == Own(w, f)[w.froot].rec
  <2>4. Own(w, f)[w.froot] = FreeLeaf(rec) /\ Fn(rec) /\ DOMAIN rec \subseteq 1..w.id
    BY <1>0, <2>1 DEF FreeList
  <2> HIDE DEF rec
  <2>5. ListIs(f, w, rec) /\ ListIs(f, x, rec)
    BY <2>1, <2>2, <2>4 DEF ListIs
  <2>6. Rec(f, w) = rec /\ Rec(f, x) = rec /\ FreeList(Own(x, f), x.froot, x.id)
    BY <2>3, <2>4, <2>5, ListRecords
  <2>7. Moved(f, w, x)
    BY <2>2, <2>3, <2>6 DEF Moved
  <2> QED BY <2>2, <2>7
<1> QED BY <1>1, <1>2 DEF Asking

\* The save goes on or fails.
Going2Save(f, m, x) ==
    /\ DOMAIN x = TxnFields /\ x.depth = 0
    /\ x.pc \in {"save", "alloc", "scan", "failed"}
    /\ x.pc # "failed" => SaveInv(f, m, x)

\* While it waits for a page.
SaveWaits(f, m, w) ==
    /\ PageInv(f, m, w) /\ w.depth = 0 /\ DOMAIN w.dirty # {}
    /\ RecordsInv(f, m, w) /\ w.room = 0
    /\ Stepping(w)
    /\ Asking(w)

\* While a page is wanted, the save has the invariant that waits.
LEMMA WaitingSave ==
    ASSUME NEW f, NEW m, NEW w, Waiting(w)
    PROVE  SaveInv(f, m, w) <=> SaveWaits(f, m, w)
BY DEF SaveInv, SaveWaits, Waiting, ReservedInv, Stepping, Asking

\* Looking at the readers changes nothing that the waiting save needs.
LEMMA WaitsKept ==
    ASSUME NEW f, NEW m, NEW w, NEW x, SaveWaits(f, m, w),
           Changed(w, x, {"pc", "found", "oldest", "slot"})
    PROVE  SaveWaits(f, m, x) /\ KeptRound(f, w, x) /\ DOMAIN x = TxnFields
<1>1. /\ x.depth = w.depth /\ x.dirty = w.dirty /\ x.under = w.under /\ x.room = w.room
      /\ x.step = w.step /\ x.freed = w.freed /\ x.at = w.at /\ x.froot = w.froot
      /\ x.id = w.id /\ DOMAIN x = TxnFields
  BY DEF Changed, TxnFields
<1>2. PageInv(f, m, x)
  BY PageKept DEF SaveWaits, HeldFields
<1>3. RecordsInv(f, m, x)
  BY RecordsKept DEF SaveWaits, RecFields
<1>4. KeptRound(f, w, x)
  <2>1. x.root = w.root /\ x.last = w.last
    BY DEF Changed, TxnFields
  <2> QED BY <1>1, <2>1, OwnKept DEF KeptRound, SameTxn, Stays, Tells
<1> QED BY <1>1, <1>2, <1>3, <1>4 DEF SaveWaits, Stepping, Asking, IsDirty

\* A record that was not consumed is still in the list as it is being written.
LEMMA SaveRest ==
    ASSUME NEW f, NEW m, NEW w, Accounted(f, m), m.id \in Nat, PageInv(f, m, w),
           RecordsInv(f, m, w)
    PROVE  SameRest(f, m, w)
<1>1. w.last \in Nat /\ w.id = m.id + 1
  BY LastOf DEF PageInv, Held, Shape
<1>2. Fn(Rec(f, w)) /\ DOMAIN Rec(f, w) \subseteq 1..w.id
  BY RecIds DEF RecordsInv
<1>3. DOMAIN Rec(f, w) \subseteq Nat
  BY <1>1, <1>2
<1>4. w.done \in Nat /\ w.done <= w.last
  BY <1>1 DEF RecordsInv
<1>5. \A r \in DOMAIN Rec(f, w) : r > w.last /\ r < m.id => r \in DOMAIN Listed(f, m)
  <2>1. ASSUME NEW r \in DOMAIN Rec(f, w), r > w.last, r < m.id
        PROVE  r \in DOMAIN Listed(f, m)
    <3>1. r # w.id /\ r # w.done
      BY <1>1, <1>3, <1>4, <2>1
    <3> QED BY <3>1 DEF RecordsInv, Rec
  <2> QED BY <2>1
<1>6. \A r \in DOMAIN Listed(f, m) : r > w.last =>
         r \in DOMAIN Rec(f, w) /\ Rec(f, w)[r] = Listed(f, m)[r]
  <2>1. ASSUME NEW r \in DOMAIN Listed(f, m), r > w.last
        PROVE  r > w.done
    <3>1. r \in Nat
      BY ListedIds
    <3> QED BY <1>1, <1>4, <2>1, <3>1
  <2> QED BY <2>1 DEF RecordsInv, Rec
<1> QED BY <1>3, <1>5, <1>6 DEF SameRest, Rec

\* A record that is not yet consumed is still in the list.
LEMMA ConsumeRecords ==
    ASSUME NEW f, NEW m, NEW w, NEW x, NEW r, Accounted(f, m), m.id \in Nat,
           PageInv(f, m, w), RecordsInv(f, m, w), w.room = 0, NextOne(f, m, w, r),
           ConsumedOne(f, m, w, x, r)
    PROVE  RecordsInv(f, m, x)
<1>1. /\ x.done = w.done /\ x.last = r /\ x.headId = w.headId /\ x.froot = w.froot
      /\ x.room = w.room /\ x.id = w.id /\ x.count = w.count /\ x.freed = w.freed
  BY DEF ConsumedOne, Changed, TxnFields
<1>2. Rec(f, x) = Rec(f, w) /\ Own(x, f) = Own(w, f)
  <2>1. Own(x, f) = Own(w, f)
    BY OwnKept DEF ConsumedOne
  <2> QED BY <1>1, <2>1 DEF Rec
<1>3. w.last \in Nat /\ r \in Nat /\ r > w.last /\ r \in DOMAIN Listed(f, m)
  BY LastOf, ListedIds DEF PageInv, NextOne
<1>4. w.done \in 0..w.last
  BY DEF RecordsInv
<1>5. x.done \in 0..x.last /\ r > w.done
  BY <1>1, <1>3, <1>4
<1>6. w.froot # NoPage
  <2>1. r \in DOMAIN Rec(f, w)
    BY <1>3, <1>5 DEF RecordsInv, Rec
  <2> QED BY <2>1, NoRecords
<1> QED BY <1>1, <1>2, <1>5, <1>6 DEF RecordsInv, Rec

\* mdb_page_alloc for the free list keeps the invariant of the save.
LEMMA AllocSave ==
    ASSUME NEW f, NEW m, NEW w, NEW x, NEW oldest, NEW n, DOMAIN f = Pages,
           Accounted(f, m), m.id \in Nat, SaveInv(f, m, w), w.pc = "alloc",
           oldest \in 0..m.id, x = Alloc(w, f, oldest, MaxPg, n)
    PROVE  /\ Going2Save(f, m, x) /\ Kept(f, w, x)
           /\ x.last = w.last \/ x.last \in 0..(oldest - 1)
           /\ x.pc = "failed" => ForList(x)
           /\ x.pc = "scan" => x.slot = n /\ x.oldest = m.id
<1>0. SaveWaits(f, m, w)
  BY WaitingSave DEF Waiting
<1>1. /\ PageInv(f, m, w) /\ w.depth = 0 /\ DOMAIN w.dirty # {}
      /\ RecordsInv(f, m, w) /\ w.room = 0 /\ Stepping(w) /\ Asking(w)
      /\ DOMAIN w = TxnFields
  BY <1>0 DEF SaveWaits, PageInv, Held, Shape
<1>2. CASE Fails(w, x)
  <2>1. Changed(w, x, {"pc"}) /\ x.pc = "failed"
    BY <1>2 DEF Fails
  <2>2. /\ DOMAIN x = TxnFields /\ SameTxn(w, x) /\ x.at = w.at /\ x.last = w.last
        /\ x.root = w.root /\ x.dirty = w.dirty /\ x.under = w.under
    BY <2>1 DEF Changed, TxnFields, SameTxn
  <2>3. Kept(f, w, x)
    BY <2>2 DEF Kept, Tells, Own
  <2>4. ForList(x)
    BY <1>1, <2>2 DEF Asking, ForList
  <2> QED BY <1>1, <2>1, <2>2, <2>3, <2>4 DEF Going2Save, SameTxn
<1>3. CASE Looks(m, w, x, n)
  <2>1. /\ Changed(w, x, {"pc", "slot", "oldest"})
        /\ x.pc = "scan" /\ x.slot = n /\ x.oldest = m.id
    BY <1>3 DEF Looks
  <2>2. Changed(w, x, {"pc", "found", "oldest", "slot"})
    BY <2>1 DEF Changed
  <2>3. SaveWaits(f, m, x) /\ KeptRound(f, w, x) /\ DOMAIN x = TxnFields
    BY <1>0, <2>2, WaitsKept
  <2>4. SaveInv(f, m, x)
    BY <2>1, <2>3, WaitingSave DEF Waiting
  <2>5. Kept(f, w, x) /\ x.last = w.last /\ x.depth = 0
    BY <1>1, <2>3 DEF KeptRound, Kept, Stays, SameTxn
  <2> QED BY <2>1, <2>3, <2>4, <2>5 DEF Going2Save
<1>4. CASE Consumes(f, m, w, x, oldest)
  <2>1. PICK r : NextOne(f, m, w, r) /\ r < m.id /\ r < oldest /\ ConsumedOne(f, m, w, x, r)
    BY <1>4 DEF Consumes
  <2>2. PageInv(f, m, x)
    BY <1>1, <2>1, ConsumeOne
  <2>3. RecordsInv(f, m, x)
    BY <1>1, <2>1, ConsumeRecords
  <2>4. /\ x.depth = w.depth /\ x.dirty = w.dirty /\ x.under = w.under /\ x.room = w.room
        /\ x.step = w.step /\ x.freed = w.freed /\ x.at = w.at /\ x.froot = w.froot
        /\ x.id = w.id /\ DOMAIN x = TxnFields /\ x.pc = w.pc
    BY <2>1 DEF ConsumedOne, Changed, TxnFields
  <2>5. SaveWaits(f, m, x)
    BY <1>1, <2>2, <2>3, <2>4 DEF SaveWaits, Stepping, Asking, IsDirty
  <2>6. SaveInv(f, m, x)
    BY <2>4, <2>5, WaitingSave DEF Waiting
  <2>7. x.last \in 0..(oldest - 1) /\ x.root = w.root
    <3>1. r \in Nat /\ x.last = r /\ x.root = w.root
      BY <2>1, ListedIds DEF NextOne, ConsumedOne, Changed, TxnFields
    <3> QED BY <2>1, <3>1
  <2>8. Kept(f, w, x)
    BY <2>4, <2>7 DEF Kept, Tells, Own, SameTxn
  <2> QED BY <1>1, <2>4, <2>6, <2>7, <2>8 DEF Going2Save
<1>5. CASE Takes(f, m, w, x)
  <2>1. PICK y, H, pg : Taken(f, m, w, y, H, pg) /\ x = Receive(y, f, pg)
    BY <1>5 DEF Takes
  <2>2. /\ pg \in H /\ Held(f, m, y, H) /\ H \ {pg} = y.head
        /\ Changed(w, y, {"head", "next"}) /\ Consumed(f, m, y)
    BY <2>1 DEF Taken
  <2>3. RecordsInv(f, m, y)
    BY <1>1, <2>2, RecordsKept DEF RecFields
  <2>4. /\ y.depth = w.depth /\ y.dirty = w.dirty /\ y.under = w.under /\ y.room = w.room
        /\ y.step = w.step /\ y.freed = w.freed /\ y.at = w.at /\ y.froot = w.froot
        /\ y.id = w.id /\ y.root = w.root /\ y.last = w.last
    BY <2>2 DEF Changed, TxnFields
  <2>5. Asking(y)
    BY <1>1, <2>4 DEF Asking, IsDirty
  <2>6. Held(f, m, x, H \ {pg}) /\ Moved(f, y, x) /\ Tells(f, x) = Tells(f, y)
    BY <2>1, <2>2, <2>3, <2>5, ReceiveSave
  <2>7. RecordsInv(f, m, x)
    BY <2>3, <2>6, RecordsMoved
  <2>8. /\ x.head = y.head /\ x.hasHead = y.hasHead /\ x.last = y.last
        /\ DOMAIN x = TxnFields /\ x.depth = y.depth /\ x.id = y.id /\ x.room = y.room
        /\ x.step = y.step /\ x.pc = "save" /\ y.freed \subseteq x.freed
        /\ x.froot # NoPage /\ x.froot \in DOMAIN x.dirty
    BY <2>6 DEF Moved, Changed, TxnFields
  <2>9. PageInv(f, m, x)
    BY <2>2, <2>6, <2>8 DEF PageInv, Consumed
  <2>10. ReservedInv(f, x)
    BY <1>1, <2>4, <2>8 DEF ReservedInv
  <2>11. Writable(x) /\ DOMAIN x.dirty # {}
    BY <2>8 DEF Writable, IsDirty
  <2>12. x.step \in {"loop", "freed"} /\ (x.step = "freed" => x.freed # {})
    BY <1>1, <2>4, <2>8 DEF Stepping
  <2>13. SaveInv(f, m, x)
    BY <1>1, <2>4, <2>7, <2>8, <2>9, <2>10, <2>11, <2>12 DEF SaveInv, Waiting
  <2>14. Kept(f, w, x)
    <3>1. Tells(f, y) = Tells(f, w)
      BY <2>4 DEF Tells, Own
    <3> QED BY <2>4, <2>6, <2>8, <3>1 DEF Kept, SameTxn
  <2> QED BY <1>1, <2>4, <2>8, <2>13, <2>14 DEF Going2Save
<1>6. \/ Fails(w, x) \/ Looks(m, w, x, n) \/ Consumes(f, m, w, x, oldest)
      \/ Takes(f, m, w, x)
  <2>1. SameRest(f, m, w)
    BY <1>1, SaveRest
  <2> QED BY <1>1, <2>1, AllocStep1
<1> QED BY <1>2, <1>3, <1>4, <1>5, <1>6

\* Looking at the readers keeps the invariant of the save.
LEMMA ScanSave ==
    ASSUME NEW f, NEW m, NEW w, NEW x, SaveInv(f, m, w), w.pc = "scan",
           Changed(w, x, {"pc", "found", "oldest", "slot"}), x.pc \in {"alloc", "scan"}
    PROVE  Going2Save(f, m, x) /\ KeptRound(f, w, x)
<1>1. SaveWaits(f, m, w)
  BY WaitingSave DEF Waiting
<1>2. SaveWaits(f, m, x) /\ KeptRound(f, w, x) /\ DOMAIN x = TxnFields
  BY <1>1, WaitsKept
<1>3. SaveInv(f, m, x)
  BY <1>2, WaitingSave DEF Waiting
<1> QED BY <1>1, <1>2, <1>3 DEF Going2Save, KeptRound, SameTxn, SaveWaits

\* The numbers that decide how the loop goes on.
LEMMA SaveNumbers ==
    ASSUME NEW f, NEW m, NEW w, Accounted(f, m), m.id \in Nat, SaveInv(f, m, w)
    PROVE  /\ w.done \in Nat /\ w.last \in Nat /\ w.done <= w.last /\ w.id = m.id + 1
           /\ w.hasHead => w.last < m.id /\ w.last \in DOMAIN Listed(f, m)
           /\ ~w.hasHead => w.last = 0 /\ w.head = {}
           /\ Cardinality(w.head) \in Nat /\ (Cardinality(w.head) = 0 <=> w.head = {})
           /\ Cardinality(w.freed) \in Nat /\ (Cardinality(w.freed) = 0 <=> w.freed = {})
           /\ w.count \in Nat /\ w.count <= Cardinality(w.freed)
           /\ w.room = 0 \/ (w.room = Cardinality(w.head) /\ w.head # {})
           /\ DOMAIN w = TxnFields /\ DOMAIN w.under = {}
<1>1. /\ PageInv(f, m, w) /\ Held(f, m, w, w.head) /\ w.depth = 0 /\ RecordsInv(f, m, w)
      /\ ReservedInv(f, w) /\ DOMAIN w = TxnFields /\ w.id = m.id + 1
      /\ DOMAIN w.under = {} /\ Consumed(f, m, w)
  BY DEF SaveInv, PageInv, Held, Shape
<1>2. w.last \in Nat
  BY <1>1, LastOf
<1>3. w.done \in Nat /\ w.done <= w.last
  BY <1>1, <1>2 DEF RecordsInv
<1>4. IsFiniteSet(w.head) /\ IsFiniteSet(w.freed)
  BY <1>1, Counted
<1>5. /\ Cardinality(w.head) \in Nat /\ (Cardinality(w.head) = 0 <=> w.head = {})
      /\ Cardinality(w.freed) \in Nat /\ (Cardinality(w.freed) = 0 <=> w.freed = {})
  BY <1>4, FS_CardinalityType, FS_EmptySet
<1>6. w.count \in Nat /\ w.count <= Cardinality(w.freed)
  <2>1. CASE w.id \in DOMAIN Rec(f, w)
    <3>1. Rec(f, w)[w.id] \subseteq w.freed /\ w.count = Cardinality(Rec(f, w)[w.id])
      BY <1>1, <2>1 DEF RecordsInv, Rec
    <3> QED BY <1>4, <3>1, FS_Subset, FS_CardinalityType
  <2>2. CASE w.id \notin DOMAIN Rec(f, w)
    <3>1. w.count = 0
      BY <1>1, <2>2 DEF RecordsInv, Rec
    <3> QED BY <1>5, <3>1
  <2> QED BY <2>1, <2>2
<1>7. w.room = 0 \/ (w.room = Cardinality(w.head) /\ w.head # {})
  BY <1>1 DEF ReservedInv
<1> QED BY <1>1, <1>2, <1>3, <1>5, <1>6, <1>7 DEF Consumed

\* Without a page for the list, nothing has to be deleted or reserved.
LEMMA Unwritable ==
    ASSUME NEW f, NEW m, NEW w, Accounted(f, m), m.id \in Nat, SaveInv(f, m, w),
           ~Writable(w), ~TouchFirst(w), w.hasHead
    PROVE  w.done = w.last /\ w.count = 0 /\ w.freed # {}
<1>1. w.froot = NoPage
  BY DEF Writable, TouchFirst
<1>2. DOMAIN Rec(f, w) = {}
  BY <1>1, NoRecords
<1>3. w.done = w.last
  <2>1. w.last \in DOMAIN Listed(f, m) /\ w.done \in Nat /\ w.last \in Nat /\ w.done <= w.last
    BY SaveNumbers
  <2>2. ~ (w.last > w.done)
    BY <1>2, <2>1 DEF SaveInv, RecordsInv, Rec
  <2> QED BY <2>1, <2>2
<1>4. w.count = 0 /\ w.freed # {}
  BY <1>1, <1>2 DEF SaveInv, RecordsInv, Rec
<1> QED BY <1>3, <1>4

Ends(w, x) ==
    /\ w.step = "loop" /\ w.done = w.last /\ w.count = Cardinality(w.freed)
    /\ w.room = Cardinality(w.head)
    /\ x = [Fill(w) EXCEPT !.pc = "flush"]

Asks(w, x) ==
    /\ w.step = "loop" /\ ~Writable(w)
    /\ \/ x = MakeWritable(w, "loop")
       \/ x = MakeWritable(w, "freed") /\ w.freed # {}

Deletes(w, x) ==
    /\ w.step = "loop" /\ Writable(w) /\ w.hasHead /\ w.done < w.last
    /\ x = DeleteFirst(w)

Writes(w, x) ==
    /\ Writable(w) /\ w.room = 0 /\ (w.step = "loop" => w.count < Cardinality(w.freed))
    /\ x = WriteFreed(w)

Reserving(w, x, n) == \E more : x = WriteReserved([w EXCEPT !.room = n, !.more = more])

Reserves(w, x) ==
    /\ w.step = "loop" /\ Writable(w) /\ w.done = w.last /\ w.room = 0
    /\ w.head # {} /\ w.hasHead /\ w.count = Cardinality(w.freed)
    /\ Reserving(w, x, Cardinality(w.head))

\* A round of mdb_freelist_save ends it, asks for a page, deletes a record that was
\* consumed, writes the pages freed or reserves room for those at hand.
LEMMA SaveRound ==
    ASSUME NEW f, NEW m, NEW w, NEW x, Accounted(f, m), m.id \in Nat, SaveInv(f, m, w),
           w.pc = "save", x = FreelistSave(w)
    PROVE  Ends(w, x) \/ Asks(w, x) \/ Deletes(w, x) \/ Writes(w, x) \/ Reserves(w, x)
<1>1. /\ w.done \in Nat /\ w.last \in Nat /\ w.done <= w.last
      /\ Cardinality(w.head) \in Nat /\ (Cardinality(w.head) = 0 <=> w.head = {})
      /\ Cardinality(w.freed) \in Nat /\ (Cardinality(w.freed) = 0 <=> w.freed = {})
      /\ w.count \in Nat /\ w.count <= Cardinality(w.freed)
      /\ w.room = 0 \/ (w.room = Cardinality(w.head) /\ w.head # {})
      /\ ~w.hasHead => w.last = 0 /\ w.head = {}
  BY SaveNumbers
<1>2. /\ w.step \in {"loop", "freed"}
      /\ w.step = "freed" => Writable(w) /\ w.room = 0
      /\ w.room # 0 => w.count = Cardinality(w.freed)
  BY DEF SaveInv, ReservedInv
<1> DEFINE round == Round(w)
<1>3. CASE w.step = "freed"
  <2>1. round = "freed"
    BY <1>3 DEF Round
  <2>2. x = WriteFreed(w)
    BY <1>2, <1>3, <2>1 DEF FreelistSave
  <2> QED BY <1>2, <1>3, <2>2 DEF Writes
<1>4. CASE w.step = "loop" /\ TouchFirst(w)
  <2>1. round = "touch"
    BY <1>4 DEF Round
  <2>2. x = MakeWritable(w, "loop")
    BY <2>1 DEF FreelistSave
  <2> QED BY <1>4, <2>2 DEF Asks, TouchFirst, Writable
<1>5. CASE w.step = "loop" /\ ~TouchFirst(w) /\ w.done < w.last
  <2>1. round = "delete"
    <3>1. ~ (w.done >= w.last)
      BY <1>1, <1>5
    <3> QED BY <1>5, <3>1 DEF Round
  <2>2. w.hasHead
    BY <1>1, <1>5
  <2>3. Writable(w)
    BY <1>1, <1>5, <2>2, Unwritable
  <2>4. x = DeleteFirst(w)
    BY <2>1, <2>3 DEF FreelistSave
  <2> QED BY <1>5, <2>2, <2>3, <2>4 DEF Deletes
<1>6. CASE w.step = "loop" /\ ~TouchFirst(w) /\ w.done >= w.last /\ w.count < Cardinality(w.freed)
  <2>1. round = "freed"
    BY <1>1, <1>6 DEF Round
  <2>2. CASE Writable(w)
    <3>1. x = WriteFreed(w)
      BY <2>1, <2>2 DEF FreelistSave
    <3>2. w.room = 0
      BY <1>1, <1>2, <1>6
    <3> QED BY <1>6, <2>2, <3>1, <3>2 DEF Writes
  <2>3. CASE ~Writable(w)
    <3>1. x = MakeWritable(w, "freed")
      BY <2>1, <2>3 DEF FreelistSave
    <3>2. w.freed # {}
      BY <1>1, <1>6
    <3> QED BY <1>6, <2>3, <3>1, <3>2 DEF Asks
  <2> QED BY <2>2, <2>3
<1>7. CASE /\ w.step = "loop" /\ ~TouchFirst(w) /\ w.done >= w.last
           /\ w.count >= Cardinality(w.freed)
  <2>1. w.done = w.last /\ w.count = Cardinality(w.freed)
    BY <1>1, <1>7
  <2>2. round = IF w.room = Cardinality(w.head) \/ (w.room > Cardinality(w.head) /\ w.more = 0)
                THEN "fill" ELSE "reserve"
    <3>1. ~ (w.done < w.last) /\ ~ (w.count < Cardinality(w.freed))
      BY <1>1, <2>1
    <3> QED BY <1>7, <3>1 DEF Round
  <2>3. CASE w.room = Cardinality(w.head)
    <3>1. x = [Fill(w) EXCEPT !.pc = "flush"]
      BY <2>2, <2>3 DEF FreelistSave
    <3> QED BY <1>7, <2>1, <2>3, <3>1 DEF Ends
  <2>4. CASE w.room # Cardinality(w.head)
    <3>1. w.room = 0 /\ w.head # {} /\ ~ (w.room > Cardinality(w.head)) /\ w.hasHead
      BY <1>1, <2>4
    <3>2. round = "reserve"
      BY <2>2, <2>4, <3>1
    <3>3. Writable(w)
      BY <1>1, <1>7, <2>1, <3>1, Unwritable
    <3>4. x = WriteReserved([w EXCEPT !.room = Cardinality(w.head),
                                      !.more = IF w.room > Cardinality(w.head) THEN @ - 1 ELSE @])
      BY <1>7, <3>2, <3>3 DEF FreelistSave
    <3>5. Reserving(w, x, Cardinality(w.head))
      BY <3>4 DEF Reserving
    <3> QED BY <1>7, <2>1, <3>1, <3>3, <3>5 DEF Reserves
  <2> QED BY <2>3, <2>4
<1> QED BY <1>1, <1>2, <1>3, <1>4, <1>5, <1>6, <1>7

\* A page is asked for.
LEMMA AskFields ==
    ASSUME NEW w, NEW x, NEW s, DOMAIN w = TxnFields, x = MakeWritable(w, s)
    PROVE  /\ Changed(w, x, {"pc", "at", "step"})
           /\ x.pc = "alloc" /\ x.step = s
           /\ w.froot = NoPage => x.at = "new freedb"
           /\ w.froot # NoPage => x.at = "freedb"
BY DEF MakeWritable, Want, Changed, TxnFields

\* Asking for a page keeps the invariant of the save.
LEMMA AskSave ==
    ASSUME NEW f, NEW m, NEW w, NEW x, SaveInv(f, m, w), Asks(w, x)
    PROVE  SaveInv(f, m, x) /\ x.pc = "alloc" /\ KeptRound(f, w, x) /\ DOMAIN x = TxnFields
<1>1. /\ PageInv(f, m, w) /\ w.depth = 0 /\ DOMAIN w.dirty # {}
      /\ RecordsInv(f, m, w) /\ ReservedInv(f, w) /\ DOMAIN w = TxnFields
  BY DEF SaveInv, PageInv, Held, Shape
<1>2. ~Writable(w)
  BY DEF Asks
<1>3. PICK s \in {"loop", "freed"} : x = MakeWritable(w, s) /\ (s = "freed" => w.freed # {})
  BY DEF Asks
<1>4. /\ Changed(w, x, {"pc", "at", "step"})
      /\ x.pc = "alloc" /\ x.step = s
      /\ w.froot = NoPage => x.at = "new freedb"
      /\ w.froot # NoPage => x.at = "freedb"
  BY <1>1, <1>3, AskFields
<1>5. /\ x.depth = w.depth /\ x.dirty = w.dirty /\ x.under = w.under /\ x.room = w.room
      /\ x.freed = w.freed /\ x.froot = w.froot
      /\ x.id = w.id /\ DOMAIN x = TxnFields
  BY <1>4 DEF Changed, TxnFields
<1>6. PageInv(f, m, x)
  <2>1. Changed(w, x, {"pc", "at", "step"})
    BY <1>4
  <2>2. PageInv(f, m, w)
    BY <1>1
  <2> QED BY <2>1, <2>2, PageKept DEF HeldFields
<1>7. RecordsInv(f, m, x)
  <2>1. Changed(w, x, {"pc", "at", "step"})
    BY <1>4
  <2>2. RecordsInv(f, m, w)
    BY <1>1
  <2> QED BY <2>1, <2>2, RecordsKept DEF RecFields
<1>8. w.room = 0
  BY <1>1, <1>2 DEF ReservedInv
<1>9. Stepping(x) /\ Asking(x)
  BY <1>2, <1>3, <1>4, <1>5 DEF Stepping, Asking, IsDirty, Writable
<1>10. SaveWaits(f, m, x)
  BY <1>1, <1>5, <1>6, <1>7, <1>8, <1>9 DEF SaveWaits
<1>11. SaveInv(f, m, x)
  <2>1. Waiting(x)
    BY <1>4 DEF Waiting
  <2> QED BY <1>10, <2>1, WaitingSave
<1>12. KeptRound(f, w, x)
  <2>1. x.root = w.root /\ x.last = w.last
    BY <1>4 DEF Changed, TxnFields
  <2> QED BY <1>5, <2>1 DEF KeptRound, SameTxn, Stays, Tells, Own
<1> QED BY <1>4, <1>5, <1>11, <1>12

\* The list of w is in a dirty page.
LEMMA WritableList ==
    ASSUME NEW f, NEW m, NEW w, DOMAIN f = Pages, Accounted(f, m), SaveInv(f, m, w),
           Writable(w)
    PROVE  /\ w.froot # NoPage /\ w.froot \in DOMAIN w.dirty
           /\ w.dirty[w.froot].rec = Rec(f, w)
           /\ Held(f, m, w, w.head) /\ DOMAIN w = TxnFields
           /\ Fn(Rec(f, w)) /\ DOMAIN Rec(f, w) \subseteq 1..w.id
<1>1. Held(f, m, w, w.head) /\ DOMAIN w.under = {} /\ FreeList(Own(w, f), w.froot, w.id)
      /\ DOMAIN w = TxnFields
  BY DEF SaveInv, PageInv, Held, Shape, RecordsInv
<1>2. w.froot # NoPage /\ w.froot \in DOMAIN w.dirty
  BY <1>1 DEF Writable, IsDirty
<1>3. w.dirty[w.froot].rec = Rec(f, w)
  BY <1>1, <1>2, ListAt
<1>4. Fn(Rec(f, w)) /\ DOMAIN Rec(f, w) \subseteq 1..w.id
  BY <1>1, RecIds
<1> QED BY <1>1, <1>2, <1>3, <1>4

\* A round that writes the list.
ListWrites(w, x, rec) ==
    /\ ListWriting(w, x, rec)
    /\ Fn(rec) /\ DOMAIN rec \subseteq 1..w.id

\* Writing records to the page of the list keeps the account.
LEMMA WrittenSave ==
    ASSUME NEW f, NEW m, NEW w, NEW x, NEW rec, DOMAIN f = Pages, Accounted(f, m),
           SaveInv(f, m, w), ListWrites(w, x, rec)
    PROVE  /\ PageInv(f, m, x) /\ Rec(f, x) = rec /\ FreeList(Own(x, f), x.froot, x.id)
           /\ x.depth = 0 /\ DOMAIN x.dirty # {} /\ Writable(x)
           /\ DOMAIN x = TxnFields /\ KeptRound(f, w, x) /\ DOMAIN x.dirty = DOMAIN w.dirty
<1>1. /\ PageInv(f, m, w) /\ Held(f, m, w, w.head) /\ w.depth = 0 /\ DOMAIN w.dirty # {}
  BY DEF SaveInv, PageInv
<1>2. ListWriting(w, x, rec) /\ Fn(rec) /\ DOMAIN rec \subseteq 1..w.id
  BY DEF ListWrites
<1>3. Held(f, m, x, w.head) /\ ListIs(f, x, rec) /\ DOMAIN x.dirty = DOMAIN w.dirty
      /\ Tells(f, x) = Tells(f, w)
  BY <1>1, <1>2, ListWritten
<1>4. /\ x.depth = w.depth /\ x.id = w.id /\ x.head = w.head /\ x.hasHead = w.hasHead
      /\ x.last = w.last /\ DOMAIN x = TxnFields /\ x.froot = w.froot
      /\ w.froot # NoPage /\ w.froot \in DOMAIN w.dirty
  BY <1>2 DEF ListWriting, Changed, TxnFields
<1>5. PageInv(f, m, x)
  BY <1>1, <1>3, <1>4 DEF PageInv, Consumed
<1>6. Rec(f, x) = rec /\ FreeList(Own(x, f), x.froot, x.id)
  BY <1>2, <1>3, <1>4, ListRecords
<1>7. KeptRound(f, w, x)
  BY <1>3, <1>4 DEF KeptRound, SameTxn, Stays
<1> QED BY <1>1, <1>3, <1>4, <1>5, <1>6, <1>7 DEF Writable, IsDirty

\* The record of the freed pages is written.
LEMMA WriteFields ==
    ASSUME NEW w, NEW rec, DOMAIN w = TxnFields, rec = w.dirty[w.froot].rec
    PROVE  LET x == WriteFreed(w) IN
           /\ Changed(w, x, {"dirty", "step", "count"})
           /\ x.step = "loop" /\ x.count = Cardinality(w.freed)
           /\ x.dirty = [w.dirty EXCEPT ![w.froot] = FreeLeaf(With(rec, w.id, w.freed))]
<1> DEFINE v == FreeLeaf(With(w.dirty[w.froot].rec, w.id, w.freed))
<1>1. WriteFreed(w) = [[w EXCEPT !.dirty[w.froot] = v, !.step = "loop"]
                         EXCEPT !.count = Cardinality(w.freed)]
  BY DEF WriteFreed, SetRecords
<1> HIDE DEF v
<1>2. LET x == WriteFreed(w) IN
           /\ Changed(w, x, {"dirty", "step", "count"})
           /\ x.step = "loop" /\ x.count = Cardinality(w.freed)
           /\ x.dirty = [w.dirty EXCEPT ![w.froot] = v]
  BY <1>1 DEF Changed, TxnFields
<1> QED BY <1>2 DEF v

\* Writing the record of the pages freed keeps the invariant of the save.
LEMMA WriteSave ==
    ASSUME NEW f, NEW m, NEW w, NEW x, DOMAIN f = Pages, Accounted(f, m), m.id \in Nat,
           SaveInv(f, m, w), w.pc = "save", Writes(w, x)
    PROVE  SaveInv(f, m, x) /\ x.pc = "save" /\ KeptRound(f, w, x) /\ DOMAIN x = TxnFields
<1>1. Writable(w) /\ w.room = 0 /\ x = WriteFreed(w)
  BY DEF Writes
<1>2. /\ w.froot # NoPage /\ w.froot \in DOMAIN w.dirty
      /\ w.dirty[w.froot].rec = Rec(f, w)
      /\ Held(f, m, w, w.head) /\ DOMAIN w = TxnFields
      /\ Fn(Rec(f, w)) /\ DOMAIN Rec(f, w) \subseteq 1..w.id
  BY <1>1, WritableList
<1> DEFINE new == With(Rec(f, w), w.id, w.freed)
<1>3. /\ Changed(w, x, {"dirty", "step", "count"})
      /\ x.step = "loop" /\ x.count = Cardinality(w.freed)
      /\ x.dirty = [w.dirty EXCEPT ![w.froot] = FreeLeaf(new)]
  BY <1>1, <1>2, WriteFields
<1>4. /\ w.done \in Nat /\ w.last \in Nat /\ w.done <= w.last /\ w.id = m.id + 1
      /\ w.hasHead => w.last < m.id /\ w.last \in DOMAIN Listed(f, m)
      /\ ~w.hasHead => w.last = 0 /\ w.head = {}
  BY SaveNumbers
<1>5. /\ DOMAIN new = DOMAIN Rec(f, w) \cup {w.id} /\ new[w.id] = w.freed /\ Fn(new)
      /\ \A r \in DOMAIN Rec(f, w) \ {w.id} : new[r] = Rec(f, w)[r]
  BY DEF With, Fn
<1> HIDE DEF new
<1>6. ListWrites(w, x, new)
  <2>1. Changed(w, x, {"pc", "dirty", "step", "done", "count", "headId", "room", "more"})
    BY <1>3 DEF Changed
  <2>2. DOMAIN new \subseteq 1..w.id
    BY <1>2, <1>4, <1>5
  <2> QED BY <1>2, <1>3, <1>5, <2>1, <2>2 DEF ListWrites, ListWriting
<1>7. /\ PageInv(f, m, x) /\ Rec(f, x) = new /\ FreeList(Own(x, f), x.froot, x.id)
      /\ x.depth = 0 /\ DOMAIN x.dirty # {} /\ Writable(x)
      /\ DOMAIN x = TxnFields /\ KeptRound(f, w, x)
  BY <1>6, WrittenSave
<1>8. /\ x.done = w.done /\ x.last = w.last /\ x.headId = w.headId /\ x.room = w.room
      /\ x.freed = w.freed /\ x.hasHead = w.hasHead /\ x.id = w.id /\ x.pc = w.pc
      /\ x.froot = w.froot
  BY <1>3 DEF Changed, TxnFields
<1>9. /\ w.done \in 0..w.last /\ w.headId = w.done
      /\ w.room = 0 => w.done \notin DOMAIN Rec(f, w)
      /\ \A r \in DOMAIN Rec(f, w) \ {w.id, w.done} : r \in DOMAIN Listed(f, m) /\ r > w.done
      /\ \A r \in DOMAIN Listed(f, m) :
            r > w.done => r \in DOMAIN Rec(f, w) /\ Rec(f, w)[r] = Listed(f, m)[r]
  BY DEF SaveInv, RecordsInv, Rec
<1>10. w.done # w.id /\ \A r \in DOMAIN Listed(f, m) : r # w.id
  BY <1>4, ListedIds
<1>11. RecordsInv(f, m, x)
  <2>1. x.done \notin DOMAIN new
    BY <1>1, <1>5, <1>8, <1>9, <1>10
  <2>2. \A r \in DOMAIN new \ {x.id, x.done} : r \in DOMAIN Listed(f, m) /\ r > x.done
    BY <1>5, <1>8, <1>9
  <2>3. \A r \in DOMAIN Listed(f, m) : r > x.done => r \in DOMAIN new /\ new[r] = Listed(f, m)[r]
    BY <1>5, <1>8, <1>9, <1>10
  <2>4. new[x.id] \subseteq x.freed /\ x.count = Cardinality(new[x.id]) /\ x.id \in DOMAIN new
    BY <1>3, <1>5, <1>8
  <2>5. x.froot # NoPage /\ x.done \in 0..x.last /\ x.headId = x.done
    BY <1>2, <1>8, <1>9
  <2> QED BY <1>7, <2>1, <2>2, <2>3, <2>4, <2>5 DEF RecordsInv, Rec
<1>12. ReservedInv(f, x)
  BY <1>1, <1>8 DEF ReservedInv
<1> QED BY <1>3, <1>7, <1>8, <1>11, <1>12 DEF SaveInv, Waiting

\* A record below me_pglast is deleted.
Deleted(w, x, r) ==
    x.done = r /\ x.headId = r /\ x.room = 0 /\ x.step = "loop"

\* What deleting the first record changes.
LEMMA DeleteFields ==
    ASSUME NEW w, NEW x, NEW rec, NEW r, DOMAIN w = TxnFields, w.froot # NoPage,
           w.froot \in DOMAIN w.dirty, rec = w.dirty[w.froot].rec, r = Min(DOMAIN rec),
           x = DeleteFirst(w)
    PROVE  /\ Deleted(w, x, r)
           /\ DOMAIN rec = {r} => ListDropping(w, x)
           /\ DOMAIN rec # {r} =>
                /\ Changed(w, x, {"dirty", "step", "done", "headId", "room"})
                /\ x.dirty = [w.dirty EXCEPT ![w.froot] = FreeLeaf(Without(rec, r))]
<1> DEFINE y == [w EXCEPT !.done = r, !.headId = r, !.room = 0, !.step = "loop"]
           none == FreeLeaf(EmptyMap)
           some == FreeLeaf(Without(rec, r))
<1>1. x = IF DOMAIN rec = {r}
          THEN [y EXCEPT !.froot = NoPage, !.freed = @ \cup {w.froot},
                         !.dirty[w.froot] = none]
          ELSE [y EXCEPT !.dirty[y.froot] = some, !.step = "loop"]
  BY DEF DeleteFirst, SetRecords
<1> HIDE DEF none, some
<1>2. /\ Changed(w, y, {"step", "done", "headId", "room"}) /\ Deleted(w, y, r)
      /\ y.froot = w.froot /\ y.dirty = w.dirty /\ y.freed = w.freed
  BY DEF Changed, TxnFields, Deleted
<1> HIDE DEF y
<1>3. CASE DOMAIN rec = {r}
  <2>1. x = [y EXCEPT !.froot = NoPage, !.freed = @ \cup {w.froot}, !.dirty[w.froot] = none]
    BY <1>1, <1>3
  <2>2. /\ Changed(y, x, {"froot", "freed", "dirty"}) /\ x.froot = NoPage
        /\ x.freed = y.freed \cup {w.froot}
        /\ x.dirty = [y.dirty EXCEPT ![w.froot] = none]
    BY <1>2, <2>1 DEF Changed, TxnFields
  <2>3. /\ Changed(w, x, {"dirty", "step", "done", "headId", "room", "froot", "freed"})
        /\ Deleted(w, x, r)
    BY <1>2, <2>2 DEF Changed, TxnFields, Deleted
  <2>4. x.freed = w.freed \cup {w.froot} /\ x.dirty = [w.dirty EXCEPT ![w.froot] = none]
    BY <1>2, <2>2
  <2> QED BY <1>3, <2>2, <2>3, <2>4 DEF ListDropping
<1>4. CASE DOMAIN rec # {r}
  <2>1. x = [y EXCEPT !.dirty[y.froot] = some, !.step = "loop"]
    BY <1>1, <1>4
  <2>2. /\ Changed(y, x, {"dirty", "step"}) /\ x.step = "loop"
        /\ x.dirty = [y.dirty EXCEPT ![y.froot] = some]
    BY <1>2, <2>1 DEF Changed, TxnFields
  <2>3. /\ Changed(w, x, {"dirty", "step", "done", "headId", "room"})
        /\ Deleted(w, x, r)
    BY <1>2, <2>2 DEF Changed, TxnFields, Deleted
  <2>4. x.dirty = [w.dirty EXCEPT ![w.froot] = some]
    BY <1>2, <2>2
  <2> QED BY <1>4, <2>3, <2>4 DEF some
<1> QED BY <1>3, <1>4

\* The first record is a committed one that was consumed.
FirstConsumed(f, m, w, r) ==
    /\ r \in DOMAIN Listed(f, m) /\ r \in DOMAIN Rec(f, w)
    /\ r > w.done /\ r <= w.last /\ r # w.id /\ r \in Nat
    /\ \A s \in DOMAIN Rec(f, w) : r <= s

\* The first record of the list is one that was consumed.
LEMMA FirstRecord ==
    ASSUME NEW f, NEW m, NEW w, Accounted(f, m), m.id \in Nat, SaveInv(f, m, w),
           w.hasHead, w.done < w.last
    PROVE  FirstConsumed(f, m, w, Min(DOMAIN Rec(f, w))) /\ w.room = 0
<1>1. /\ w.done \in Nat /\ w.last \in Nat /\ w.id = m.id + 1
      /\ w.last < m.id /\ w.last \in DOMAIN Listed(f, m)
  BY SaveNumbers
<1>2. w.room = 0
  <2>1. w.done # w.last
    BY <1>1
  <2>2. ReservedInv(f, w)
    BY DEF SaveInv
  <2> QED BY <2>1, <2>2 DEF ReservedInv
<1>3. /\ w.done \notin DOMAIN Rec(f, w)
      /\ \A r \in DOMAIN Rec(f, w) \ {w.id, w.done} : r \in DOMAIN Listed(f, m) /\ r > w.done
      /\ w.last \in DOMAIN Rec(f, w)
  BY <1>1, <1>2 DEF SaveInv, RecordsInv, Rec
<1>4. DOMAIN Rec(f, w) \subseteq 1..w.id
  BY RecIds DEF SaveInv, RecordsInv
<1>5. DOMAIN Rec(f, w) \subseteq Nat /\ DOMAIN Rec(f, w) # {}
  BY <1>1, <1>3, <1>4
<1> DEFINE r == Min(DOMAIN Rec(f, w))
<1>6. r \in DOMAIN Rec(f, w) /\ \A s \in DOMAIN Rec(f, w) : r <= s
  BY <1>5, LeastOf
<1> HIDE DEF r
<1>7. r <= w.last /\ r \in Nat
  BY <1>3, <1>5, <1>6
<1>8. r # w.id /\ r # w.done
  BY <1>1, <1>3, <1>6, <1>7
<1>9. r \in DOMAIN Listed(f, m) /\ r > w.done
  BY <1>3, <1>6, <1>8
<1>10. FirstConsumed(f, m, w, r)
  BY <1>6, <1>7, <1>8, <1>9 DEF FirstConsumed
<1> QED BY <1>2, <1>10 DEF r

\* What is left of the records.
LEMMA DeleteRecords ==
    ASSUME NEW f, NEW m, NEW w, NEW x, NEW r, Accounted(f, m), m.id \in Nat,
           SaveInv(f, m, w), w.room = 0, FirstConsumed(f, m, w, r), Deleted(w, x, r),
           x.last = w.last, x.id = w.id, x.count = w.count, w.freed \subseteq x.freed,
           x.froot = NoPage => x.freed # {},
           FreeList(Own(x, f), x.froot, x.id),
           DOMAIN Rec(f, x) = DOMAIN Rec(f, w) \ {r},
           \A s \in DOMAIN Rec(f, x) : Rec(f, x)[s] = Rec(f, w)[s]
    PROVE  RecordsInv(f, m, x)
<1>1. /\ w.done \in Nat /\ w.last \in Nat /\ w.id = m.id + 1
  BY SaveNumbers
<1>2. /\ w.done \notin DOMAIN Rec(f, w)
      /\ \A s \in DOMAIN Rec(f, w) \ {w.id, w.done} : s \in DOMAIN Listed(f, m) /\ s > w.done
      /\ \A s \in DOMAIN Listed(f, m) :
            s > w.done => s \in DOMAIN Rec(f, w) /\ Rec(f, w)[s] = Listed(f, m)[s]
      /\ IF w.id \in DOMAIN Rec(f, w)
         THEN Rec(f, w)[w.id] \subseteq w.freed /\ w.count = Cardinality(Rec(f, w)[w.id])
         ELSE w.count = 0
  BY DEF SaveInv, RecordsInv, Rec
<1>3. /\ r \in DOMAIN Listed(f, m) /\ r \in DOMAIN Rec(f, w)
      /\ r > w.done /\ r <= w.last /\ r # w.id /\ r \in Nat
      /\ \A s \in DOMAIN Rec(f, w) : r <= s
  BY DEF FirstConsumed
<1>4. DOMAIN Rec(f, w) \subseteq Nat
  <2>1. DOMAIN Rec(f, w) \subseteq 1..w.id
    BY RecIds DEF SaveInv, RecordsInv
  <2> QED BY <1>1, <2>1
<1>5. x.done = r /\ x.headId = r /\ x.room = 0
  BY DEF Deleted
<1>6. x.done \in 0..x.last /\ x.done \notin DOMAIN Rec(f, x)
  BY <1>1, <1>3, <1>5
<1>7. \A s \in DOMAIN Rec(f, x) \ {x.id, x.done} : s \in DOMAIN Listed(f, m) /\ s > x.done
  <2>1. ASSUME NEW s \in DOMAIN Rec(f, x) \ {x.id, x.done}
        PROVE  s \in DOMAIN Listed(f, m) /\ s > x.done
    <3>1. s \in DOMAIN Rec(f, w) /\ s # w.id /\ s # w.done /\ s # r /\ s \in Nat
      BY <1>2, <1>4, <1>5
    <3> QED BY <1>2, <1>3, <1>5, <3>1
  <2> QED BY <2>1
<1>8. \A s \in DOMAIN Listed(f, m) :
         s > x.done => s \in DOMAIN Rec(f, x) /\ Rec(f, x)[s] = Listed(f, m)[s]
  <2>1. ASSUME NEW s \in DOMAIN Listed(f, m), s > x.done
        PROVE  s \in DOMAIN Rec(f, x) /\ Rec(f, x)[s] = Listed(f, m)[s]
    <3>1. s \in Nat
      BY ListedIds
    <3>2. s > w.done /\ s # r
      BY <1>1, <1>3, <1>5, <2>1, <3>1
    <3> QED BY <1>2, <3>2
  <2> QED BY <2>1
<1>9. IF x.id \in DOMAIN Rec(f, x)
      THEN Rec(f, x)[x.id] \subseteq x.freed /\ x.count = Cardinality(Rec(f, x)[x.id])
      ELSE x.count = 0
  BY <1>2, <1>3
<1> QED BY <1>5, <1>6, <1>7, <1>8, <1>9 DEF RecordsInv, Rec

\* Deleting a consumed record keeps the invariant of the save, and counts it.
LEMMA DeleteSave ==
    ASSUME NEW f, NEW m, NEW w, NEW x, DOMAIN f = Pages, Accounted(f, m), m.id \in Nat,
           SaveInv(f, m, w), w.pc = "save", Deletes(w, x)
    PROVE  /\ SaveInv(f, m, x) /\ x.pc = "save" /\ KeptRound(f, w, x) /\ DOMAIN x = TxnFields
           /\ x.done > w.done /\ x.last = w.last
<1>1. Writable(w) /\ w.hasHead /\ w.done < w.last /\ x = DeleteFirst(w)
  BY DEF Deletes
<1>2. /\ w.froot # NoPage /\ w.froot \in DOMAIN w.dirty
      /\ w.dirty[w.froot].rec = Rec(f, w)
      /\ Held(f, m, w, w.head) /\ DOMAIN w = TxnFields
      /\ Fn(Rec(f, w)) /\ DOMAIN Rec(f, w) \subseteq 1..w.id
  BY <1>1, WritableList
<1> DEFINE rec == Rec(f, w)
           r == Min(DOMAIN rec)
<1>3. FirstConsumed(f, m, w, r) /\ w.room = 0
  BY <1>1, FirstRecord
<1>4. /\ Deleted(w, x, r)
      /\ DOMAIN rec = {r} => ListDropping(w, x)
      /\ DOMAIN rec # {r} =>
           /\ Changed(w, x, {"dirty", "step", "done", "headId", "room"})
           /\ x.dirty = [w.dirty EXCEPT ![w.froot] = FreeLeaf(Without(rec, r))]
  BY <1>1, <1>2, DeleteFields
<1> HIDE DEF r, rec
<1>5. x.done = r /\ x.room = 0 /\ x.step = "loop" /\ r > w.done
  BY <1>3, <1>4 DEF Deleted, FirstConsumed
<1>6. PageInv(f, m, w) /\ w.depth = 0 /\ DOMAIN w.dirty # {}
  BY DEF SaveInv
<1>7. CASE DOMAIN rec = {r}
  <2>1. ListDropping(w, x)
    BY <1>4, <1>7
  <2>2. /\ Held(f, m, x, w.head) /\ DOMAIN x.dirty = DOMAIN w.dirty
        /\ Tells(f, x) = Tells(f, w)
    BY <1>2, <2>1, ListDropped
  <2>3. /\ x.depth = w.depth /\ x.id = w.id /\ x.head = w.head /\ x.hasHead = w.hasHead
        /\ x.last = w.last /\ DOMAIN x = TxnFields /\ x.froot = NoPage /\ x.pc = w.pc
        /\ x.count = w.count /\ x.freed = w.freed \cup {w.froot}
    BY <2>1 DEF ListDropping, Changed, TxnFields
  <2>4. PageInv(f, m, x)
    BY <1>6, <2>2, <2>3 DEF PageInv, Consumed
  <2>5. /\ FreeList(Own(x, f), x.froot, x.id) /\ DOMAIN Rec(f, x) = {}
    BY <2>3, NoRecords
  <2>6. RecordsInv(f, m, x)
    <3>1. DOMAIN Rec(f, x) = DOMAIN Rec(f, w) \ {r}
      BY <1>7, <2>5 DEF rec
    <3>2. \A s \in DOMAIN Rec(f, x) : Rec(f, x)[s] = Rec(f, w)[s]
      BY <2>5
    <3>3. w.freed \subseteq x.freed /\ (x.froot = NoPage => x.freed # {})
      BY <2>3
    <3> QED BY <1>3, <1>4, <2>3, <2>5, <3>1, <3>2, <3>3, DeleteRecords
  <2>7. ReservedInv(f, x)
    BY <1>5 DEF ReservedInv
  <2>8. KeptRound(f, w, x)
    BY <2>2, <2>3 DEF KeptRound, SameTxn, Stays
  <2> QED BY <1>5, <1>6, <2>2, <2>3, <2>4, <2>6, <2>7, <2>8 DEF SaveInv, Waiting
<1>8. CASE DOMAIN rec # {r}
  <2>1. /\ Changed(w, x, {"dirty", "step", "done", "headId", "room"})
        /\ x.dirty = [w.dirty EXCEPT ![w.froot] = FreeLeaf(Without(rec, r))]
    BY <1>4, <1>8
  <2> DEFINE new == Without(rec, r)
  <2>2. /\ DOMAIN new = DOMAIN rec \ {r} /\ Fn(new)
        /\ \A s \in DOMAIN new : new[s] = rec[s]
    BY DEF Without, Fn
  <2> HIDE DEF new
  <2>3. ListWrites(w, x, new)
    <3>1. Changed(w, x, {"pc", "dirty", "step", "done", "count", "headId", "room", "more"})
      BY <2>1 DEF Changed
    <3>2. DOMAIN new \subseteq 1..w.id
      BY <1>2, <2>2 DEF rec
    <3>3. x.dirty = [w.dirty EXCEPT ![w.froot] = FreeLeaf(new)]
      BY <2>1 DEF new
    <3> QED BY <1>2, <2>2, <3>1, <3>2, <3>3 DEF ListWrites, ListWriting
  <2>4. /\ PageInv(f, m, x) /\ Rec(f, x) = new /\ FreeList(Own(x, f), x.froot, x.id)
        /\ x.depth = 0 /\ DOMAIN x.dirty # {} /\ Writable(x)
        /\ DOMAIN x = TxnFields /\ KeptRound(f, w, x)
    BY <2>3, WrittenSave
  <2>5. /\ x.last = w.last /\ x.freed = w.freed /\ x.id = w.id /\ x.pc = w.pc
        /\ x.froot = w.froot /\ x.count = w.count
    BY <2>1 DEF Changed, TxnFields
  <2>6. RecordsInv(f, m, x)
    <3>1. DOMAIN Rec(f, x) = DOMAIN Rec(f, w) \ {r}
      BY <2>2, <2>4 DEF rec
    <3>2. \A s \in DOMAIN Rec(f, x) : Rec(f, x)[s] = Rec(f, w)[s]
      BY <2>2, <2>4 DEF rec
    <3>3. w.freed \subseteq x.freed /\ (x.froot = NoPage => x.freed # {})
      BY <1>2, <2>5
    <3> QED BY <1>3, <1>4, <2>4, <2>5, <3>1, <3>2, <3>3, DeleteRecords
  <2>7. ReservedInv(f, x)
    BY <1>5 DEF ReservedInv
  <2> QED BY <1>5, <2>4, <2>5, <2>6, <2>7 DEF SaveInv, Waiting
<1> QED BY <1>7, <1>8

\* Room is reserved for the pages at hand.
LEMMA ReserveFields ==
    ASSUME NEW w, NEW x, NEW n, NEW rec, DOMAIN w = TxnFields,
           rec = w.dirty[w.froot].rec, Reserving(w, x, n)
    PROVE  /\ Changed(w, x, {"dirty", "step", "room", "more"})
           /\ x.step = "loop" /\ x.room = n
           /\ x.dirty = [w.dirty EXCEPT ![w.froot] = FreeLeaf(With(rec, w.headId, {}))]
<1>0. PICK more : x = WriteReserved([w EXCEPT !.room = n, !.more = more])
  BY DEF Reserving
<1> DEFINE y == [w EXCEPT !.room = n, !.more = more]
           v == FreeLeaf(With(y.dirty[y.froot].rec, y.headId, {}))
<1>1. x = [y EXCEPT !.dirty[y.froot] = v, !.step = "loop"]
  BY <1>0 DEF WriteReserved, SetRecords
<1>2. v = FreeLeaf(With(rec, w.headId, {}))
  BY DEF TxnFields
<1> HIDE DEF v
<1>3. /\ Changed(w, y, {"room", "more"}) /\ y.room = n
      /\ y.froot = w.froot /\ y.dirty = w.dirty
  BY DEF Changed, TxnFields
<1> HIDE DEF y
<1>4. /\ Changed(y, x, {"dirty", "step"}) /\ x.step = "loop"
      /\ x.dirty = [y.dirty EXCEPT ![y.froot] = v]
  BY <1>1, <1>3 DEF Changed, TxnFields
<1>5. Changed(w, x, {"dirty", "step", "room", "more"}) /\ x.room = n
  BY <1>3, <1>4 DEF Changed, TxnFields
<1> QED BY <1>2, <1>3, <1>4, <1>5

\* Reserving room for the pages at hand keeps the invariant of the save.
LEMMA ReserveSave ==
    ASSUME NEW f, NEW m, NEW w, NEW x, DOMAIN f = Pages, Accounted(f, m), m.id \in Nat,
           SaveInv(f, m, w), w.pc = "save", Reserves(w, x)
    PROVE  /\ SaveInv(f, m, x) /\ x.pc = "save" /\ KeptRound(f, w, x) /\ DOMAIN x = TxnFields
           /\ x.room = Cardinality(x.head) /\ x.room # w.room
<1>1. /\ Writable(w) /\ w.done = w.last /\ w.room = 0
      /\ w.head # {} /\ w.hasHead /\ w.count = Cardinality(w.freed)
  BY DEF Reserves
<1>2. /\ w.froot # NoPage /\ w.froot \in DOMAIN w.dirty
      /\ w.dirty[w.froot].rec = Rec(f, w)
      /\ Held(f, m, w, w.head) /\ DOMAIN w = TxnFields
      /\ Fn(Rec(f, w)) /\ DOMAIN Rec(f, w) \subseteq 1..w.id
  BY <1>1, WritableList
<1>3. /\ w.last \in Nat /\ w.id = m.id + 1 /\ w.last < m.id
      /\ w.last \in DOMAIN Listed(f, m)
      /\ Cardinality(w.head) \in Nat /\ Cardinality(w.head) # 0
  BY <1>1, SaveNumbers
<1>4. Reserving(w, x, Cardinality(w.head))
  BY DEF Reserves
<1> DEFINE new == With(Rec(f, w), w.headId, {})
<1>5. /\ Changed(w, x, {"dirty", "step", "room", "more"})
      /\ x.step = "loop" /\ x.room = Cardinality(w.head)
      /\ x.dirty = [w.dirty EXCEPT ![w.froot] = FreeLeaf(new)]
  BY <1>2, <1>4, ReserveFields
<1>6. /\ DOMAIN new = DOMAIN Rec(f, w) \cup {w.headId} /\ new[w.headId] = {} /\ Fn(new)
      /\ \A r \in DOMAIN Rec(f, w) \ {w.headId} : new[r] = Rec(f, w)[r]
  BY DEF With, Fn
<1> HIDE DEF new
<1>7. /\ w.headId = w.done /\ w.done \notin DOMAIN Rec(f, w)
      /\ \A r \in DOMAIN Rec(f, w) \ {w.id, w.done} : r \in DOMAIN Listed(f, m) /\ r > w.done
      /\ \A r \in DOMAIN Listed(f, m) :
            r > w.done => r \in DOMAIN Rec(f, w) /\ Rec(f, w)[r] = Listed(f, m)[r]
      /\ IF w.id \in DOMAIN Rec(f, w)
         THEN Rec(f, w)[w.id] \subseteq w.freed /\ w.count = Cardinality(Rec(f, w)[w.id])
         ELSE w.count = 0
  BY <1>1 DEF SaveInv, RecordsInv, Rec
<1>8. w.done >= 1 /\ w.done # w.id
  BY <1>1, <1>3, ListedIds
<1>9. ListWrites(w, x, new)
  <2>1. Changed(w, x, {"pc", "dirty", "step", "done", "count", "headId", "room", "more"})
    BY <1>5 DEF Changed
  <2>2. w.headId \in 1..w.id
    BY <1>1, <1>3, <1>7, <1>8
  <2>3. DOMAIN new \subseteq 1..w.id
    BY <1>2, <1>6, <2>2
  <2> QED BY <1>2, <1>5, <1>6, <2>1, <2>3 DEF ListWrites, ListWriting
<1>10. /\ PageInv(f, m, x) /\ Rec(f, x) = new /\ FreeList(Own(x, f), x.froot, x.id)
       /\ x.depth = 0 /\ DOMAIN x.dirty # {} /\ Writable(x)
       /\ DOMAIN x = TxnFields /\ KeptRound(f, w, x)
  BY <1>9, WrittenSave
<1>11. /\ x.done = w.done /\ x.last = w.last /\ x.headId = w.headId /\ x.count = w.count
       /\ x.freed = w.freed /\ x.hasHead = w.hasHead /\ x.id = w.id /\ x.pc = w.pc
       /\ x.froot = w.froot /\ x.head = w.head
  BY <1>5 DEF Changed, TxnFields
<1>12. RecordsInv(f, m, x)
  <2>1. x.room # 0
    BY <1>3, <1>5
  <2>2. \A r \in DOMAIN new \ {x.id, x.done} : r \in DOMAIN Listed(f, m) /\ r > x.done
    BY <1>6, <1>7, <1>11
  <2>3. \A r \in DOMAIN Listed(f, m) : r > x.done => r \in DOMAIN new /\ new[r] = Listed(f, m)[r]
    BY <1>6, <1>7, <1>11
  <2>4. IF x.id \in DOMAIN new
        THEN new[x.id] \subseteq x.freed /\ x.count = Cardinality(new[x.id])
        ELSE x.count = 0
    BY <1>6, <1>7, <1>8, <1>11
  <2>5. x.froot # NoPage /\ x.done \in 0..x.last /\ x.headId = x.done
    BY <1>1, <1>2, <1>3, <1>7, <1>11
  <2> QED BY <1>10, <2>1, <2>2, <2>3, <2>4, <2>5 DEF RecordsInv, Rec
<1>13. ReservedInv(f, x)
  <2>1. x.done \in DOMAIN Rec(f, x) /\ Rec(f, x)[x.done] = {}
    BY <1>6, <1>7, <1>10, <1>11
  <2> QED BY <1>1, <1>5, <1>10, <1>11, <2>1 DEF ReservedInv, Rec
<1>14. x.room = Cardinality(x.head) /\ x.room # w.room
  BY <1>1, <1>3, <1>5, <1>11
<1> QED BY <1>5, <1>10, <1>11, <1>12, <1>13, <1>14 DEF SaveInv, Waiting

\* The free list says all that there is to say.
Final(f, m, w, rec) ==
    /\ w.last \in Nat /\ w.last # w.id
    /\ w.id \in DOMAIN rec => rec[w.id] = w.freed
    /\ w.id \notin DOMAIN rec => w.freed = {}
    /\ w.last \in DOMAIN rec => rec[w.last] = w.head
    /\ w.last \notin DOMAIN rec => w.head = {}
    /\ \A r \in DOMAIN rec \ {w.id, w.last} :
          r \in DOMAIN Listed(f, m) /\ r > w.last /\ rec[r] = Listed(f, m)[r]
    /\ \A r \in DOMAIN Listed(f, m) :
          r > w.last => r \in DOMAIN rec \ {w.id, w.last} /\ rec[r] = Listed(f, m)[r]

\* The records at the end are those not consumed, the pages at hand and the
\* pages freed.
LEMMA FinalUnion ==
    ASSUME NEW f, NEW m, NEW w, NEW rec, Final(f, m, w, rec)
    PROVE  UNION {rec[r] : r \in DOMAIN rec} = Later(f, m, w) \cup w.head \cup w.freed
<1>1. /\ w.id \in DOMAIN rec => rec[w.id] = w.freed
      /\ w.id \notin DOMAIN rec => w.freed = {}
      /\ w.last \in DOMAIN rec => rec[w.last] = w.head
      /\ w.last \notin DOMAIN rec => w.head = {}
      /\ \A r \in DOMAIN rec \ {w.id, w.last} :
            r \in DOMAIN Listed(f, m) /\ r > w.last /\ rec[r] = Listed(f, m)[r]
      /\ \A r \in DOMAIN Listed(f, m) :
            r > w.last => r \in DOMAIN rec \ {w.id, w.last} /\ rec[r] = Listed(f, m)[r]
  BY DEF Final
<1>2. ASSUME NEW pg, NEW r \in DOMAIN rec, pg \in rec[r]
      PROVE  pg \in Later(f, m, w) \cup w.head \cup w.freed
  <2>1. CASE r = w.id \/ r = w.last
    BY <1>1, <1>2, <2>1
  <2>2. CASE r # w.id /\ r # w.last
    BY <1>1, <1>2, <2>2 DEF Later
  <2> QED BY <2>1, <2>2
<1>3. ASSUME NEW pg \in Later(f, m, w)
      PROVE  pg \in UNION {rec[r] : r \in DOMAIN rec}
  <2>1. PICK r \in DOMAIN Listed(f, m) : r > w.last /\ pg \in Listed(f, m)[r]
    BY DEF Later
  <2>2. r \in DOMAIN rec /\ rec[r] = Listed(f, m)[r]
    BY <1>1, <2>1
  <2> QED BY <2>1, <2>2
<1>4. w.head \subseteq UNION {rec[r] : r \in DOMAIN rec}
  BY <1>1
<1>5. w.freed \subseteq UNION {rec[r] : r \in DOMAIN rec}
  BY <1>1
<1> QED BY <1>2, <1>3, <1>4, <1>5

\* No page is in two records at the end.
LEMMA FinalDisjoint ==
    ASSUME NEW f, NEW m, NEW w, NEW rec, Accounted(f, m), Final(f, m, w, rec),
           Later(f, m, w) \cap (w.head \cup w.freed) = {}, w.head \cap w.freed = {}
    PROVE  \A r \in DOMAIN rec : \A s \in DOMAIN rec \ {r} : rec[r] \cap rec[s] = {}
<1>1. /\ w.id \in DOMAIN rec => rec[w.id] = w.freed
      /\ w.last \in DOMAIN rec => rec[w.last] = w.head
      /\ \A r \in DOMAIN rec \ {w.id, w.last} :
            r \in DOMAIN Listed(f, m) /\ r > w.last /\ rec[r] = Listed(f, m)[r]
  BY DEF Final
<1>2. ASSUME NEW r \in DOMAIN rec \ {w.id, w.last}
      PROVE  rec[r] \subseteq Later(f, m, w)
  BY <1>1 DEF Later
<1>3. ASSUME NEW r \in DOMAIN rec \ {w.id, w.last}, NEW s \in DOMAIN rec \ {w.id, w.last},
             r # s
      PROVE  rec[r] \cap rec[s] = {}
  <2>1. r \in DOMAIN Listed(f, m) /\ s \in DOMAIN Listed(f, m) \ {r}
    BY <1>1, <1>3
  <2>2. Listed(f, m)[r] \cap Listed(f, m)[s] = {}
    BY <2>1 DEF Accounted
  <2> QED BY <1>1, <2>2
<1>4. ASSUME NEW r \in DOMAIN rec, NEW s \in DOMAIN rec \ {r}
      PROVE  rec[r] \cap rec[s] = {}
  <2>1. CASE r \notin {w.id, w.last} /\ s \notin {w.id, w.last}
    BY <1>3, <2>1
  <2>2. CASE r \in {w.id, w.last} /\ s \in {w.id, w.last}
    BY <1>1, <2>2
  <2>3. CASE r \in {w.id, w.last} /\ s \notin {w.id, w.last}
    <3>1. rec[s] \subseteq Later(f, m, w) /\ rec[r] \subseteq w.head \cup w.freed
      BY <1>1, <1>2, <2>3
    <3> QED BY <3>1
  <2>4. CASE r \notin {w.id, w.last} /\ s \in {w.id, w.last}
    <3>1. rec[r] \subseteq Later(f, m, w) /\ rec[s] \subseteq w.head \cup w.freed
      BY <1>1, <1>2, <2>4
    <3> QED BY <3>1
  <2> QED BY <2>1, <2>2, <2>3, <2>4
<1> QED BY <1>4

\* The pages can be written.
LEMMA FinalFlush ==
    ASSUME NEW f, NEW m, NEW w, DOMAIN f = Pages, Accounted(f, m), m.id \in Nat,
           PageInv(f, m, w), w.depth = 0, DOMAIN w.dirty # {},
           FreeList(Own(w, f), w.froot, w.id), Final(f, m, w, Rec(f, w)),
           w.hasHead => w.last < m.id,
           w.pc = "flush", w.left = DOMAIN w.dirty
    PROVE  FlushInv(f, m, w)
<1> DEFINE o == Own(w, f)
           rec == Rec(f, w)
           n == NewMeta(w)
<1>1. /\ Held(f, m, w, w.head) /\ Shape(m, w) /\ Consumed(f, m, w) /\ Tree(o, w.root)
      /\ w.id = m.id + 1
  BY DEF PageInv, Held, Shape
<1>2. Freed(w) = w.freed
  BY DEF Freed
<1>3. Account(w.next, PagesOf(o, w.root), ListPage(w.froot), Later(f, m, w), w.head, w.freed)
  BY <1>1, <1>2 DEF Held
<1>4. /\ n.id = w.id /\ n.root = w.root /\ n.froot = w.froot /\ n.last = w.next - 1
  BY DEF NewMeta
<1>5. UNION {rec[r] : r \in DOMAIN rec} = Later(f, m, w) \cup w.head \cup w.freed
  BY FinalUnion
<1>6. \A r \in DOMAIN rec : \A s \in DOMAIN rec \ {r} : rec[r] \cap rec[s] = {}
  BY <1>3, FinalDisjoint DEF Account
<1>7. Listed(o, n) = rec /\ Used(o, n) = PagesOf(o, w.root) \cup ListPage(w.froot)
  BY <1>4 DEF Listed, Used, Rec
<1> HIDE DEF o, rec, n
<1>8. n.last \in (FirstPage - 1)..(MaxPg - 2)
  <2>1. /\ w.next \in Int /\ w.next > m.last /\ w.next >= FirstPage /\ w.next < MaxPg
        /\ MaxPg \in Int /\ FirstPage \in Int
    BY <1>1, HeldPages, LmdbAssumption DEF FirstPage
  <2> QED BY <1>4, <2>1
<1>9. Accounted(o, n)
  <2>1. Tree(o, n.root) /\ FreeList(o, n.froot, n.id)
    BY <1>1, <1>4 DEF o
  <2>2. PagesOf(o, n.root) \cap ListPage(n.froot) = {}
    BY <1>3, <1>4 DEF Account
  <2>3. Used(o, n) \cup UNION {rec[r] : r \in DOMAIN rec} = FirstPage..n.last
    BY <1>3, <1>4, <1>5, <1>7 DEF Account
  <2>4. \A r \in DOMAIN rec : rec[r] \cap Used(o, n) = {}
    <3>1. \A r \in DOMAIN rec : rec[r] \subseteq Later(f, m, w) \cup w.head \cup w.freed
      BY <1>5
    <3> QED BY <1>3, <1>7, <3>1 DEF Account
  <2> QED BY <1>6, <1>7, <1>8, <2>1, <2>2, <2>3, <2>4 DEF Accounted
<1>10. /\ Private(w, w.head) \cap (Used(f, m) \cup Later(f, m, w)) = {}
       /\ Private(w, w.head) \subseteq FirstPage..(w.next - 1)
  BY <1>1 DEF Held
<1>11. /\ DOMAIN w.dirty \subseteq FirstPage..(w.next - 1)
       /\ DOMAIN w.dirty \cap Used(f, m) = {}
       /\ w.head \cap Used(f, m) = {}
  BY <1>10 DEF Private
<1>12. m.id \in DOMAIN Listed(f, m) => DOMAIN w.dirty \cap Listed(f, m)[m.id] = {}
  <2>1. ASSUME m.id \in DOMAIN Listed(f, m)
        PROVE  DOMAIN w.dirty \cap Listed(f, m)[m.id] = {}
    <3>1. m.id > w.last
      <4>1. m.id >= 1 /\ m.id \in Nat
        BY <2>1, ListedIds
      <4> QED BY <1>1, <4>1 DEF Consumed
    <3>2. Listed(f, m)[m.id] \subseteq Later(f, m, w)
      BY <2>1, <3>1 DEF Later
    <3> QED BY <1>10, <3>2 DEF Private
  <2> QED BY <2>1
<1>13. \A r \in DOMAIN rec \ {w.id} : rec[r] \cap Used(f, m) = {}
  <2>1. ASSUME NEW r \in DOMAIN rec \ {w.id}
        PROVE  rec[r] \cap Used(f, m) = {}
    <3>1. CASE r = w.last
      BY <1>11, <3>1 DEF Final, rec
    <3>2. CASE r # w.last
      <4>1. r \in DOMAIN Listed(f, m) /\ rec[r] = Listed(f, m)[r]
        BY <2>1, <3>2 DEF Final, rec
      <4>2. Listed(f, m)[r] \cap Used(f, m) = {}
        BY <4>1 DEF Accounted
      <4> QED BY <4>1, <4>2
    <3> QED BY <3>1, <3>2
  <2> QED BY <2>1
<1>14. Records(Own(w, f), w.froot) = rec
  BY DEF rec, Rec
<1>15. Accounted(Own(w, f), NewMeta(w))
  BY <1>9 DEF o, n
<1> QED BY <1>1, <1>11, <1>12, <1>13, <1>14, <1>15 DEF FlushInv

\* What filling the reserved record changes.
LEMMA FillFields ==
    ASSUME NEW w, NEW x, NEW rec, DOMAIN w = TxnFields, rec = w.dirty[w.froot].rec,
           w.head # {}, x = Fill(w)
    PROVE  /\ Changed(w, x, {"dirty", "step"})
           /\ x.dirty = [w.dirty EXCEPT ![w.froot] = FreeLeaf(With(rec, w.headId, w.head))]
<1> DEFINE v == FreeLeaf(With(w.dirty[w.froot].rec, w.headId, w.head))
<1>1. x = [w EXCEPT !.dirty[w.froot] = v, !.step = "loop"]
  BY DEF Fill, SetRecords
<1>2. v = FreeLeaf(With(rec, w.headId, w.head))
  OBVIOUS
<1> HIDE DEF v
<1>3. /\ Changed(w, x, {"dirty", "step"})
      /\ x.dirty = [w.dirty EXCEPT ![w.froot] = v]
  BY <1>1 DEF Changed, TxnFields
<1> QED BY <1>2, <1>3

\* The reserved record is filled.
Filled(f, m, w, x) ==
    /\ Changed(w, x, {"dirty", "step"})
    /\ PageInv(f, m, x) /\ FreeList(Own(x, f), x.froot, x.id)
    /\ Final(f, m, x, Rec(f, x))
    /\ DOMAIN x.dirty = DOMAIN w.dirty
    /\ KeptRound(f, w, x)

\* Filling the reserved record at the end gives the final free list.
LEMMA FillSave ==
    ASSUME NEW f, NEW m, NEW w, NEW x, DOMAIN f = Pages, Accounted(f, m), m.id \in Nat,
           SaveInv(f, m, w), w.pc = "save", w.done = w.last,
           w.count = Cardinality(w.freed), w.room = Cardinality(w.head), x = Fill(w)
    PROVE  Filled(f, m, w, x)
<1>1. /\ w.done \in Nat /\ w.last \in Nat /\ w.id = m.id + 1
      /\ w.hasHead => w.last < m.id /\ w.last \in DOMAIN Listed(f, m)
      /\ ~w.hasHead => w.last = 0 /\ w.head = {}
      /\ Cardinality(w.head) \in Nat /\ (Cardinality(w.head) = 0 <=> w.head = {})
      /\ Cardinality(w.freed) = 0 <=> w.freed = {}
      /\ DOMAIN w = TxnFields
  BY SaveNumbers
<1>2. /\ PageInv(f, m, w) /\ w.depth = 0 /\ FreeList(Own(w, f), w.froot, w.id)
      /\ Held(f, m, w, w.head)
  BY DEF SaveInv, RecordsInv, PageInv
<1>3. /\ w.headId = w.done
      /\ w.room = 0 => w.done \notin DOMAIN Rec(f, w)
      /\ \A r \in DOMAIN Rec(f, w) \ {w.id, w.done} : r \in DOMAIN Listed(f, m) /\ r > w.done
      /\ \A r \in DOMAIN Listed(f, m) :
            r > w.done => r \in DOMAIN Rec(f, w) /\ Rec(f, w)[r] = Listed(f, m)[r]
      /\ w.id \in DOMAIN Rec(f, w) =>
           Rec(f, w)[w.id] \subseteq w.freed /\ w.count = Cardinality(Rec(f, w)[w.id])
      /\ w.id \notin DOMAIN Rec(f, w) => w.count = 0
  BY DEF SaveInv, RecordsInv, Rec
<1>4. /\ w.last # w.id /\ \A r \in DOMAIN Listed(f, m) : r \in Nat /\ r # w.id
  BY <1>1, ListedIds
<1>5. /\ w.id \in DOMAIN Rec(f, w) => Rec(f, w)[w.id] = w.freed
      /\ w.id \notin DOMAIN Rec(f, w) => w.freed = {}
  <2>1. IsFiniteSet(w.freed)
    BY <1>2, Counted
  <2>2. ASSUME w.id \in DOMAIN Rec(f, w)
        PROVE  Rec(f, w)[w.id] = w.freed
    <3>1. /\ Rec(f, w)[w.id] \in SUBSET w.freed
          /\ Cardinality(Rec(f, w)[w.id]) = Cardinality(w.freed)
      BY <1>3, <2>2
    <3> QED BY <2>1, <3>1, FS_Subset
  <2>3. ASSUME w.id \notin DOMAIN Rec(f, w)
        PROVE  w.freed = {}
    BY <1>1, <1>3, <2>3
  <2> QED BY <2>2, <2>3
<1>6. /\ \A r \in DOMAIN Rec(f, w) \ {w.id, w.last} :
            r \in DOMAIN Listed(f, m) /\ r > w.last /\ Rec(f, w)[r] = Listed(f, m)[r]
      /\ \A r \in DOMAIN Listed(f, m) : r > w.last =>
            r \in DOMAIN Rec(f, w) \ {w.id, w.last} /\ Rec(f, w)[r] = Listed(f, m)[r]
  <2>1. ASSUME NEW r \in DOMAIN Listed(f, m), r > w.last
        PROVE  r # w.id /\ r # w.last
    BY <1>1, <1>4, <2>1
  <2> QED BY <1>3, <2>1
<1>7. CASE w.head = {}
  <2>1. x = w
    BY <1>7 DEF Fill
  <2>2. w.last \notin DOMAIN Rec(f, w)
    BY <1>1, <1>3, <1>7
  <2>3. Final(f, m, w, Rec(f, w))
    BY <1>1, <1>4, <1>5, <1>6, <1>7, <2>2 DEF Final
  <2>4. Changed(w, w, {"dirty", "step"})
    BY <1>1 DEF Changed
  <2>5. KeptRound(f, w, w)
    BY DEF KeptRound, SameTxn, Stays
  <2> QED BY <1>2, <2>1, <2>3, <2>4, <2>5 DEF Filled
<1>8. CASE w.head # {}
  <2>1. w.room # 0 /\ w.hasHead
    BY <1>1, <1>8
  <2>2. Writable(w) /\ w.done \in DOMAIN Rec(f, w)
    BY <2>1 DEF SaveInv, ReservedInv, Rec
  <2>3. /\ w.froot # NoPage /\ w.froot \in DOMAIN w.dirty
        /\ w.dirty[w.froot].rec = Rec(f, w)
        /\ Fn(Rec(f, w)) /\ DOMAIN Rec(f, w) \subseteq 1..w.id
    BY <2>2, WritableList
  <2> DEFINE new == With(Rec(f, w), w.headId, w.head)
  <2>4. /\ Changed(w, x, {"dirty", "step"})
        /\ x.dirty = [w.dirty EXCEPT ![w.froot] = FreeLeaf(new)]
    BY <1>1, <1>8, <2>3, FillFields
  <2>5. /\ DOMAIN new = DOMAIN Rec(f, w) \cup {w.headId} /\ new[w.headId] = w.head /\ Fn(new)
        /\ \A r \in DOMAIN Rec(f, w) \ {w.headId} : new[r] = Rec(f, w)[r]
    BY DEF With, Fn
  <2> HIDE DEF new
  <2>6. ListWrites(w, x, new)
    <3>1. Changed(w, x, {"pc", "dirty", "step", "done", "count", "headId", "room", "more"})
      BY <2>4 DEF Changed
    <3>2. DOMAIN new \subseteq 1..w.id
      BY <1>3, <2>2, <2>3, <2>5
    <3> QED BY <2>3, <2>4, <2>5, <3>1, <3>2 DEF ListWrites, ListWriting
  <2>7. /\ PageInv(f, m, x) /\ Rec(f, x) = new /\ FreeList(Own(x, f), x.froot, x.id)
        /\ DOMAIN x.dirty = DOMAIN w.dirty /\ KeptRound(f, w, x)
    BY <2>6, WrittenSave
  <2>8. /\ x.last = w.last /\ x.id = w.id /\ x.freed = w.freed /\ x.head = w.head
    BY <2>4 DEF Changed, TxnFields
  <2>9. Final(f, m, x, new)
    <3>1. /\ DOMAIN new = DOMAIN Rec(f, w) /\ new[w.last] = w.head
          /\ w.last \in DOMAIN Rec(f, w)
          /\ \A r \in DOMAIN Rec(f, w) \ {w.last} : new[r] = Rec(f, w)[r]
      BY <1>3, <2>2, <2>5
    <3> QED BY <1>1, <1>4, <1>5, <1>6, <2>8, <3>1 DEF Final
  <2> QED BY <2>4, <2>7, <2>9 DEF Filled
<1> QED BY <1>7, <1>8

\* When the loop ends every page is accounted for in what will be written.
LEMMA EndSave ==
    ASSUME NEW f, NEW m, NEW w, NEW x, DOMAIN f = Pages, Accounted(f, m), m.id \in Nat,
           SaveInv(f, m, w), w.pc = "save", Ends(w, x)
    PROVE  LET y == [x EXCEPT !.left = DOMAIN x.dirty] IN
           /\ FlushInv(f, m, y) /\ x.pc = "flush" /\ y.pc = "flush" /\ KeptRound(f, w, y)
           /\ DOMAIN y = TxnFields /\ Flushing(f, m, y)
<1> DEFINE z == Fill(w)
           y == [x EXCEPT !.left = DOMAIN x.dirty]
<1>1. /\ w.done = w.last /\ w.count = Cardinality(w.freed) /\ w.room = Cardinality(w.head)
      /\ x = [z EXCEPT !.pc = "flush"]
  BY DEF Ends
<1>2. Filled(f, m, w, z)
  BY <1>1, FillSave
<1> HIDE DEF z
<1>3. Changed(w, z, {"dirty", "step"}) /\ DOMAIN z = TxnFields
  BY <1>2 DEF Filled, Changed
<1>4. Changed(z, x, {"pc"}) /\ x.pc = "flush"
  BY <1>1, <1>3 DEF Changed, TxnFields
<1>5. Changed(z, y, {"pc", "left"}) /\ y.pc = "flush" /\ y.left = DOMAIN x.dirty
  BY <1>4 DEF Changed, TxnFields
<1>6. x.dirty = z.dirty
  BY <1>4 DEF Changed, TxnFields
<1> HIDE DEF y
<1>7. PageInv(f, m, y)
  BY <1>2, <1>5, PageKept DEF Filled, HeldFields
<1>8. /\ y.dirty = z.dirty /\ y.froot = z.froot /\ y.id = z.id /\ y.last = z.last
      /\ y.freed = z.freed /\ y.head = z.head /\ y.under = z.under
      /\ y.depth = w.depth /\ y.id = w.id /\ y.hasHead = w.hasHead /\ z.last = w.last
      /\ DOMAIN y = TxnFields
  BY <1>3, <1>5 DEF Changed, TxnFields
<1>9. Own(y, f) = Own(z, f) /\ Rec(f, y) = Rec(f, z)
  BY <1>8 DEF Own, Rec
<1>10. FreeList(Own(y, f), y.froot, y.id) /\ Final(f, m, y, Rec(f, y))
  <2>1. FreeList(Own(z, f), z.froot, z.id) /\ Final(f, m, z, Rec(f, z))
    BY <1>2 DEF Filled
  <2>2. Later(f, m, y) = Later(f, m, z)
    BY <1>8 DEF Later
  <2> QED BY <1>8, <1>9, <2>1 DEF Final
<1>11. w.depth = 0 /\ DOMAIN w.dirty # {} /\ (w.hasHead => w.last < m.id)
  BY SaveNumbers DEF SaveInv
<1>12. DOMAIN y.dirty # {} /\ y.left = DOMAIN y.dirty
  BY <1>2, <1>5, <1>6, <1>8, <1>11 DEF Filled
<1>13. FlushInv(f, m, y)
  BY <1>5, <1>7, <1>8, <1>10, <1>11, <1>12, FinalFlush
<1>14. KeptRound(f, w, y)
  <2>1. KeptRound(f, w, z)
    BY <1>2 DEF Filled
  <2>2. y.root = z.root /\ y.depth = z.depth
    BY <1>5 DEF Changed, TxnFields
  <2>3. Tells(f, y) = Tells(f, z)
    BY <1>9, <2>2 DEF Tells
  <2> QED BY <1>8, <2>1, <2>2, <2>3 DEF KeptRound, SameTxn, Stays
<1>15. Flushing(f, m, y)
  <2>1. DOMAIN y.dirty \cap Later(f, m, y) = {}
    BY <1>7 DEF PageInv, Held, Private
  <2>2. \A r \in DOMAIN Listed(f, m) :
           r > y.last => r \in DOMAIN Rec(f, y) /\ Rec(f, y)[r] = Listed(f, m)[r]
    BY <1>10 DEF Final
  <2> QED BY <2>1, <2>2 DEF Flushing, Rec
<1> QED BY <1>4, <1>5, <1>8, <1>13, <1>14, <1>15 DEF y

\* A round of the loop.
Rounded(w, x) ==
    LET y == FreelistSave(w)
    IN  x = IF y.pc = "flush" THEN [y EXCEPT !.left = DOMAIN y.dirty] ELSE y

\* A round of mdb_freelist_save keeps its invariant, or ends it with pages to
\* write.
LEMMA SaveOne ==
    ASSUME NEW f, NEW m, NEW w, NEW x, DOMAIN f = Pages, Accounted(f, m),
           m.id \in Nat, SaveInv(f, m, w), w.pc = "save", Rounded(w, x)
    PROVE  /\ KeptRound(f, w, x) /\ DOMAIN x = TxnFields
           /\ \/ x.pc \in {"save", "alloc"} /\ SaveInv(f, m, x)
              \/ x.pc = "flush" /\ FlushInv(f, m, x) /\ Flushing(f, m, x)
<1> DEFINE y == FreelistSave(w)
<1>0. x = IF y.pc = "flush" THEN [y EXCEPT !.left = DOMAIN y.dirty] ELSE y
  BY DEF Rounded
<1>1. CASE Ends(w, y)
  <2>1. LET z == [y EXCEPT !.left = DOMAIN y.dirty] IN
        /\ FlushInv(f, m, z) /\ y.pc = "flush" /\ z.pc = "flush" /\ KeptRound(f, w, z)
        /\ DOMAIN z = TxnFields /\ Flushing(f, m, z)
    BY <1>1, EndSave
  <2>2. x = [y EXCEPT !.left = DOMAIN y.dirty]
    BY <1>0, <2>1
  <2> QED BY <2>1, <2>2
<1>2. CASE Asks(w, y)
  <2>1. SaveInv(f, m, y) /\ y.pc = "alloc" /\ KeptRound(f, w, y) /\ DOMAIN y = TxnFields
    BY <1>2, AskSave
  <2>2. x = y
    BY <1>0, <2>1
  <2> QED BY <2>1, <2>2
<1>3. CASE Deletes(w, y)
  <2>1. SaveInv(f, m, y) /\ y.pc = "save" /\ KeptRound(f, w, y) /\ DOMAIN y = TxnFields
    BY <1>3, DeleteSave
  <2>2. x = y
    BY <1>0, <2>1
  <2> QED BY <2>1, <2>2
<1>4. CASE Writes(w, y)
  <2>1. SaveInv(f, m, y) /\ y.pc = "save" /\ KeptRound(f, w, y) /\ DOMAIN y = TxnFields
    BY <1>4, WriteSave
  <2>2. x = y
    BY <1>0, <2>1
  <2> QED BY <2>1, <2>2
<1>5. CASE Reserves(w, y)
  <2>1. SaveInv(f, m, y) /\ y.pc = "save" /\ KeptRound(f, w, y) /\ DOMAIN y = TxnFields
    BY <1>5, ReserveSave
  <2>2. x = y
    BY <1>0, <2>1
  <2> QED BY <2>1, <2>2
<1>6. Ends(w, y) \/ Asks(w, y) \/ Deletes(w, y) \/ Writes(w, y) \/ Reserves(w, y)
  BY SaveRound
<1> QED BY <1>1, <1>2, <1>3, <1>4, <1>5, <1>6

\* It brings the end nearer.
Advances(w) ==
    LET next == FreelistSave(w)
        old  == Rank(w)
        new  == Rank(next)
    IN  \/ next.pc = "flush"
        \/ next.pc = "alloc" /\ ~Writable(w)
        \/ w.step # "loop" /\ next.step = "loop"
        \/ next.room # w.room /\ next.room = Cardinality(next.head)
        \/ \E i \in DOMAIN old : /\ new[i] > old[i]
                                 /\ \A j \in 1..(i - 1) : new[j] = old[j]

\* Deleting a record brings the end of the loop nearer.
LEMMA RankDone ==
    ASSUME NEW w, NEW x, x.last = w.last, x.done > w.done
    PROVE  \E i \in DOMAIN Rank(w) : /\ Rank(x)[i] > Rank(w)[i]
                                     /\ \A j \in 1..(i - 1) : Rank(x)[j] = Rank(w)[j]
<1>1. 2 \in DOMAIN Rank(w)
  BY DEF Rank
<1>2. Rank(x)[2] > Rank(w)[2] /\ Rank(x)[1] = Rank(w)[1]
  BY DEF Rank
<1>3. \A j \in 1..(2 - 1) : j = 1
  OBVIOUS
<1> QED BY <1>1, <1>2, <1>3

\* Writing more of the freed pages brings the end of the loop nearer.
LEMMA RankCount ==
    ASSUME NEW w, NEW x, x.last = w.last, x.done = w.done, DOMAIN x.dirty = DOMAIN w.dirty,
           x.count > w.count
    PROVE  \E i \in DOMAIN Rank(w) : /\ Rank(x)[i] > Rank(w)[i]
                                     /\ \A j \in 1..(i - 1) : Rank(x)[j] = Rank(w)[j]
<1>1. 4 \in DOMAIN Rank(w)
  BY DEF Rank
<1>2. /\ Rank(x)[4] > Rank(w)[4] /\ Rank(x)[1] = Rank(w)[1] /\ Rank(x)[2] = Rank(w)[2]
      /\ Rank(x)[3] = Rank(w)[3]
  BY DEF Rank
<1>3. \A j \in 1..(4 - 1) : j = 1 \/ j = 2 \/ j = 3
  OBVIOUS
<1> QED BY <1>1, <1>2, <1>3

\* Every round of the loop of mdb_freelist_save brings its end nearer.
LEMMA SaveRank ==
    ASSUME NEW f, NEW m, NEW w, DOMAIN f = Pages, Accounted(f, m), m.id \in Nat,
           SaveInv(f, m, w), w.pc = "save"
    PROVE  Advances(w)
<1> DEFINE x == FreelistSave(w)
<1>1. CASE Ends(w, x)
  <2>1. x.pc = "flush"
    BY <1>1, EndSave
  <2> QED BY <2>1 DEF Advances
<1>2. CASE Asks(w, x)
  <2>1. x.pc = "alloc" /\ ~Writable(w)
    BY <1>2, AskSave DEF Asks
  <2> QED BY <2>1 DEF Advances
<1>3. CASE Deletes(w, x)
  <2>1. x.done > w.done /\ x.last = w.last
    BY <1>3, DeleteSave
  <2> HIDE DEF x
  <2>2. \E i \in DOMAIN Rank(w) : /\ Rank(x)[i] > Rank(w)[i]
                                  /\ \A j \in 1..(i - 1) : Rank(x)[j] = Rank(w)[j]
    BY <2>1, RankDone
  <2> QED BY <2>2 DEF Advances, x
<1>4. CASE Writes(w, x)
  <2>1. Writable(w) /\ x = WriteFreed(w) /\ (w.step = "loop" => w.count < Cardinality(w.freed))
    BY <1>4 DEF Writes
  <2>2. /\ w.dirty[w.froot].rec = Rec(f, w) /\ DOMAIN w = TxnFields
    BY <2>1, WritableList
  <2>3. /\ Changed(w, x, {"dirty", "step", "count"})
        /\ x.step = "loop" /\ x.count = Cardinality(w.freed)
        /\ x.dirty = [w.dirty EXCEPT ![w.froot] =
                                FreeLeaf(With(Rec(f, w), w.id, w.freed))]
    BY <2>1, <2>2, WriteFields
  <2> HIDE DEF x
  <2>4. DOMAIN x.dirty = DOMAIN w.dirty /\ x.last = w.last /\ x.done = w.done
    BY <2>3 DEF Changed, TxnFields
  <2>5. CASE w.step # "loop"
    BY <2>3, <2>5 DEF Advances, x
  <2>6. CASE w.step = "loop"
    <3>1. x.count > w.count
      <4>1. w.count \in Nat /\ Cardinality(w.freed) \in Nat
        BY SaveNumbers
      <4> QED BY <2>1, <2>3, <2>6, <4>1
    <3>2. \E i \in DOMAIN Rank(w) : /\ Rank(x)[i] > Rank(w)[i]
                                    /\ \A j \in 1..(i - 1) : Rank(x)[j] = Rank(w)[j]
      BY <2>4, <3>1, RankCount
    <3> QED BY <3>2 DEF Advances, x
  <2> QED BY <2>5, <2>6
<1>5. CASE Reserves(w, x)
  <2>1. x.room = Cardinality(x.head) /\ x.room # w.room
    BY <1>5, ReserveSave
  <2> QED BY <2>1 DEF Advances
<1>6. Ends(w, x) \/ Asks(w, x) \/ Deletes(w, x) \/ Writes(w, x) \/ Reserves(w, x)
  BY SaveRound
<1> HIDE DEF x
<1> QED BY <1>1, <1>2, <1>3, <1>4, <1>5, <1>6

-----------------------------------------------------------------------------
(* What the invariant says of the last commit and of the numbers.          *)

\* The last commit is accounted for, and its number is in bounds.
LEMMA LastCommit ==
    ASSUME MetaInv, DiskInv
    PROVE  /\ DOMAIN file = Pages /\ DOMAIN disk = Pages
           /\ Accounted(file, Last) /\ Last.id \in Nat /\ Last.id <= MaxTxn
           /\ Last.id \in 0..MaxTxn
<1>1. MaxTxn \in Nat
  BY LmdbAssumption
<1> QED BY <1>1 DEF MetaInv, DiskInv, Sound

\* What does not change the file keeps what is said of it.
LEMMA MetaKept ==
    ASSUME MetaInv, DiskInv, UNCHANGED fileVars, UNCHANGED <<history, durable>>
    PROVE  MetaInv' /\ DiskInv' /\ Last' = Last
<1>1. file' = file /\ meta' = meta /\ disk' = disk /\ metaDisk' = metaDisk
  BY DEF fileVars
<1>2. Last' = Last
  BY <1>1 DEF Last
<1>3. Other' = Other /\ (Settled' <=> Settled)
  BY <1>1, <1>2 DEF Other, Settled
<1>4. MetaInv'
  BY <1>1, <1>2, <1>3 DEF MetaInv
<1>5. DiskInv'
  BY <1>1, <1>2, <1>3 DEF DiskInv
<1> QED BY <1>2, <1>4, <1>5

\* More slots disturb no transaction.
LEMMA AliveSlots ==
    ASSUME NEW f, NEW m, NEW w, NEW n \in Nat, NEW k \in Nat, Alive(f, m, w, n), n <= k
    PROVE  Alive(f, m, w, k)
<1>1. w.slot \in 0..n => w.slot \in 0..k
  OBVIOUS
<1> QED BY <1>1 DEF Alive

\* The table of readers and its bound.
LEMMA SlotTypes ==
    ASSUME SlotInv, EnvInv
    PROVE  /\ Len(slots) \in Nat /\ DOMAIN slots = 1..Len(slots)
           /\ bound.slots \in Nat /\ Len(slots) <= bound.slots
           /\ \A i \in DOMAIN slots :
                 /\ slots[i] \in [pid : Procs \cup {None}, txnid : 0..Idle]
                 /\ slots[i].pid \in Procs \cup {None} /\ slots[i].txnid \in 0..Idle
           /\ bound.readers \subseteq Readers
<1>1. bound \in [readers : SUBSET Readers, slots : Nat, keys : SUBSET Keys, ops : Nat,
                 nests : Nat, faults : Nat]
  BY LmdbAssumption DEF EnvInv
<1> DEFINE S == [pid : Procs \cup {None}, txnid : 0..Idle]
<1>2. slots \in Seq(S) /\ Len(slots) <= bound.slots
  BY DEF SlotInv
<1>3. \A i \in DOMAIN slots : slots[i] \in S
  <2> HIDE DEF S
  <2> QED BY <1>2
<1>4. Len(slots) \in Nat /\ DOMAIN slots = 1..Len(slots)
  <2> HIDE DEF S
  <2> QED BY <1>2
<1>5. \A i \in DOMAIN slots : slots[i].pid \in Procs \cup {None} /\ slots[i].txnid \in 0..Idle
  BY <1>3
<1> QED BY <1>1, <1>2, <1>3, <1>4, <1>5

\* Steps of readers.
LEMMA ReadersOnly ==
    ASSUME IInv, EnvInv', SlotInv', UNCHANGED fileVars, UNCHANGED ghostVars, UNCHANGED txn,
           UNCHANGED <<mti_txnid, wmutex, ownerDied>>,
           \A p \in Procs : env'[p].pgoldest = env[p].pgoldest /\ env'[p].open = env[p].open,
           Len(slots') >= Len(slots)
    PROVE  IInv'
<1>1. MetaInv' /\ DiskInv' /\ Last' = Last
  BY MetaKept DEF IInv, ghostVars
<1>2. LockInv'
  <2>1. LockInv /\ wmutex' = wmutex /\ mti_txnid' = mti_txnid /\ ownerDied' = ownerDied /\ txn' = txn
    BY DEF IInv
  <2>2. wmutex # None => wmutex \in Procs
    BY <2>1 DEF LockInv, Procs
  <2> QED BY <1>1, <2>1, <2>2 DEF LockInv
<1>3. TxnInv'
  <2>1. TxnInv /\ txn' = txn /\ file' = file /\ meta' = meta /\ disk' = disk /\ metaDisk' = metaDisk
    BY DEF IInv, fileVars
  <2>2. Len(slots) \in Nat /\ Len(slots)' \in Nat
    BY SlotTypes DEF IInv, SlotInv
  <2>3. Alive(file, Last, txn, Len(slots)) => Alive(file, Last, txn, Len(slots)')
    BY <2>2, AliveSlots
  <2>4. Synced' = Synced
    BY <2>1 DEF Synced
  <2>5. TxnInv
    BY <2>1
  <2> QED BY <1>1, <2>1, <2>3, <2>4, <2>5 DEF TxnInv
<1> QED BY <1>1, <1>2, <1>3 DEF IInv

\* Private steps of the writer.
LEMMA WriterOnly ==
    ASSUME IInv, PrivateStep, txn # NoTxn, txn.pc # "publish", txn' # NoTxn, TxnInv',
           txn'.pc # "publish"
    PROVE  IInv'
<1>1. /\ UNCHANGED fileVars /\ UNCHANGED lockVars /\ UNCHANGED env /\ UNCHANGED reader
      /\ UNCHANGED <<history, durable>> /\ UNCHANGED bound
  BY DEF PrivateStep
<1>2. MetaInv' /\ DiskInv' /\ Last' = Last
  BY <1>1, MetaKept DEF IInv
<1>3. LockInv'
  <2>1. LockInv /\ wmutex' = wmutex /\ mti_txnid' = mti_txnid /\ ownerDied' = ownerDied /\ env' = env
    BY <1>1 DEF IInv, lockVars
  <2> QED BY <1>2, <2>1 DEF LockInv
<1>4. EnvInv'
  BY <1>1 DEF EnvInv, IInv
<1>5. SlotInv'
  BY <1>1 DEF SlotInv, IInv, lockVars
<1> QED BY <1>2, <1>3, <1>4, <1>5 DEF IInv

\* A step that changes the transaction only keeps the whole invariant if it keeps
\* the transaction's own.
LEMMA StillAlive ==
    ASSUME IInv, PrivateStep, txn # NoTxn, txn.pc # "publish", txn'.pc # "publish",
           txn'.pc # "idle", txn'.pc # "meta", Alive(file, Last, txn', Len(slots))
    PROVE  IInv'
<1>1. UNCHANGED fileVars /\ UNCHANGED lockVars
  BY DEF PrivateStep
<1>2. file' = file /\ meta' = meta /\ slots' = slots
  BY <1>1 DEF fileVars, lockVars
<1>3. Last' = Last
  BY <1>2 DEF Last
<1>4. TxnInv'
  BY <1>2, <1>3 DEF TxnInv
<1>5. txn' # NoTxn
  BY DEF NoTxn
<1> QED BY <1>4, <1>5, WriterOnly

-----------------------------------------------------------------------------
(* The steps of a writer that are its own.                                 *)

\* A transaction in an operation.
LEMMA GoingAlive ==
    ASSUME NEW f, NEW m, NEW w, NEW x, NEW n, Going(f, m, x), Alive(f, m, w, n),
           x.id = w.id, x.depth \in {0, 1},
           x.pc = "scan" => x.oldest \in 0..m.id /\ x.slot \in 0..n
    PROVE  /\ Alive(f, m, x, n)
           /\ x.pc # "publish" /\ x.pc # "idle" /\ x.pc # "meta"
<1>1. x.id = m.id + 1 /\ x.id <= MaxTxn
  BY DEF Alive
<1>2. x.pc \in {"ready", "work", "alloc", "scan", "failed"}
  BY DEF Going
<1>3. InOp(x) => OpInv(f, m, x)
  BY <1>2 DEF Going, InOp, Waiting
<1>4. ~InSave(x)
  BY <1>2 DEF Going, InSave
<1>5. ParentInv(f, m, x) /\ DOMAIN x = TxnFields
  BY DEF Going
<1> QED BY <1>1, <1>2, <1>3, <1>4, <1>5 DEF Alive, Phases

\* A transaction in the save of the free list.
LEMMA SavingAlive ==
    ASSUME NEW f, NEW m, NEW w, NEW x, NEW n, SaveInv(f, m, x), Alive(f, m, w, n),
           x.id = w.id, x.pc \in {"save", "alloc", "scan"},
           x.pc = "scan" => x.oldest \in 0..m.id /\ x.slot \in 0..n
    PROVE  /\ Alive(f, m, x, n)
           /\ x.pc # "publish" /\ x.pc # "idle" /\ x.pc # "meta"
<1>1. x.id = m.id + 1 /\ x.id <= MaxTxn
  BY DEF Alive
<1>2. DOMAIN x = TxnFields /\ x.depth = 0
  BY DEF SaveInv, PageInv, Held, Shape
<1>3. ParentInv(f, m, x)
  BY <1>2 DEF ParentInv
<1>4. ~InOp(x)
  BY DEF InOp, SaveInv, Waiting, ForList
<1> QED BY <1>1, <1>2, <1>3, <1>4 DEF Alive, Phases

\* What the writer that holds the mutex knows.
LEMMA Mine ==
    ASSUME IInv, NEW p, MyTxn(p), txn.pc # "publish"
    PROVE  /\ txn # NoTxn /\ Alive(file, Last, txn, Len(slots))
           /\ DOMAIN file = Pages /\ Accounted(file, Last) /\ Last.id \in Nat
           /\ wmutex = p /\ p \in Writers
<1>1. wmutex = p /\ txn.pc # "idle"
  BY DEF MyTxn
<1>2. txn # NoTxn
  BY <1>1 DEF NoTxn
<1>3. Alive(file, Last, txn, Len(slots))
  BY <1>2 DEF IInv, TxnInv
<1>4. wmutex \in Writers
  BY <1>2 DEF IInv, LockInv
<1> QED BY <1>1, <1>2, <1>3, <1>4, LastCommit DEF IInv

\* mdb_put and mdb_del begin.
LEMMA StartOpStep ==
    ASSUME IInv, NEW p, NEW k, NEW op \in {"put", "del"}, StartOp(p, k, op)
    PROVE  IInv'
<1> DEFINE w == [txn EXCEPT !.key = k, !.op = op, !.ops = @ + 1, !.pc = "work"]
<1>1. /\ MyTxn(p) /\ txn.pc = "ready" /\ txn' = TouchRoot(w) /\ PrivateStep
      /\ op = "del" => txn.root # NoPage /\ k \in DOMAIN Own(txn, file)[txn.root].ov
  BY DEF StartOp
<1>2. /\ txn # NoTxn /\ Alive(file, Last, txn, Len(slots))
      /\ DOMAIN file = Pages /\ Accounted(file, Last) /\ Last.id \in Nat
  BY <1>1, Mine
<1>3. OpInv(file, Last, txn) /\ ParentInv(file, Last, txn) /\ txn.depth \in {0, 1}
      /\ DOMAIN txn = TxnFields
  BY <1>1, <1>2 DEF Alive, InOp
<1>4. Changed(txn, w, {"key", "op", "ops", "pc"}) /\ w.key = k /\ w.op = op /\ w.pc = "work"
  BY <1>3 DEF Changed, TxnFields
<1> HIDE DEF w
<1>5. PageInv(file, Last, w) /\ Unsaved(Last, w) /\ ParentInv(file, Last, w)
  <2>1. PageInv(file, Last, txn) /\ Unsaved(Last, txn)
    BY <1>3 DEF OpInv
  <2>2. {"key", "op", "ops", "pc"} \cap (HeldFields \cup {"hasHead", "head"}) = {}
    BY DEF HeldFields
  <2>3. PageInv(file, Last, w)
    BY <1>4, <2>1, <2>2, PageKept
  <2>4. Unsaved(Last, w)
    BY <1>4, <2>1, UnsavedKept
  <2>5. ParentInv(file, Last, w)
    BY <1>3, <1>4, ParentKept
  <2> QED BY <2>3, <2>4, <2>5
<1>6. w.root = txn.root /\ w.id = txn.id /\ w.depth = txn.depth /\ Own(w, file) = Own(txn, file)
  <2>1. Own(w, file) = Own(txn, file)
    BY <1>4, OwnKept
  <2> QED BY <1>4, <2>1 DEF Changed, TxnFields
<1>7. w.op # "put" => w.root # NoPage /\ w.key \in DOMAIN Own(w, file)[w.root].ov
  BY <1>1, <1>4, <1>6
<1>8. Going(file, Last, txn') /\ Fields(w, txn') /\ txn'.pc \in {"work", "alloc"}
  BY <1>1, <1>2, <1>4, <1>5, <1>7, TouchOp
<1>9. txn'.id = txn.id /\ txn'.depth \in {0, 1} /\ txn'.pc # "scan"
  BY <1>3, <1>6, <1>8 DEF Fields
<1>10. /\ Alive(file, Last, txn', Len(slots))
       /\ txn'.pc # "publish" /\ txn'.pc # "idle" /\ txn'.pc # "meta"
  BY <1>2, <1>8, <1>9, GoingAlive
<1> QED BY <1>1, <1>2, <1>10, StillAlive

\* The operation is done on a page that is dirty.
LEMMA DoOpStep ==
    ASSUME IInv, NEW p, DoOp(p)
    PROVE  IInv'
<1>1. /\ MyTxn(p) /\ txn.pc = "work" /\ PrivateStep
      /\ txn.op = "put" => txn' = PutValue(txn)
      /\ txn.op # "put" => txn' = DelValue(txn)
  BY DEF DoOp
<1>2. /\ txn # NoTxn /\ Alive(file, Last, txn, Len(slots))
      /\ DOMAIN file = Pages /\ Accounted(file, Last) /\ Last.id \in Nat
  BY <1>1, Mine
<1>3. OpInv(file, Last, txn) /\ ParentInv(file, Last, txn) /\ txn.depth \in {0, 1}
  BY <1>1, <1>2 DEF Alive, InOp
<1>4. Going(file, Last, txn') /\ Fields(txn, txn') /\ txn'.pc \in {"ready", "alloc"}
  <2>1. CASE txn.op = "put"
    BY <1>1, <1>2, <1>3, <2>1, PutOp
  <2>2. CASE txn.op # "put"
    BY <1>1, <1>2, <1>3, <2>2, DelOp
  <2> QED BY <2>1, <2>2
<1>5. txn'.id = txn.id /\ txn'.depth \in {0, 1} /\ txn'.pc # "scan"
  BY <1>3, <1>4 DEF Fields
<1>6. /\ Alive(file, Last, txn', Len(slots))
      /\ txn'.pc # "publish" /\ txn'.pc # "idle" /\ txn'.pc # "meta"
  BY <1>2, <1>4, <1>5, GoingAlive
<1> QED BY <1>1, <1>2, <1>6, StillAlive

\* A step of mdb_page_alloc.
LEMMA AllocStepStep ==
    ASSUME IInv, NEW p, AllocStep(p)
    PROVE  IInv'
<1>1. /\ MyTxn(p) /\ txn.pc = "alloc" /\ PrivateStep
      /\ txn' = Alloc(txn, file, env[p].pgoldest, MaxPg, Len(slots))
  BY DEF AllocStep
<1>2. /\ txn # NoTxn /\ Alive(file, Last, txn, Len(slots))
      /\ DOMAIN file = Pages /\ Accounted(file, Last) /\ Last.id \in Nat /\ p \in Writers
  BY <1>1, Mine
<1>3. env[p].pgoldest \in 0..Last.id
  BY <1>2 DEF IInv, LockInv, Procs
<1>4. Len(slots) \in Nat
  BY SlotTypes DEF IInv
<1>5. CASE ~ForList(txn)
  <2>1. OpInv(file, Last, txn) /\ ParentInv(file, Last, txn) /\ txn.depth \in {0, 1}
    BY <1>1, <1>2, <1>5 DEF Alive, InOp, Waiting
  <2>2. /\ Going(file, Last, txn') /\ Fields(txn, txn')
        /\ txn'.pc = "scan" => txn'.slot = Len(slots) /\ txn'.oldest = Last.id
    BY <1>1, <1>2, <1>3, <1>5, <2>1, AllocOp
  <2>3. txn'.id = txn.id /\ txn'.depth \in {0, 1}
    BY <2>1, <2>2 DEF Fields
  <2>4. txn'.pc = "scan" => txn'.oldest \in 0..Last.id /\ txn'.slot \in 0..Len(slots)
    BY <1>2, <1>4, <2>2
  <2>5. /\ Alive(file, Last, txn', Len(slots))
        /\ txn'.pc # "publish" /\ txn'.pc # "idle" /\ txn'.pc # "meta"
    BY <1>2, <2>2, <2>3, <2>4, GoingAlive
  <2> QED BY <1>1, <1>2, <2>5, StillAlive
<1>6. CASE ForList(txn)
  <2>1. SaveInv(file, Last, txn)
    BY <1>1, <1>2, <1>6 DEF Alive, InSave, Waiting
  <2>2. /\ Going2Save(file, Last, txn') /\ Kept(file, txn, txn')
        /\ txn'.pc = "scan" => txn'.slot = Len(slots) /\ txn'.oldest = Last.id
    BY <1>1, <1>2, <1>3, <1>6, <2>1, AllocSave
  <2>3. /\ txn'.id = txn.id /\ DOMAIN txn' = TxnFields /\ txn'.depth = 0
        /\ txn'.pc \in {"save", "alloc", "scan", "failed"}
        /\ txn'.pc # "failed" => SaveInv(file, Last, txn')
    BY <2>2 DEF Kept, SameTxn, Going2Save
  <2>4. txn'.pc = "scan" => txn'.oldest \in 0..Last.id /\ txn'.slot \in 0..Len(slots)
    BY <1>2, <1>4, <2>2
  <2>5. /\ Alive(file, Last, txn', Len(slots))
        /\ txn'.pc # "publish" /\ txn'.pc # "idle" /\ txn'.pc # "meta"
    <3>1. CASE txn'.pc = "failed"
      <4>1. txn'.id = Last.id + 1 /\ txn'.id <= MaxTxn
        BY <1>2, <2>3 DEF Alive
      <4>2. ParentInv(file, Last, txn')
        BY <2>3 DEF ParentInv
      <4> QED BY <2>3, <3>1, <4>1, <4>2 DEF Alive, Phases, InOp, InSave, Waiting
    <3>2. CASE txn'.pc # "failed"
      <4>1. txn'.pc \in {"save", "alloc", "scan"} /\ SaveInv(file, Last, txn')
        BY <2>3, <3>2
      <4> QED BY <1>2, <2>3, <2>4, <4>1, SavingAlive
    <3> QED BY <3>1, <3>2
  <2> QED BY <1>1, <1>2, <2>5, StillAlive
<1> QED BY <1>5, <1>6

\* A search of the readers' table goes on, or ends.
LEMMA ScanAlive ==
    ASSUME NEW f, NEW m, NEW w, NEW x, NEW n, DOMAIN f = Pages, Accounted(f, m),
           m.id \in Nat, Alive(f, m, w, n), w.pc = "scan",
           Changed(w, x, {"pc", "found", "oldest", "slot"}), x.pc \in {"alloc", "scan"},
           x.pc = "scan" => x.oldest \in 0..m.id /\ x.slot \in 0..n
    PROVE  /\ Alive(f, m, x, n)
           /\ x.pc # "publish" /\ x.pc # "idle" /\ x.pc # "meta"
<1>1. CASE ~ForList(w)
  <2>1. OpInv(f, m, w) /\ ParentInv(f, m, w) /\ w.depth \in {0, 1}
    BY <1>1 DEF Alive, InOp, Waiting
  <2>2. Going(f, m, x) /\ Fields(w, x)
    BY <1>1, <2>1, ScanOp
  <2>3. x.id = w.id /\ x.depth \in {0, 1}
    BY <2>1, <2>2 DEF Fields
  <2> QED BY <2>2, <2>3, GoingAlive
<1>2. CASE ForList(w)
  <2>1. SaveInv(f, m, w)
    BY <1>2 DEF Alive, InSave, Waiting
  <2>2. Going2Save(f, m, x) /\ KeptRound(f, w, x)
    BY <1>2, <2>1, ScanSave
  <2>3. x.id = w.id /\ x.pc \in {"save", "alloc", "scan"} /\ SaveInv(f, m, x)
    BY <2>2 DEF KeptRound, SameTxn, Going2Save
  <2> QED BY <2>3, SavingAlive
<1> QED BY <1>1, <1>2

\* The minimum of two numbers.
LEMMA LeastOfTwo ==
    ASSUME NEW a \in Nat, NEW b \in Nat
    PROVE  Min({a, b}) \in Nat /\ Min({a, b}) <= a
<1>1. Min({a, b}) \in {a, b} /\ \A m \in {a, b} : Min({a, b}) <= m
  <2>1. {a, b} \subseteq Nat /\ {a, b} # {}
    OBVIOUS
  <2> QED BY <2>1, LeastOf
<1> QED BY <1>1

\* mdb_find_oldest looks at one slot.
LEMMA ScanSlotStep ==
    ASSUME IInv, NEW p, ScanSlot(p)
    PROVE  IInv'
<1>1. /\ MyTxn(p) /\ txn.pc = "scan" /\ txn.slot > 0 /\ PrivateStep
      /\ txn' = [txn EXCEPT !.oldest = Older(@, slots[txn.slot]), !.slot = @ - 1]
  BY DEF ScanSlot
<1>2. /\ txn # NoTxn /\ Alive(file, Last, txn, Len(slots))
      /\ DOMAIN file = Pages /\ Accounted(file, Last) /\ Last.id \in Nat
  BY <1>1, Mine
<1>3. txn.oldest \in 0..Last.id /\ txn.slot \in 0..Len(slots) /\ DOMAIN txn = TxnFields
  BY <1>1, <1>2 DEF Alive
<1>4. /\ Changed(txn, txn', {"pc", "found", "oldest", "slot"}) /\ txn'.pc = "scan"
      /\ txn'.oldest = Older(txn.oldest, slots[txn.slot]) /\ txn'.slot = txn.slot - 1
  BY <1>1, <1>3 DEF Changed, TxnFields
<1>5. Len(slots) \in Nat /\ slots[txn.slot].txnid \in 0..Idle
  BY <1>1, <1>3, SlotTypes DEF IInv
<1>6. Older(txn.oldest, slots[txn.slot]) \in 0..Last.id
  <2>1. txn.oldest \in Nat /\ slots[txn.slot].txnid \in Nat
    <3>1. Idle \in Nat
      BY LmdbAssumption DEF Idle
    <3> QED BY <1>2, <1>3, <1>5, <3>1
  <2>2. /\ Min({txn.oldest, slots[txn.slot].txnid}) \in Nat
        /\ Min({txn.oldest, slots[txn.slot].txnid}) <= txn.oldest
    BY <2>1, LeastOfTwo
  <2> QED BY <1>2, <1>3, <2>2 DEF Older
<1>7. txn'.oldest \in 0..Last.id /\ txn'.slot \in 0..Len(slots)
  BY <1>1, <1>3, <1>4, <1>5, <1>6
<1>8. /\ Alive(file, Last, txn', Len(slots))
      /\ txn'.pc # "publish" /\ txn'.pc # "idle" /\ txn'.pc # "meta"
  BY <1>1, <1>2, <1>4, <1>7, ScanAlive
<1> QED BY <1>1, <1>2, <1>8, StillAlive

\* A nested transaction begins.
LEMMA BeginChildStep ==
    ASSUME IInv, NEW p, BeginChild(p)
    PROVE  IInv'
<1>1. /\ MyTxn(p) /\ txn.pc = "ready" /\ txn.depth = 0 /\ PrivateStep
      /\ txn' = Child([txn EXCEPT !.nests = @ + 1], MaxTxn + txn.id)
  BY DEF BeginChild
<1>2. /\ txn # NoTxn /\ Alive(file, Last, txn, Len(slots))
      /\ DOMAIN file = Pages /\ Accounted(file, Last) /\ Last.id \in Nat
  BY <1>1, Mine
<1>3. OpInv(file, Last, txn)
  BY <1>1, <1>2 DEF Alive, InOp
<1>4. Going(file, Last, txn') /\ txn'.id = txn.id /\ txn'.depth = 1 /\ txn'.pc = "ready"
  BY <1>1, <1>2, <1>3, BeginOp
<1>5. txn'.depth \in {0, 1} /\ txn'.pc # "scan"
  BY <1>4
<1>6. /\ Alive(file, Last, txn', Len(slots))
      /\ txn'.pc # "publish" /\ txn'.pc # "idle" /\ txn'.pc # "meta"
  BY <1>2, <1>4, <1>5, GoingAlive
<1> QED BY <1>1, <1>2, <1>6, StillAlive

\* A child ends.
LEMMA ChildEnds ==
    ASSUME IInv, NEW p, MyTxn(p), txn.depth > 0, txn.pc \in {"ready", "failed"}, PrivateStep,
           \/ txn.pc = "ready" /\ txn' = ChildCommitted(txn)
           \/ txn' = ChildAborted(txn, "ready")
           \/ txn' = ChildAborted(txn, "failed")
    PROVE  IInv'
<1>1. /\ txn # NoTxn /\ Alive(file, Last, txn, Len(slots))
      /\ DOMAIN file = Pages /\ Accounted(file, Last) /\ Last.id \in Nat
  BY Mine
<1>2. txn.depth = 1 /\ ParentInv(file, Last, txn) /\ (txn.pc = "ready" => OpInv(file, Last, txn))
  BY <1>1 DEF Alive, InOp
<1>3. /\ Going(file, Last, txn') /\ txn'.id = txn.id /\ txn'.depth = 0
      /\ txn'.pc \in {"ready", "failed"}
  <2>1. CASE txn.pc = "ready" /\ txn' = ChildCommitted(txn)
    BY <1>1, <1>2, <2>1, CommitOp
  <2>2. txn.id = Last.id + 1
    BY <1>1 DEF Alive
  <2>3. CASE txn' = ChildAborted(txn, "ready")
    BY <1>2, <2>2, <2>3, AbortOp
  <2>4. CASE txn' = ChildAborted(txn, "failed")
    BY <1>2, <2>2, <2>4, AbortOp
  <2> QED BY <2>1, <2>3, <2>4
<1>4. txn'.depth \in {0, 1} /\ txn'.pc # "scan"
  BY <1>3
<1>5. /\ Alive(file, Last, txn', Len(slots))
      /\ txn'.pc # "publish" /\ txn'.pc # "idle" /\ txn'.pc # "meta"
  BY <1>1, <1>3, <1>4, GoingAlive
<1> QED BY <1>1, <1>5, StillAlive

\* A nested transaction is committed.
LEMMA CommitChildStep ==
    ASSUME IInv, NEW p, CommitChild(p)
    PROVE  IInv'
<1>1. /\ MyTxn(p) /\ txn.depth > 0 /\ txn.pc \in {"ready", "failed"} /\ PrivateStep
      /\ \/ txn.pc = "ready" /\ txn' = ChildCommitted(txn)
         \/ txn' = ChildAborted(txn, "failed")
  BY DEF CommitChild
<1> QED BY <1>1, ChildEnds

\* A nested transaction is aborted.
LEMMA AbortChildStep ==
    ASSUME IInv, NEW p, AbortChild(p)
    PROVE  IInv'
<1>1. /\ MyTxn(p) /\ txn.depth > 0 /\ txn.pc \in {"ready", "failed"} /\ PrivateStep
      /\ txn' = ChildAborted(txn, "ready")
  BY DEF AbortChild
<1> QED BY <1>1, ChildEnds

\* A round of mdb_freelist_save.
LEMMA SaveFreelistStep ==
    ASSUME IInv, NEW p, SaveFreelist(p)
    PROVE  IInv'
<1>1. MyTxn(p) /\ txn.pc = "save" /\ PrivateStep /\ Rounded(txn, txn')
  BY DEF SaveFreelist, Rounded
<1>2. /\ txn # NoTxn /\ Alive(file, Last, txn, Len(slots))
      /\ DOMAIN file = Pages /\ Accounted(file, Last) /\ Last.id \in Nat
  BY <1>1, Mine
<1>3. SaveInv(file, Last, txn)
  BY <1>1, <1>2 DEF Alive, InSave
<1>5. /\ KeptRound(file, txn, txn') /\ DOMAIN txn' = TxnFields
      /\ \/ txn'.pc \in {"save", "alloc"} /\ SaveInv(file, Last, txn')
         \/ txn'.pc = "flush" /\ FlushInv(file, Last, txn')
  BY <1>1, <1>2, <1>3, SaveOne
<1>6. txn'.id = txn.id /\ txn'.depth = txn.depth
  BY <1>5 DEF KeptRound, SameTxn
<1>7. /\ Alive(file, Last, txn', Len(slots))
      /\ txn'.pc # "publish" /\ txn'.pc # "idle" /\ txn'.pc # "meta"
  <2>1. CASE txn'.pc \in {"save", "alloc"} /\ SaveInv(file, Last, txn')
    <3>1. txn'.pc \in {"save", "alloc", "scan"} /\ txn'.pc # "scan"
      BY <2>1
    <3> QED BY <1>2, <1>6, <2>1, <3>1, SavingAlive
  <2>2. CASE txn'.pc = "flush" /\ FlushInv(file, Last, txn')
    <3>1. txn'.id = Last.id + 1 /\ txn'.id <= MaxTxn /\ txn'.depth \in {0, 1}
      BY <1>2, <1>6 DEF Alive
    <3> QED BY <1>5, <2>2, <3>1 DEF Alive, Phases, InOp, InSave, Waiting
  <2> QED BY <1>5, <2>1, <2>2
<1> QED BY <1>1, <1>2, <1>7, StillAlive

-----------------------------------------------------------------------------
(* The end of a write transaction, and the steps that change more.         *)

\* A write transaction that ends before its meta page is written leaves the file
\* as it was.
LEMMA Ended ==
    ASSUME IInv, EndTxn, txn.pc # "publish", UNCHANGED fileVars,
           UNCHANGED <<mti_txnid, slots, ownerDied, env, reader, history, durable, bound>>
    PROVE  IInv'
<1>1. txn' = NoTxn /\ wmutex' = None
  BY DEF EndTxn
<1>2. MetaInv' /\ DiskInv' /\ Last' = Last
  BY MetaKept DEF IInv
<1>3. LockInv'
  BY <1>1, <1>2 DEF LockInv, IInv
<1>4. EnvInv' /\ SlotInv'
  BY DEF EnvInv, SlotInv, IInv
<1>5. TxnInv'
  BY <1>1 DEF TxnInv
<1> QED BY <1>2, <1>3, <1>4, <1>5 DEF IInv

\* Abort, and the errors of a commit.
LEMMA AbortStep ==
    ASSUME IInv, NEW p, Abort(p) \/ SaveError(p) \/ WriteError(p)
    PROVE  IInv'
<1>1. EndTxn /\ txn.pc # "publish" /\ UNCHANGED fileVars
  BY DEF Abort, SaveError, WriteError
<1>2. UNCHANGED <<mti_txnid, slots, ownerDied, env, reader, history, durable, bound>>
  BY DEF Abort, SaveError, WriteError
<1> QED BY <1>1, <1>2, Ended

\* A commit with nothing to write ends, any other saves the free list.
LEMMA StartCommitStep ==
    ASSUME IInv, NEW p, StartCommit(p)
    PROVE  IInv'
<1>1. /\ MyTxn(p) /\ txn.pc = "ready" /\ txn.depth = 0
      /\ \/ EndTxn
         \/ txn.dirty # EmptyMap /\ txn' = Save(txn) /\ UNCHANGED <<wmutex, before>>
      /\ UNCHANGED fileVars
      /\ UNCHANGED <<mti_txnid, slots, ownerDied, env, reader, metasync, history, durable,
                     bound, faults>>
  BY DEF StartCommit
<1>2. CASE EndTxn
  BY <1>1, <1>2, Ended
<1>3. CASE txn.dirty # EmptyMap /\ txn' = Save(txn) /\ UNCHANGED <<wmutex, before>>
  <2>1. /\ txn # NoTxn /\ Alive(file, Last, txn, Len(slots))
        /\ DOMAIN file = Pages /\ Accounted(file, Last) /\ Last.id \in Nat
    BY <1>1, Mine
  <2>2. OpInv(file, Last, txn)
    BY <1>1, <2>1 DEF Alive, InOp
  <2>3. DOMAIN txn.dirty # {}
    <3>1. Fn(txn.dirty)
      BY <2>2 DEF OpInv, PageInv, Held, Shape
    <3> QED BY <1>3, <3>1, NoMap
  <2>4. SaveInv(file, Last, txn') /\ txn'.pc = "save" /\ KeptRound(file, txn, txn')
    BY <1>1, <1>3, <2>1, <2>2, <2>3, SaveOp
  <2>5. txn'.id = txn.id /\ txn'.pc \in {"save", "alloc", "scan"} /\ txn'.pc # "scan"
    BY <2>4 DEF KeptRound, SameTxn
  <2>6. /\ Alive(file, Last, txn', Len(slots))
        /\ txn'.pc # "publish" /\ txn'.pc # "idle" /\ txn'.pc # "meta"
    BY <2>1, <2>4, <2>5, SavingAlive
  <2>7. PrivateStep
    BY <1>1, <1>3 DEF PrivateStep, lockVars
  <2> QED BY <1>1, <2>1, <2>6, <2>7, StillAlive
<1> QED BY <1>1, <1>2, <1>3

\* mdb_find_oldest ends, and mdb_page_alloc goes on with what it found.
LEMMA EndScanStep ==
    ASSUME IInv, NEW p, EndScan(p)
    PROVE  IInv'
<1>1. /\ MyTxn(p) /\ txn.pc = "scan" /\ env' = [env EXCEPT ![p].pgoldest = txn.oldest]
      /\ txn' = [txn EXCEPT !.pc = "alloc", !.found = TRUE]
      /\ UNCHANGED fileVars /\ UNCHANGED lockVars /\ UNCHANGED ghostVars /\ UNCHANGED reader
  BY DEF EndScan
<1>2. /\ txn # NoTxn /\ Alive(file, Last, txn, Len(slots))
      /\ DOMAIN file = Pages /\ Accounted(file, Last) /\ Last.id \in Nat /\ p \in Writers
  BY <1>1, Mine
<1>3. txn.oldest \in 0..Last.id /\ DOMAIN txn = TxnFields
  BY <1>1, <1>2 DEF Alive
<1>4. Changed(txn, txn', {"pc", "found", "oldest", "slot"}) /\ txn'.pc = "alloc"
  BY <1>1, <1>3 DEF Changed, TxnFields
<1>5. /\ Alive(file, Last, txn', Len(slots))
      /\ txn'.pc # "publish" /\ txn'.pc # "idle" /\ txn'.pc # "meta"
  BY <1>1, <1>2, <1>4, ScanAlive
<1>6. MetaInv' /\ DiskInv' /\ Last' = Last
  BY <1>1, MetaKept DEF IInv, ghostVars
<1>7. DOMAIN env = Procs /\ p \in Procs
  BY <1>2 DEF IInv, EnvInv, Procs
<1>8. /\ DOMAIN env' = Procs /\ env'[p] = [env[p] EXCEPT !.pgoldest = txn.oldest]
      /\ \A q \in Procs : q # p => env'[q] = env[q]
  BY <1>1, <1>7
<1>13. ASSUME NEW q \in Procs
       PROVE  /\ env'[q].open = env[q].open /\ env'[q].live = env[q].live
              /\ env'[q].pgoldest \in 0..Last.id /\ DOMAIN env'[q] = DOMAIN env[q]
  <2>1. CASE q # p
    BY <1>8, <2>1 DEF IInv, LockInv
  <2>2. CASE q = p
    <3>1. DOMAIN env[p] = {"open", "live", "pgoldest", "suspect"}
      BY <1>7 DEF IInv, EnvInv
    <3> QED BY <1>3, <1>8, <2>2, <3>1
  <2> QED BY <2>1, <2>2
<1>9. LockInv'
  <2>1. /\ LockInv /\ wmutex' = wmutex /\ mti_txnid' = mti_txnid /\ ownerDied' = ownerDied
        /\ wmutex = p
    BY <1>1, <1>2 DEF IInv, lockVars, MyTxn
  <2>2. txn' # NoTxn
    BY <1>5 DEF NoTxn
  <2> QED BY <1>1, <1>2, <1>3, <1>5, <1>6, <1>7, <1>13, <2>1, <2>2 DEF LockInv
<1>10. EnvInv'
  BY <1>1, <1>8, <1>13 DEF EnvInv, IInv, ghostVars
<1>11. SlotInv'
  BY <1>1 DEF SlotInv, IInv, lockVars, ghostVars
<1>12. TxnInv'
  <2>1. file' = file /\ slots' = slots
    BY <1>1 DEF fileVars, lockVars
  <2> QED BY <1>5, <1>6, <2>1 DEF TxnInv
<1> QED BY <1>6, <1>9, <1>10, <1>11, <1>12 DEF IInv

-----------------------------------------------------------------------------
(* The pages of a commit are written, synced and named by a meta page.     *)

\* What is known of the meta pages depends on them and on the numbers only.
LEMMA MetaSame ==
    ASSUME MetaInv, UNCHANGED <<meta, metaDisk, history, durable>>
    PROVE  MetaInv' /\ Last' = Last /\ Other' = Other /\ (Settled' <=> Settled)
<1>1. Last' = Last
  BY DEF Last
<1>2. Other' = Other /\ (Settled' <=> Settled)
  BY <1>1 DEF Other, Settled
<1>3. MetaInv'
  BY <1>1, <1>2 DEF MetaInv
<1> QED BY <1>1, <1>2, <1>3

\* One page more.
FlushOne(w, x, pg) ==
    /\ pg \in w.left
    /\ Changed(w, x, {"left", "pc"})
    /\ x.left = w.left \ {pg}
    /\ x.left = {} => x.pc = "sync"
    /\ x.left # {} => x.pc = "flush"

WrittenTo(w, f, g, pg) ==
    /\ Fn(g) /\ DOMAIN g = DOMAIN f
    /\ g[pg] = w.dirty[pg]
    /\ \A q \in DOMAIN f \ {pg} : g[q] = f[q]

\* The pages to write are not those of the last commit.
LEMMA FlushPages ==
    ASSUME NEW f, NEW m, NEW w, Accounted(f, m), FlushInv(f, m, w)
    PROVE  /\ \A pg \in DOMAIN w.dirty : pg \in Pages /\ pg \notin Used(f, m)
           /\ w.left \subseteq DOMAIN w.dirty /\ Shape(m, w) /\ w.depth = 0
           /\ DOMAIN w.under = {} /\ w.id = m.id + 1
           /\ w.next \in Int /\ w.next > m.last /\ w.next < MaxPg
<1>1. /\ w.next \in (m.last + 1)..(MaxPg - 1) /\ w.left \subseteq DOMAIN w.dirty
      /\ Shape(m, w) /\ w.depth = 0 /\ DOMAIN w.under = {} /\ w.id = m.id + 1
      /\ DOMAIN w.dirty \subseteq FirstPage..(w.next - 1)
      /\ DOMAIN w.dirty \cap Used(f, m) = {}
  BY DEF FlushInv, Shape
<1>2. MaxPg \in Nat /\ FirstPage = 2
  BY LmdbAssumption DEF FirstPage
<1>3. m.last \in Int
  BY UsedPages
<1>4. w.next \in Int /\ w.next > m.last /\ w.next < MaxPg
  BY <1>1, <1>2, <1>3
<1>5. \A pg \in FirstPage..(w.next - 1) : pg \in Pages
  BY <1>2, <1>4 DEF Pages
<1> QED BY <1>1, <1>4, <1>5

\* Writing a dirty page to the file changes nothing the transaction sees.
LEMMA OwnWritten ==
    ASSUME NEW f, NEW g, NEW w, NEW x, NEW pg \in DOMAIN w.dirty, DOMAIN f = Pages,
           pg \in Pages, WrittenTo(w, f, g, pg), x.dirty = w.dirty, x.under = w.under
    PROVE  Own(x, g) = Own(w, f)
<1>1. Own(x, g) = Own(w, g)
  BY DEF Own
<1>2. /\ DOMAIN Own(w, g) = DOMAIN Own(w, f) /\ Fn(Own(w, g)) /\ Fn(Own(w, f))
  BY DEF Own, Fn, WrittenTo
<1>3. \A q \in DOMAIN Own(w, f) : Own(w, g)[q] = Own(w, f)[q]
  BY DEF Own, WrittenTo
<1> QED BY <1>1, <1>2, <1>3, SameFn

\* One page of the commit is written.
LEMMA FlushedOne ==
    ASSUME NEW f, NEW g, NEW m, NEW w, NEW x, NEW pg, DOMAIN f = Pages, Accounted(f, m),
           FlushInv(f, m, w), FlushOne(w, x, pg), WrittenTo(w, f, g, pg)
    PROVE  FlushInv(g, m, x)
<1>1. /\ pg \in DOMAIN w.dirty /\ pg \in Pages /\ pg \notin Used(f, m) /\ Shape(m, w)
      /\ w.depth = 0
  BY FlushPages DEF FlushOne
<1>2. /\ x.dirty = w.dirty /\ x.under = w.under /\ x.id = w.id /\ x.next = w.next
      /\ x.depth = w.depth /\ x.froot = w.froot /\ x.root = w.root /\ DOMAIN x = TxnFields
  BY DEF FlushOne, Changed, TxnFields
<1>3. Own(x, g) = Own(w, f) /\ NewMeta(x) = NewMeta(w)
  BY <1>1, <1>2, OwnWritten DEF NewMeta
<1>4. \A q \in Used(f, m) : g[q] = f[q]
  BY <1>1, UsedPages DEF WrittenTo
<1>5. Used(g, m) = Used(f, m) /\ Listed(g, m) = Listed(f, m)
  BY <1>4, AccountedFrame
<1>6. Shape(m, x)
  BY <1>1, <1>2 DEF Shape
<1>7. \A q \in DOMAIN x.dirty \ x.left : g[q] = x.dirty[q]
  <2>1. ASSUME NEW q \in DOMAIN w.dirty \ x.left
        PROVE  g[q] = w.dirty[q]
    <3>1. CASE q = pg
      BY <3>1 DEF WrittenTo
    <3>2. CASE q # pg
      <4>1. q \notin w.left /\ q \in Pages
        BY <2>1, <3>2, FlushPages DEF FlushOne
      <4> QED BY <2>1, <3>2, <4>1 DEF WrittenTo, FlushInv
    <3> QED BY <3>1, <3>2
  <2> QED BY <1>2, <2>1
<1>8. x.left \subseteq DOMAIN x.dirty /\ (IF x.pc = "flush" THEN x.left # {} ELSE x.left = {})
  BY <1>2, FlushPages DEF FlushOne
<1>9. /\ DOMAIN w.dirty \subseteq FirstPage..(w.next - 1)
      /\ DOMAIN w.dirty \cap Used(f, m) = {}
      /\ m.id \in DOMAIN Listed(f, m) => DOMAIN w.dirty \cap Listed(f, m)[m.id] = {}
      /\ Accounted(Own(w, f), NewMeta(w))
      /\ \A r \in DOMAIN Records(Own(w, f), w.froot) \ {w.id} :
            Records(Own(w, f), w.froot)[r] \cap Used(f, m) = {}
  BY DEF FlushInv
<1> QED BY <1>1, <1>2, <1>3, <1>5, <1>6, <1>7, <1>8, <1>9 DEF FlushInv

\* The pages to write are not those of the commit before, as long as the disk may
\* have that one: they come from records older than it.
LEMMA DirtyOther ==
    ASSUME NEW w, DiskInv, ~Settled, FlushInv(file, Last, w)
    PROVE  DOMAIN w.dirty \cap Used(file, Other) = {}
<1>1. /\ Accounted(file, Last) /\ Used(file, Other) \subseteq FirstPage..Last.last
      /\ \A r \in DOMAIN Listed(file, Last) \ {Last.id} :
            Listed(file, Last)[r] \cap Used(file, Other) = {}
  BY DEF DiskInv, Sound
<1>2. /\ DOMAIN w.dirty \cap Used(file, Last) = {}
      /\ Last.id \in DOMAIN Listed(file, Last) =>
           DOMAIN w.dirty \cap Listed(file, Last)[Last.id] = {}
  BY DEF FlushInv
<1>3. Used(file, Last) \cup UNION {Listed(file, Last)[r] : r \in DOMAIN Listed(file, Last)}
        = FirstPage..Last.last
  BY <1>1 DEF Accounted
<1>4. ASSUME NEW pg \in DOMAIN w.dirty, pg \in Used(file, Other)
      PROVE  FALSE
  <2>1. PICK r \in DOMAIN Listed(file, Last) : pg \in Listed(file, Last)[r]
    BY <1>1, <1>2, <1>3, <1>4
  <2>2. r # Last.id
    BY <1>2, <2>1
  <2> QED BY <1>1, <1>4, <2>1, <2>2
<1> QED BY <1>4

\* mdb_page_flush writes a page.
LEMMA FlushPageStep ==
    ASSUME IInv, NEW p, FlushPage(p)
    PROVE  IInv'
<1> DEFINE pg == Min(txn.left)
<1>1. /\ MyTxn(p) /\ txn.pc = "flush"
      /\ file' = [file EXCEPT ![pg] = txn.dirty[pg]]
      /\ disk' = [disk EXCEPT ![pg] = @ \cup {txn.dirty[pg]}]
      /\ txn' = [txn EXCEPT !.left = txn.left \ {pg},
                            !.pc = IF txn.left \ {pg} = {} THEN "sync" ELSE "flush"]
      /\ UNCHANGED <<meta, metaDisk>> /\ UNCHANGED lockVars
      /\ UNCHANGED env /\ UNCHANGED reader /\ UNCHANGED ghostVars
  BY DEF FlushPage
<1>2. /\ txn # NoTxn /\ Alive(file, Last, txn, Len(slots))
      /\ DOMAIN file = Pages /\ Accounted(file, Last) /\ Last.id \in Nat
  BY <1>1, Mine
<1>3. FlushInv(file, Last, txn) /\ DOMAIN txn = TxnFields
  BY <1>1, <1>2 DEF Alive
<1>4. pg \in txn.left
  <2>1. txn.left # {}
    BY <1>1, <1>3 DEF FlushInv
  <2>2. txn.left \subseteq Nat
    <3>1. Pages \subseteq Nat
      BY LmdbAssumption DEF Pages, FirstPage
    <3> QED BY <1>2, <1>3, <3>1, FlushPages
  <2> QED BY <2>1, <2>2, LeastOf
<1> HIDE DEF pg
<1>5. pg \in DOMAIN txn.dirty /\ pg \in Pages /\ pg \notin Used(file, Last)
  BY <1>2, <1>3, <1>4, FlushPages
<1>6. FlushOne(txn, txn', pg)
  BY <1>1, <1>3, <1>4 DEF FlushOne, Changed, TxnFields
<1>7. WrittenTo(txn, file, file', pg)
  BY <1>1, <1>2, <1>5 DEF WrittenTo, Fn
<1>8. FlushInv(file', Last, txn')
  BY <1>2, <1>3, <1>6, <1>7, FlushedOne
<1>9. /\ MetaInv' /\ Last' = Last /\ Other' = Other /\ (Settled' <=> Settled)
      /\ history' = history
  BY <1>1, MetaSame DEF IInv, ghostVars
<1>10. DOMAIN disk = Pages /\ DiskInv
  BY DEF IInv, DiskInv
<1>11. \A q \in Pages : q # pg => file'[q] = file[q] /\ disk'[q] = disk[q]
  BY <1>1, <1>2, <1>10
<1>12. DiskInv'
  <2>1. /\ Fn(file') /\ DOMAIN file' = Pages /\ Fn(disk') /\ DOMAIN disk' = Pages
    BY <1>1, <1>2, <1>10 DEF Fn
  <2>2. \A q \in Pages : file'[q] \in disk'[q]
    <3>1. file'[pg] = txn.dirty[pg] /\ disk'[pg] = disk[pg] \cup {txn.dirty[pg]}
      BY <1>1, <1>2, <1>5, <1>10
    <3> QED BY <1>10, <1>11, <3>1 DEF DiskInv
  <2>3. ASSUME NEW m, Sound(file, disk, history, m), pg \notin Used(file, m)
        PROVE  /\ Sound(file', disk', history, m)
               /\ Used(file', m) = Used(file, m) /\ Listed(file', m) = Listed(file, m)
    <3>1. Accounted(file, m)
      BY <2>3 DEF Sound
    <3>2. \A q \in Used(file, m) : file'[q] = file[q] /\ disk'[q] = disk[q]
      BY <1>11, <2>3, <3>1, UsedPages
    <3>3. m.id \in DOMAIN history
      BY <2>3 DEF Sound
    <3> QED BY <2>3, <3>2, <3>3, SoundFrame
  <2>4. Sound(file, disk, history, Last)
    BY <1>10 DEF DiskInv
  <2>5. /\ Sound(file', disk', history, Last) /\ Listed(file', Last) = Listed(file, Last)
    BY <1>5, <2>3, <2>4
  <2>6. ASSUME ~Settled
        PROVE  /\ Sound(file', disk', history, Other)
               /\ Used(file', Other) \subseteq FirstPage..Last.last
               /\ \A r \in DOMAIN Listed(file', Last) \ {Last.id} :
                     Listed(file', Last)[r] \cap Used(file', Other) = {}
    <3>1. /\ Sound(file, disk, history, Other)
          /\ Used(file, Other) \subseteq FirstPage..Last.last
          /\ \A r \in DOMAIN Listed(file, Last) \ {Last.id} :
                Listed(file, Last)[r] \cap Used(file, Other) = {}
      BY <1>10, <2>6 DEF DiskInv
    <3>2. pg \notin Used(file, Other)
      BY <1>3, <1>5, <1>10, <2>6, DirtyOther
    <3>3. Sound(file', disk', history, Other) /\ Used(file', Other) = Used(file, Other)
      BY <2>3, <3>1, <3>2
    <3> QED BY <2>5, <3>1, <3>3
  <2> QED BY <1>9, <2>1, <2>2, <2>5, <2>6 DEF DiskInv
<1>13. /\ txn'.pc \in {"flush", "sync"} /\ txn' # NoTxn /\ txn'.id = txn.id
       /\ txn'.depth = txn.depth /\ DOMAIN txn' = TxnFields
  <2>1. /\ txn'.pc \in {"flush", "sync"} /\ txn'.id = txn.id
        /\ txn'.depth = txn.depth /\ DOMAIN txn' = TxnFields
    BY <1>6 DEF FlushOne, Changed, TxnFields
  <2> QED BY <2>1 DEF NoTxn
<1>14. TxnInv'
  <2>1. txn'.id = Last.id + 1 /\ txn'.id <= MaxTxn /\ txn'.depth \in {0, 1}
    BY <1>2, <1>13 DEF Alive
  <2>2. Alive(file', Last, txn', Len(slots'))
    BY <1>8, <1>13, <2>1 DEF Alive, Phases, InOp, InSave, Waiting
  <2> QED BY <1>9, <1>13, <2>2 DEF TxnInv
<1>15. LockInv'
  <2>1. /\ LockInv /\ wmutex' = wmutex /\ mti_txnid' = mti_txnid /\ ownerDied' = ownerDied
        /\ env' = env
    BY <1>1 DEF IInv, lockVars
  <2> QED BY <1>1, <1>2, <1>9, <1>13, <2>1 DEF LockInv
<1>16. EnvInv' /\ SlotInv'
  BY <1>1 DEF EnvInv, SlotInv, IInv, lockVars, ghostVars
<1> QED BY <1>9, <1>12, <1>14, <1>15, <1>16 DEF IInv

\* The two meta pages take turns.
LEMMA Parity ==
    ASSUME NEW n \in Nat
    PROVE  /\ n % 2 \in 0..1 /\ (n + 1) % 2 \in 0..1
           /\ n % 2 # (n + 1) % 2
           /\ (n + 1 + 1) % 2 = n % 2
           /\ 0..1 = {n % 2, (n + 1) % 2}
<1>1. n % 2 \in 0..1 /\ (n + 1) % 2 \in 0..1 /\ n % 2 # (n + 1) % 2 /\ (n + 1 + 1) % 2 = n % 2
  OBVIOUS
<1> QED BY <1>1

\* The meta page of the larger transaction is picked.
LEMMA PickLarger ==
    ASSUME NEW m, NEW i \in 0..1, NEW k \in 0..1, i # k, m[k].id \in Int, m[i].id \in Int,
           m[k].id < m[i].id
    PROVE  PickMeta(m) = m[i]
<1>1. (i = 0 /\ k = 1) \/ (i = 1 /\ k = 0)
  OBVIOUS
<1>2. CASE i = 0 /\ k = 1
  <2>1. ~(m[0].id < m[1].id)
    BY <1>2
  <2> QED BY <1>2, <2>1 DEF PickMeta
<1>3. CASE i = 1 /\ k = 0
  BY <1>3 DEF PickMeta
<1> QED BY <1>1, <1>2, <1>3

\* The two meta pages.
LEMMA TwoMetas ==
    ASSUME MetaInv
    PROVE  /\ Last.id \in Nat
           /\ Last = meta[Last.id % 2] /\ Other = meta[(Last.id + 1) % 2]
           /\ Last.id = 0 => Other = EmptyMeta
           /\ Last.id # 0 => Other.id = Last.id - 1
           /\ Other.id \in 0..Last.id
           /\ Other.id = 0 => Other = EmptyMeta
<1>1. MaxTxn \in Nat
  BY LmdbAssumption
<1>2. Last.id \in Nat
  BY <1>1 DEF MetaInv
<1>3. Last.id = 0 => Other = EmptyMeta
  BY DEF MetaInv
<1>4. Last.id # 0 => Other.id = Last.id - 1
  BY DEF MetaInv
<1>5. EmptyMeta.id = 0
  BY DEF EmptyMeta
<1>6. Other \in metaDisk[(Last.id + 1) % 2] /\ (Last.id + 1) % 2 \in 0..1
  BY <1>2, Parity DEF MetaInv
<1>7. Other.id = 0 => Other = EmptyMeta
  BY <1>6 DEF MetaInv
<1> QED BY <1>2, <1>3, <1>4, <1>5, <1>7 DEF MetaInv, Other

\* Everything that the meta pages name is on disk: nothing else is asked of the
\* one before the last.
LEMMA SettledDisk ==
    ASSUME NEW f, NEW d, NEW h, NEW m, Sound(f, d, h, m), NEW g, NEW e, NEW i,
           \A pg \in Used(f, m) : g[pg] = f[pg] /\ e[pg] = {g[pg]},
           m.id \in DOMAIN i, i[m.id] = h[m.id]
    PROVE  Sound(g, e, i, m)
<1>1. \A pg \in Used(f, m) : d[pg] = {f[pg]}
  BY DEF Sound
<1>2. \A pg \in Used(f, m) : g[pg] = f[pg] /\ e[pg] = d[pg]
  BY <1>1
<1> QED BY <1>2, SoundFrame

\* mdb_env_sync.
LEMMA SyncStep ==
    ASSUME IInv, NEW p, Sync(p)
    PROVE  IInv'
<1>1. /\ MyTxn(p) /\ txn.pc = "sync" /\ disk' = Synced
      /\ metaDisk' = [i \in 0..1 |-> {meta[i]}]
      /\ txn' = [txn EXCEPT !.pc = "meta"]
      /\ UNCHANGED <<file, meta>> /\ UNCHANGED lockVars
      /\ UNCHANGED env /\ UNCHANGED reader /\ UNCHANGED ghostVars
  BY DEF Sync
<1>2. /\ txn # NoTxn /\ Alive(file, Last, txn, Len(slots))
      /\ DOMAIN file = Pages /\ Accounted(file, Last) /\ Last.id \in Nat
  BY <1>1, Mine
<1>3. /\ Last' = Last /\ Other' = Other /\ history' = history /\ durable' = durable
      /\ file' = file /\ meta' = meta
  BY <1>1 DEF Last, Other, ghostVars
<1>4. /\ MetaInv /\ DiskInv /\ Last.id % 2 \in 0..1 /\ (Last.id + 1) % 2 \in 0..1
      /\ Last = meta[Last.id % 2] /\ Other = meta[(Last.id + 1) % 2]
  BY <1>2, TwoMetas, Parity DEF IInv
<1>5. metaDisk'[Last.id % 2] = {Last} /\ metaDisk'[(Last.id + 1) % 2] = {Other}
  BY <1>1, <1>4
<1>6. Settled'
  BY <1>3, <1>5 DEF Settled
<1>7. MetaInv'
  <2>1. Fn(metaDisk') /\ DOMAIN metaDisk' = 0..1
    BY <1>1 DEF Fn
  <2>2. \A i \in 0..1 : \A x \in metaDisk'[i] : x.id = 0 => x = EmptyMeta
    <3>1. ASSUME NEW i \in 0..1
          PROVE  meta[i].id = 0 => meta[i] = EmptyMeta
      <4>1. meta[i] = Last \/ meta[i] = Other
        BY <1>2, <1>4, Parity
      <4>2. Last \in metaDisk[Last.id % 2]
        BY <1>4 DEF MetaInv
      <4> QED BY <1>4, <4>1, <4>2, TwoMetas DEF MetaInv
    <3>2. \A i \in 0..1 : metaDisk'[i] = {meta[i]}
      BY <1>1
    <3> QED BY <3>1, <3>2
  <2> QED BY <1>3, <1>4, <1>5, <1>6, <2>1, <2>2 DEF MetaInv
<1>8. DiskInv'
  <2>1. Fn(disk') /\ DOMAIN disk' = Pages /\ \A pg \in Pages : disk'[pg] = {file[pg]}
    BY <1>1 DEF Synced, Fn
  <2>2. Sound(file, disk', history, Last)
    <3>1. Sound(file, disk, history, Last)
      BY <1>4 DEF DiskInv
    <3>2. \A pg \in Used(file, Last) : file[pg] = file[pg] /\ disk'[pg] = {file[pg]}
      BY <1>2, <2>1, UsedPages
    <3>3. Last.id \in DOMAIN history
      BY <3>1 DEF Sound
    <3> QED BY <3>1, <3>2, <3>3, SettledDisk
  <2> QED BY <1>3, <1>4, <1>6, <2>1, <2>2 DEF DiskInv
<1>9. /\ Changed(txn, txn', {"pc"}) /\ txn'.pc = "meta"
  BY <1>1, <1>2 DEF Alive, Changed, TxnFields
<1>10. /\ txn'.dirty = txn.dirty /\ txn'.under = txn.under /\ txn'.id = txn.id
       /\ txn'.next = txn.next /\ txn'.left = txn.left
       /\ txn'.depth = txn.depth /\ txn'.froot = txn.froot /\ txn'.root = txn.root
       /\ DOMAIN txn' = TxnFields
  BY <1>9 DEF Changed, TxnFields
<1>11. FlushInv(file, Last, txn')
  <2>1. FlushInv(file, Last, txn)
    BY <1>1, <1>2 DEF Alive
  <2>2. Own(txn', file) = Own(txn, file) /\ NewMeta(txn') = NewMeta(txn)
    BY <1>10 DEF Own, NewMeta
  <2>3. Shape(Last, txn')
    BY <1>10, <2>1 DEF FlushInv, Shape
  <2> QED BY <1>1, <1>9, <1>10, <2>1, <2>2, <2>3 DEF FlushInv
<1>12. TxnInv'
  <2>1. txn'.id = Last.id + 1 /\ txn'.id <= MaxTxn /\ txn'.depth \in {0, 1}
    BY <1>2, <1>10 DEF Alive
  <2>2. Alive(file', Last, txn', Len(slots'))
    BY <1>3, <1>9, <1>10, <1>11, <2>1 DEF Alive, Phases, InOp, InSave, Waiting
  <2>3. Synced' = Synced
    BY <1>3 DEF Synced
  <2> QED BY <1>1, <1>3, <1>9, <2>2, <2>3 DEF TxnInv
<1>13. LockInv'
  <2>1. /\ LockInv /\ wmutex' = wmutex /\ mti_txnid' = mti_txnid /\ ownerDied' = ownerDied
        /\ env' = env
    BY <1>1 DEF IInv, lockVars
  <2>2. txn' # NoTxn
    BY <1>9 DEF NoTxn
  <2> QED BY <1>1, <1>2, <1>3, <1>9, <2>1, <2>2 DEF LockInv
<1>14. EnvInv' /\ SlotInv'
  BY <1>1 DEF EnvInv, SlotInv, IInv, lockVars, ghostVars
<1> QED BY <1>7, <1>8, <1>12, <1>13, <1>14 DEF IInv

\* The pages are as the transaction left them.
LEMMA FlushEnds ==
    ASSUME NEW f, NEW m, NEW w, DOMAIN f = Pages, Accounted(f, m), FlushInv(f, m, w),
           w.pc # "flush"
    PROVE  /\ Accounted(f, NewMeta(w))
           /\ Used(f, m) \subseteq FirstPage..NewMeta(w).last
           /\ \A r \in DOMAIN Listed(f, NewMeta(w)) \ {w.id} :
                 Listed(f, NewMeta(w))[r] \cap Used(f, m) = {}
<1> DEFINE o == Own(w, f)
           n == NewMeta(w)
<1>1. /\ Accounted(o, n) /\ DOMAIN w.under = {} /\ w.left = {}
      /\ \A pg \in DOMAIN w.dirty : f[pg] = w.dirty[pg]
      /\ \A r \in DOMAIN Records(o, w.froot) \ {w.id} :
            Records(o, w.froot)[r] \cap Used(f, m) = {}
  BY FlushPages DEF FlushInv
<1>2. \A pg \in DOMAIN f \cup DOMAIN w.dirty : f[pg] = o[pg]
  BY <1>1 DEF Own
<1>3. n.root = w.root /\ n.froot = w.froot /\ n.last = w.next - 1
  BY DEF NewMeta
<1> HIDE DEF o, n
<1>4. \A pg \in Used(o, n) : f[pg] = o[pg]
  BY <1>1, <1>2, UsedPages
<1>5. Accounted(f, n) /\ Listed(f, n) = Listed(o, n)
  BY <1>1, <1>4, AccountedFrame
<1>6. Listed(o, n) = Records(o, w.froot)
  BY <1>3 DEF Listed
<1>7. Used(f, m) \subseteq FirstPage..n.last
  <2>1. /\ m.last \in Int /\ \A pg \in Used(f, m) : pg \in FirstPage..m.last
        /\ w.next \in Int /\ w.next > m.last
    BY UsedPages, FlushPages
  <2>2. FirstPage \in Int
    BY DEF FirstPage
  <2> QED BY <1>3, <2>1, <2>2
<1> QED BY <1>1, <1>5, <1>6, <1>7 DEF n

\* mdb_env_write_meta names the new tree.
LEMMA WriteMetaStep ==
    ASSUME IInv, NEW p, WriteMeta(p)
    PROVE  IInv'
<1> DEFINE n == NewMeta(txn)
<1>1. /\ MyTxn(p) /\ txn.pc = "meta"
      /\ meta' = [meta EXCEPT ![Toggle] = n]
      /\ metaDisk' = [metaDisk EXCEPT ![Toggle] = @ \cup {n}]
      /\ history' = With(history, txn.id, Contents(file, txn.root))
      /\ txn' = [txn EXCEPT !.pc = "publish"]
      /\ UNCHANGED <<file, disk>> /\ UNCHANGED lockVars
      /\ UNCHANGED env /\ UNCHANGED reader /\ UNCHANGED <<durable, bound>>
  BY DEF WriteMeta, NewMeta
<1>2. /\ txn # NoTxn /\ Alive(file, Last, txn, Len(slots))
      /\ DOMAIN file = Pages /\ Accounted(file, Last) /\ Last.id \in Nat
  BY <1>1, Mine
<1>3. /\ FlushInv(file, Last, txn) /\ txn.id = Last.id + 1 /\ txn.id <= MaxTxn
      /\ disk = Synced /\ metaDisk = [i \in 0..1 |-> {meta[i]}]
      /\ DOMAIN txn = TxnFields
  BY <1>1, <1>2 DEF Alive, IInv, TxnInv
<1>4. /\ MetaInv /\ DiskInv /\ Last.id % 2 \in 0..1 /\ Toggle \in 0..1
      /\ Last.id % 2 # Toggle /\ (Last.id + 1 + 1) % 2 = Last.id % 2
      /\ Toggle = (Last.id + 1) % 2 /\ 0..1 = {Last.id % 2, Toggle}
      /\ Last = meta[Last.id % 2] /\ Other = meta[Toggle]
  BY <1>2, <1>3, TwoMetas, Parity DEF IInv, Toggle
<1>5. n.id = Last.id + 1 /\ n.root = txn.root
  BY <1>3 DEF NewMeta
<1> HIDE DEF n
<1>6. DOMAIN meta = 0..1 /\ DOMAIN metaDisk = 0..1
  BY <1>4 DEF MetaInv
<1>7. /\ meta'[Toggle] = n /\ meta'[Last.id % 2] = Last
      /\ metaDisk'[Toggle] = {Other, n} /\ metaDisk'[Last.id % 2] = {Last}
      /\ DOMAIN meta' = 0..1 /\ DOMAIN metaDisk' = 0..1 /\ Fn(meta') /\ Fn(metaDisk')
  BY <1>1, <1>3, <1>4, <1>6 DEF Fn
<1>8. Last' = n
  <2>1. PickMeta(meta') = meta'[Toggle]
    <3>1. /\ meta'[Last.id % 2].id \in Int /\ meta'[Toggle].id \in Int
          /\ meta'[Last.id % 2].id < meta'[Toggle].id
      BY <1>2, <1>5, <1>7
    <3> QED BY <1>4, <3>1, PickLarger
  <2> QED BY <1>7, <2>1 DEF Last
<1>9. Last.id' % 2 = Toggle /\ (Last.id' + 1) % 2 = Last.id % 2
  BY <1>4, <1>5, <1>8
<1>10. Other' = Last
  BY <1>7, <1>9 DEF Other
<1>11. history' = With(history, txn.id, Contents(file, txn.root))
  BY <1>1
<1>12. /\ DOMAIN history' = 0..n.id /\ history'[n.id] = Contents(file, n.root)
       /\ \A t \in DOMAIN history : history'[t] = history[t]
  <2>1. DOMAIN history = 0..Last.id
    BY <1>4 DEF MetaInv
  <2>2. 0..(Last.id + 1) = (0..Last.id) \cup {Last.id + 1} /\ Last.id + 1 \notin 0..Last.id
    BY <1>2
  <2>3. txn.id = n.id /\ txn.root = n.root
    BY <1>3, <1>5
  <2> QED BY <1>5, <1>11, <2>1, <2>2, <2>3 DEF With
<1>13. MetaInv'
  <2>1. n.id \in 0..MaxTxn
    BY <1>2, <1>3, <1>5
  <2>2. durable \in 0..n.id /\ durable < n.id /\ durable' = durable
    <3>1. durable \in 0..Last.id
      BY <1>4 DEF MetaInv
    <3> QED BY <1>1, <1>2, <1>5, <3>1
  <2>3. /\ Other.id = 0 => Other = EmptyMeta
        /\ Last.id = 0 => Other = EmptyMeta
        /\ Last.id # 0 => Other.id = Last.id - 1
        /\ Last.id = 0 => Last = EmptyMeta
    BY <1>4, TwoMetas DEF MetaInv
  <2>7. n.id % 2 = Toggle /\ (n.id + 1) % 2 = Last.id % 2
    BY <1>8, <1>9
  <2>4. ASSUME NEW x \in metaDisk'[n.id % 2]
        PROVE  x = n \/ (IF n.id = 1 THEN x = EmptyMeta ELSE x.id = n.id - 2)
    <3>1. x = n \/ x = Other
      BY <1>7, <2>7
    <3>2. n.id = 1 => Other = EmptyMeta
      BY <1>2, <1>5, <2>3
    <3>3. n.id # 1 => Other.id = n.id - 2
      BY <1>2, <1>5, <2>3
    <3> QED BY <3>1, <3>2, <3>3
  <2>5. \A i \in 0..1 : \A x \in metaDisk'[i] : x.id = 0 => x = EmptyMeta
    <3>1. n.id # 0
      BY <1>2, <1>5
    <3>2. ASSUME NEW i \in 0..1, NEW x \in metaDisk'[i], x.id = 0
          PROVE  x = EmptyMeta
      BY <1>4, <1>7, <2>3, <3>1, <3>2
    <3> QED BY <3>2
  <2>6. n.id # 0 /\ Last.id = n.id - 1
    BY <1>2, <1>5
  <2> QED BY <1>7, <1>8, <1>10, <1>12, <2>1, <2>2, <2>4, <2>5, <2>6, <2>7 DEF MetaInv
<1>14. DiskInv'
  <2>1. /\ Accounted(file, n) /\ Used(file, Last) \subseteq FirstPage..n.last
        /\ \A r \in DOMAIN Listed(file, n) \ {n.id} :
              Listed(file, n)[r] \cap Used(file, Last) = {}
    BY <1>1, <1>2, <1>3, <1>5, FlushEnds DEF n
  <2>2. \A pg \in Pages : disk[pg] = {file[pg]}
    BY <1>3 DEF Synced
  <2>3. Sound(file, disk, history', n)
    <3>1. \A pg \in Used(file, n) : disk[pg] = {file[pg]}
      BY <2>1, <2>2, UsedPages
    <3>2. n.id \in DOMAIN history'
      BY <1>2, <1>5, <1>12
    <3> QED BY <1>12, <2>1, <3>1, <3>2 DEF Sound
  <2>4. Sound(file, disk, history', Last)
    <3>1. Sound(file, disk, history, Last)
      BY <1>4 DEF DiskInv
    <3>2. Last.id \in DOMAIN history /\ Last.id \in DOMAIN history'
      BY <1>2, <1>5, <1>12, <3>1 DEF Sound
    <3> QED BY <1>12, <3>1, <3>2, SoundFrame
  <2>5. file' = file /\ disk' = disk
    BY <1>1
  <2> QED BY <1>4, <1>8, <1>10, <2>1, <2>3, <2>4, <2>5 DEF DiskInv
<1>15. txn'.pc = "publish" /\ txn'.id = txn.id
  BY <1>1, <1>3 DEF TxnFields
<1>16. TxnInv'
  <2>1. txn'.id = Last.id'
    BY <1>3, <1>5, <1>8, <1>15
  <2> QED BY <1>15, <2>1 DEF TxnInv
<1>17. LockInv'
  <2>1. /\ LockInv /\ wmutex' = wmutex /\ mti_txnid' = mti_txnid /\ ownerDied' = ownerDied
        /\ env' = env
    BY <1>1 DEF IInv, lockVars
  <2>2. txn' # NoTxn
    BY <1>15 DEF NoTxn
  <2>3. \A i \in 0..Last.id : i \in 0..n.id
    BY <1>2, <1>5
  <2> QED BY <1>1, <1>2, <1>8, <1>15, <2>1, <2>2, <2>3 DEF LockInv
<1>18. EnvInv' /\ SlotInv'
  BY <1>1 DEF EnvInv, SlotInv, IInv, lockVars
<1> QED BY <1>13, <1>14, <1>16, <1>17, <1>18 DEF IInv

\* The number of the commit is published to the readers.
LEMMA PublishStep ==
    ASSUME IInv, NEW p, Publish(p)
    PROVE  IInv'
<1>1. /\ MyTxn(p) /\ txn.pc = "publish" /\ mti_txnid' = txn.id /\ EndTxn
      /\ metasync => metaDisk' = [metaDisk EXCEPT ![Toggle] = {meta[Toggle]}]
      /\ ~metasync => metaDisk' = metaDisk
      /\ metasync => durable' = txn.id
      /\ ~metasync => durable' = durable
      /\ UNCHANGED <<file, disk, meta, slots, ownerDied, env, reader, history, bound>>
  BY DEF Publish
<1>2. /\ MetaInv /\ DiskInv /\ txn # NoTxn /\ txn.id = Last.id /\ txn' = NoTxn
      /\ wmutex' = None
  BY <1>1 DEF IInv, TxnInv, MyTxn, NoTxn, EndTxn
<1>3. /\ Last.id \in Nat /\ Last.id % 2 \in 0..1 /\ (Last.id + 1) % 2 \in 0..1
      /\ Last.id % 2 # (Last.id + 1) % 2 /\ Toggle = Last.id % 2
      /\ 0..1 = {Last.id % 2, (Last.id + 1) % 2}
      /\ Last = meta[Last.id % 2] /\ Other = meta[(Last.id + 1) % 2]
  BY <1>2, TwoMetas, Parity DEF Toggle
<1>4. Last' = Last /\ Other' = Other
  BY <1>1 DEF Last, Other
<1>5. /\ DOMAIN metaDisk = 0..1 /\ metaDisk[(Last.id + 1) % 2] = {Other} /\ Fn(metaDisk)
      /\ Last \in metaDisk[Last.id % 2]
  BY <1>2 DEF MetaInv
<1>6. CASE metasync
  <2>1. /\ metaDisk'[Last.id % 2] = {Last} /\ metaDisk'[(Last.id + 1) % 2] = {Other}
        /\ DOMAIN metaDisk' = 0..1 /\ Fn(metaDisk')
    BY <1>1, <1>3, <1>5, <1>6 DEF Fn
  <2>2. Settled'
    BY <1>4, <2>1 DEF Settled
  <2>3. MetaInv'
    <3>1. durable' \in 0..Last.id
      BY <1>1, <1>2, <1>3, <1>6
    <3>2. \A i \in 0..1 : \A x \in metaDisk'[i] : x.id = 0 => x = EmptyMeta
      <4>1. ASSUME NEW i \in 0..1, NEW x \in metaDisk'[i]
            PROVE  x \in metaDisk[i]
        BY <1>3, <1>5, <2>1
      <4> QED BY <1>2, <4>1 DEF MetaInv
    <3> QED BY <1>1, <1>2, <1>4, <2>1, <2>2, <3>1, <3>2 DEF MetaInv
  <2>4. DiskInv'
    BY <1>1, <1>2, <1>4, <2>2 DEF DiskInv
  <2> QED BY <1>1, <1>2, <1>3, <1>4, <2>3, <2>4
        DEF IInv, LockInv, TxnInv, EnvInv, SlotInv
<1>7. CASE ~metasync
  <2>1. MetaInv' /\ DiskInv'
    BY <1>1, <1>2, <1>7, MetaKept DEF fileVars
  <2> QED BY <1>1, <1>2, <1>3, <1>4, <2>1 DEF IInv, LockInv, TxnInv, EnvInv, SlotInv
<1> QED BY <1>6, <1>7

-----------------------------------------------------------------------------
(* A write transaction begins.                                             *)

Fresh(m, w) ==
    /\ DOMAIN w = TxnFields
    /\ w.pc = "ready" /\ w.id = m.id + 1 /\ w.depth = 0
    /\ w.root = m.root /\ w.froot = m.froot /\ w.next = m.last + 1
    /\ Fn(w.dirty) /\ Fn(w.under) /\ DOMAIN w.dirty = {} /\ DOMAIN w.under = {}
    /\ w.freed = {} /\ w.head = {} /\ w.last = 0 /\ ~w.hasHead
    /\ w.done = 0 /\ w.count = 0 /\ w.room = 0 /\ w.headId = 0

\* mdb_txn_begin starts from the last meta page.
LEMMA FreshTxn ==
    ASSUME NEW id, NEW m, m = meta[(id - 1) % 2], m.id + 1 = id
    PROVE  Fresh(m, NewTxn(id))
<1> DEFINE w == NewTxn(id)
<1>1. /\ DOMAIN w = TxnFields
      /\ w.pc = "ready" /\ w.id = id /\ w.depth = 0
      /\ w.root = m.root /\ w.froot = m.froot /\ w.next = m.last + 1
      /\ w.freed = {} /\ w.head = {} /\ w.last = 0 /\ ~w.hasHead
      /\ w.done = 0 /\ w.count = 0 /\ w.room = 0 /\ w.headId = 0
  BY DEF NewTxn, TxnFields
<1>2. w.dirty = EmptyMap /\ w.under = EmptyMap
  BY DEF NewTxn
<1> HIDE DEF w
<1>3. Fn(w.dirty) /\ Fn(w.under) /\ DOMAIN w.dirty = {} /\ DOMAIN w.under = {}
  BY <1>2, NoMap
<1>4. w.id = m.id + 1
  BY <1>1
<1>5. Fresh(m, w)
  BY <1>1, <1>3, <1>4 DEF Fresh
<1> QED BY <1>5 DEF w

\* A transaction that begins has every page of the last commit accounted for.
LEMMA FreshInv ==
    ASSUME NEW f, NEW m, NEW w, DOMAIN f = Pages, Fn(f), Accounted(f, m), m.id \in Nat,
           Fresh(m, w)
    PROVE  OpInv(f, m, w) /\ ParentInv(f, m, w)
<1>1. /\ DOMAIN w = TxnFields
      /\ w.pc = "ready" /\ w.id = m.id + 1 /\ w.depth = 0
      /\ w.root = m.root /\ w.froot = m.froot /\ w.next = m.last + 1
      /\ Fn(w.dirty) /\ Fn(w.under) /\ DOMAIN w.dirty = {} /\ DOMAIN w.under = {}
      /\ w.freed = {} /\ w.head = {} /\ w.last = 0 /\ ~w.hasHead
      /\ w.done = 0 /\ w.count = 0 /\ w.room = 0 /\ w.headId = 0
  BY DEF Fresh
<1>2. Own(w, f) = f
  <2>1. /\ DOMAIN Own(w, f) = DOMAIN f /\ Fn(Own(w, f))
        /\ \A pg \in DOMAIN f : Own(w, f)[pg] = f[pg]
    BY <1>1 DEF Own, Fn
  <2> QED BY <2>1, SameFn
<1> DEFINE rec == Listed(f, m)
<1>3. /\ m.last \in (FirstPage - 1)..(MaxPg - 2)
      /\ Tree(f, m.root) /\ PagesOf(f, m.root) \cap ListPage(m.froot) = {}
      /\ Used(f, m) \cup UNION {rec[r] : r \in DOMAIN rec} = FirstPage..m.last
      /\ \A r \in DOMAIN rec : rec[r] \cap Used(f, m) = {}
  BY DEF Accounted
<1>4. Later(f, m, w) = UNION {rec[r] : r \in DOMAIN rec}
  <2>1. \A r \in DOMAIN rec : r > 0
    BY ListedIds
  <2>2. {s \in DOMAIN rec : s > w.last} = DOMAIN rec
    BY <1>1, <2>1
  <2> QED BY <2>2 DEF Later
<1>5. Later(f, m, w) \cap Used(f, m) = {}
  BY <1>3, <1>4
<1> HIDE DEF rec
<1>6. MaxPg \in Nat /\ FirstPage = 2
  BY LmdbAssumption DEF FirstPage
<1>7. m.last \in Int /\ w.next - 1 = m.last /\ w.next \in (m.last + 1)..(MaxPg - 1)
  BY <1>1, <1>3, <1>6
<1>8. Shape(m, w)
  BY <1>1, <1>7 DEF Shape
<1>9. Freed(w) = {} /\ Private(w, {}) = {}
  BY <1>1 DEF Freed, Private
<1>10. Account(w.next, PagesOf(f, w.root), ListPage(w.froot), Later(f, m, w), {}, {})
  <2>1. Used(f, m) = PagesOf(f, w.root) \cup ListPage(w.froot)
    BY <1>1 DEF Used
  <2> QED BY <1>1, <1>3, <1>4, <1>5, <1>7, <2>1 DEF Account
<1>11. Held(f, m, w, w.head)
  BY <1>1, <1>2, <1>3, <1>8, <1>9, <1>10 DEF Held
<1>12. Consumed(f, m, w)
  BY <1>1 DEF Consumed
<1>13. PageInv(f, m, w) /\ Unsaved(m, w)
  BY <1>1, <1>11, <1>12 DEF PageInv, Unsaved
<1>14. OpInv(f, m, w)
  BY <1>1, <1>13 DEF OpInv, Waiting
<1>15. ParentInv(f, m, w)
  BY <1>1 DEF ParentInv
<1> QED BY <1>14, <1>15

\* A table of readers some of which are cleared.
SlotType == [pid : Procs \cup {None}, txnid : 0..Idle]

\* Slots that are given up are slots.
LEMMA ClearedSlots ==
    ASSUME SlotInv, EnvInv, NEW x,
           DOMAIN x = DOMAIN slots, Fn(x),
           \A i \in DOMAIN slots :
              x[i] = slots[i] \/ x[i] = [slots[i] EXCEPT !.pid = None]
    PROVE  x \in Seq(SlotType) /\ Len(x) = Len(slots)
<1>1. /\ Len(slots) \in Nat /\ DOMAIN slots = 1..Len(slots)
      /\ \A i \in DOMAIN slots : slots[i] \in SlotType
  BY SlotTypes DEF SlotType
<1>2. \A s \in SlotType : [s EXCEPT !.pid = None] \in SlotType
  BY DEF SlotType
<1>3. \A i \in DOMAIN slots : x[i] \in SlotType
  BY <1>1, <1>2
<1> HIDE DEF SlotType
<1>4. x = [i \in 1..Len(slots) |-> x[i]]
  BY <1>1 DEF Fn
<1>5. x \in [1..Len(slots) -> SlotType]
  BY <1>1, <1>3, <1>4
<1> QED BY <1>1, <1>5

\* mdb_txn_begin takes the mutex, and repairs what a dead owner left.
LEMMA BeginWriteStep ==
    ASSUME IInv, NEW p \in Writers, BeginWrite(p)
    PROVE  IInv'
<1> DEFINE id == (IF ownerDied THEN RepairedTxnid ELSE mti_txnid) + 1
           cleared == [i \in DOMAIN slots |->
                           LET owner == slots[i].pid
                           IN  IF owner # None /\ owner # p /\ ~env[owner].live
                               THEN [slots[i] EXCEPT !.pid = None] ELSE slots[i]]
<1>1. /\ env[p].open /\ wmutex = None /\ id <= MaxTxn /\ wmutex' = p
      /\ ~ownerDied' /\ mti_txnid' = id - 1
      /\ slots' = IF ownerDied THEN cleared ELSE slots
      /\ txn' = NewTxn(id)
      /\ UNCHANGED fileVars /\ UNCHANGED <<env, reader, history, durable, bound>>
  BY DEF BeginWrite
<1>2. /\ MetaInv /\ DiskInv /\ DOMAIN file = Pages /\ Accounted(file, Last)
      /\ Last.id \in Nat /\ Fn(file) /\ Last.id \in 0..MaxTxn
  BY LastCommit DEF IInv, DiskInv
<1>3. txn = NoTxn /\ txn.pc # "publish"
  BY <1>1 DEF IInv, LockInv, NoTxn
<1>4. id = Last.id + 1
  <2>1. CASE ownerDied
    BY <2>1 DEF RepairedTxnid, Last
  <2>2. CASE ~ownerDied
    BY <1>3, <2>2 DEF IInv, LockInv
  <2> QED BY <2>1, <2>2
<1> HIDE DEF id
<1>5. Fresh(Last, txn')
  <2>1. Last = meta[(id - 1) % 2] /\ Last.id + 1 = id
    <3>1. id - 1 = Last.id
      BY <1>2, <1>4
    <3> QED BY <1>2, <1>4, <3>1, TwoMetas
  <2> QED BY <1>1, <2>1, FreshTxn
<1>6. OpInv(file, Last, txn') /\ ParentInv(file, Last, txn')
  BY <1>2, <1>5, FreshInv
<1>7. MetaInv' /\ DiskInv' /\ Last' = Last
  BY <1>1, <1>2, MetaKept DEF fileVars
<1>8. slots' \in Seq(SlotType) /\ Len(slots') = Len(slots)
  <2>1. CASE ownerDied
    <3>1. Fn(cleared) /\ DOMAIN cleared = DOMAIN slots
      BY DEF Fn
    <3>2. \A i \in DOMAIN slots :
             cleared[i] = slots[i] \/ cleared[i] = [slots[i] EXCEPT !.pid = None]
      OBVIOUS
    <3> HIDE DEF cleared
    <3>3. slots' = cleared /\ SlotInv /\ EnvInv
      BY <1>1, <2>1 DEF IInv
    <3> QED BY <3>1, <3>2, <3>3, ClearedSlots
  <2>2. CASE ~ownerDied
    BY <1>1, <2>2 DEF IInv, SlotInv, SlotType
  <2> QED BY <2>1, <2>2
<1> HIDE DEF cleared
<1>9. SlotInv' /\ EnvInv'
  <2>1. Len(slots) <= bound.slots /\ bound' = bound /\ Len(slots') = Len(slots)
    BY <1>1, <1>8 DEF IInv, SlotInv
  <2>2. SlotInv'
    BY <1>8, <2>1 DEF SlotInv, SlotType
  <2> QED BY <1>1, <2>2 DEF EnvInv, IInv
<1>10. /\ DOMAIN txn' = TxnFields /\ txn'.pc = "ready" /\ txn'.id = Last.id + 1
       /\ txn'.depth = 0
  BY <1>5 DEF Fresh
<1>11. txn' # NoTxn
  BY <1>10 DEF NoTxn
<1>12. TxnInv'
  <2>1. txn'.id <= MaxTxn
    BY <1>1, <1>4, <1>10
  <2>2. Alive(file, Last, txn', Len(slots'))
    BY <1>6, <1>10, <2>1 DEF Alive, Phases, InOp, InSave, Waiting
  <2>3. file' = file
    BY <1>1 DEF fileVars
  <2> QED BY <1>7, <1>10, <2>2, <2>3 DEF TxnInv
<1>13. LockInv'
  <2>1. LockInv /\ env' = env /\ p # None /\ id - 1 = Last.id /\ Last.id \in 0..Last.id
    <3>1. None \notin Procs /\ p \in Procs
      BY LmdbAssumption DEF Procs
    <3> QED BY <1>1, <1>2, <1>4, <3>1 DEF IInv
  <2> QED BY <1>1, <1>7, <1>11, <2>1 DEF LockInv
<1> QED BY <1>7, <1>9, <1>12, <1>13 DEF IInv

-----------------------------------------------------------------------------
(* Readers and processes.                                                  *)

ReaderOK(r) ==
    /\ DOMAIN r = {"pc", "slot", "txnid", "root", "next", "since"}
    /\ r.pc = "store" => r.txnid \in 0..MaxTxn

\* A step of a reader keeps what is known of the readers.
LEMMA ReaderKept ==
    ASSUME EnvInv, NEW p \in Readers, NEW r, ReaderOK(r),
           reader' = [reader EXCEPT ![p] = r], UNCHANGED <<env, bound>>
    PROVE  EnvInv'
<1>1. DOMAIN reader = Readers /\ \A q \in Readers : ReaderOK(reader[q])
  BY DEF EnvInv, ReaderOK
<1>2. DOMAIN reader' = Readers /\ \A q \in Readers : ReaderOK(reader'[q])
  BY <1>1
<1> QED BY <1>2 DEF EnvInv, ReaderOK

\* What is known of one reader.
LEMMA ReaderAt ==
    ASSUME EnvInv, NEW p \in Readers
    PROVE  ReaderOK(reader[p]) /\ ReaderOK(NoRead) /\ DOMAIN reader = Readers
BY DEF EnvInv, ReaderOK, NoRead

\* One entry of the table is written.
LEMMA SlotWritten ==
    ASSUME SlotInv, EnvInv, NEW i, NEW s, i \in DOMAIN slots => s \in SlotType
    PROVE  /\ [slots EXCEPT ![i] = s] \in Seq(SlotType)
           /\ Len([slots EXCEPT ![i] = s]) = Len(slots)
<1>1. /\ Len(slots) \in Nat /\ DOMAIN slots = 1..Len(slots)
      /\ \A j \in DOMAIN slots : slots[j] \in SlotType
  BY SlotTypes DEF SlotType
<1> HIDE DEF SlotType
<1> DEFINE x == [slots EXCEPT ![i] = s]
<1>2. /\ DOMAIN x = 1..Len(slots) /\ \A j \in 1..Len(slots) : x[j] \in SlotType
  BY <1>1
<1>3. x = [j \in 1..Len(slots) |-> x[j]]
  BY <1>1
<1>4. x \in [1..Len(slots) -> SlotType]
  BY <1>2, <1>3
<1> QED BY <1>1, <1>4

\* The table of readers stays in its bound.
LEMMA SlotsKept ==
    ASSUME SlotInv, EnvInv, slots' \in Seq(SlotType), Len(slots') <= bound.slots,
           bound' = bound
    PROVE  SlotInv'
BY DEF SlotInv, SlotType

\* A step of a reader.
LEMMA ReadStepStep ==
    ASSUME IInv, NEW p \in Readers, ReadStep(p)
    PROVE  IInv'
<1>0. /\ EnvInv /\ SlotInv /\ LockInv /\ MetaInv /\ ReaderOK(reader[p]) /\ ReaderOK(NoRead)
      /\ DOMAIN reader = Readers /\ DOMAIN env = Procs /\ p \in Procs
      /\ Len(slots) \in Nat /\ Len(slots) <= bound.slots /\ bound.slots \in Nat
  BY ReaderAt, SlotTypes DEF IInv, EnvInv, Procs
<1>1. \A r : ReaderOK(r) /\ reader' = [reader EXCEPT ![p] = r] /\ UNCHANGED <<env, bound>>
               => EnvInv'
  BY <1>0, ReaderKept
<1>3. CASE MarkLive(p)
  <2>1. /\ env[p].open /\ env' = [env EXCEPT ![p].live = TRUE]
        /\ reader' = [reader EXCEPT ![p] = [NoRead EXCEPT !.pc = "claim", !.since = mti_txnid]]
        /\ UNCHANGED fileVars /\ UNCHANGED lockVars /\ UNCHANGED txn /\ UNCHANGED ghostVars
    BY <1>3 DEF MarkLive
  <2>2. ReaderOK([NoRead EXCEPT !.pc = "claim", !.since = mti_txnid])
    BY DEF ReaderOK, NoRead
  <2>3. \A q \in Procs : /\ DOMAIN env[q] = {"open", "live", "pgoldest", "suspect"}
                         /\ env[q].live => env[q].open
    BY <1>0 DEF EnvInv
  <2>4. /\ DOMAIN env' = Procs /\ env'[p] = [env[p] EXCEPT !.live = TRUE]
        /\ \A q \in Procs : q # p => env'[q] = env[q]
    BY <1>0, <2>1
  <2>5. ASSUME NEW q \in Procs
        PROVE  /\ env'[q].pgoldest = env[q].pgoldest /\ env'[q].open = env[q].open
               /\ DOMAIN env'[q] = {"open", "live", "pgoldest", "suspect"}
               /\ env'[q].live => env'[q].open
    <3>1. CASE q # p
      BY <2>3, <2>4, <3>1
    <3>2. CASE q = p
      BY <2>1, <2>3, <2>4, <3>2
    <3> QED BY <3>1, <3>2
  <2>6. DOMAIN reader' = Readers /\ \A q \in Readers : ReaderOK(reader'[q])
    <3>1. \A q \in Readers : ReaderOK(reader[q])
      BY <1>0, ReaderAt
    <3> QED BY <1>0, <2>1, <2>2, <3>1
  <2>7. EnvInv'
    BY <1>0, <2>1, <2>4, <2>5, <2>6 DEF EnvInv, ReaderOK, ghostVars
  <2>8. SlotInv' /\ slots' = slots
    BY <1>0, <2>1 DEF SlotInv, lockVars, ghostVars
  <2> QED BY <1>0, <2>1, <2>5, <2>7, <2>8, ReadersOnly DEF lockVars
<1>4. CASE ClaimSlot(p)
  <2> DEFINE i == IF FreeSlots # {} THEN Min(FreeSlots) ELSE Len(slots) + 1
             claimed == [pid |-> p, txnid |-> Idle]
  <2>1. /\ IF Full(i)
           THEN /\ reader' = [reader EXCEPT ![p] = NoRead]
                /\ UNCHANGED slots
           ELSE /\ reader' = [reader EXCEPT ![p].pc = "load", ![p].slot = i]
                /\ slots' = IF i > Len(slots) THEN Append(slots, claimed)
                            ELSE [slots EXCEPT ![i] = claimed]
        /\ UNCHANGED fileVars /\ UNCHANGED <<mti_txnid, wmutex, ownerDied, env, txn>>
        /\ UNCHANGED ghostVars
    BY <1>4 DEF ClaimSlot
  <2>2. claimed \in SlotType
    BY <1>0, LmdbAssumption DEF SlotType, Idle
  <2>3. FreeSlots # {} => Min(FreeSlots) \in DOMAIN slots
    <3>1. FreeSlots \subseteq Nat /\ FreeSlots \subseteq DOMAIN slots
      BY <1>0, SlotTypes DEF FreeSlots
    <3> QED BY <3>1, LeastOf
  <2>4. i \in Nat
    BY <1>0, <2>3, SlotTypes
  <2>5. \E r : ReaderOK(r) /\ reader' = [reader EXCEPT ![p] = r]
    <3>1. CASE Full(i)
      BY <1>0, <2>1, <3>1
    <3>2. CASE ~Full(i)
      <4> DEFINE r == [reader[p] EXCEPT !.pc = "load", !.slot = i]
      <4>1. ReaderOK(r)
        BY <1>0 DEF ReaderOK
      <4>2. reader' = [reader EXCEPT ![p] = r]
        BY <1>0, <2>1, <3>2
      <4> QED BY <4>1, <4>2
    <3> QED BY <3>1, <3>2
  <2>6. EnvInv'
    BY <1>1, <2>1, <2>5 DEF ghostVars
  <2>7. /\ slots' \in Seq(SlotType) /\ Len(slots') <= bound.slots
        /\ Len(slots') >= Len(slots)
    <3>1. slots \in Seq(SlotType)
      BY <1>0 DEF SlotInv, SlotType
    <3>2. CASE Full(i)
      BY <1>0, <2>1, <3>1, <3>2
    <3>3. CASE ~Full(i) /\ i > Len(slots)
      <4>1. i = Len(slots) + 1 /\ i <= bound.slots /\ slots' = Append(slots, claimed)
        BY <1>0, <2>1, <2>3, <2>4, <3>3, SlotTypes DEF Full
      <4> HIDE DEF claimed, SlotType, i
      <4>2. Append(slots, claimed) \in Seq(SlotType) /\ Len(Append(slots, claimed)) = Len(slots) + 1
        BY <2>2, <3>1
      <4> QED BY <1>0, <4>1, <4>2
    <3>4. CASE ~Full(i) /\ ~(i > Len(slots))
      <4>1. slots' = [slots EXCEPT ![i] = claimed]
        BY <2>1, <3>4
      <4> HIDE DEF claimed, SlotType, i
      <4>2. slots' \in Seq(SlotType) /\ Len(slots') = Len(slots)
        BY <1>0, <2>2, <4>1, SlotWritten
      <4> QED BY <1>0, <4>2
    <3> QED BY <3>2, <3>3, <3>4
  <2>8. SlotInv'
    BY <1>0, <2>1, <2>7, SlotsKept DEF ghostVars
  <2> QED BY <1>0, <2>1, <2>6, <2>7, <2>8, ReadersOnly
<1>5. CASE LoadTxnid(p) \/ CheckTxnid(p) \/ CopyRoots(p) \/ CopySize(p)
  <2>1. /\ UNCHANGED fileVars /\ UNCHANGED lockVars /\ UNCHANGED env /\ UNCHANGED txn
        /\ UNCHANGED ghostVars
    BY <1>5 DEF LoadTxnid, CheckTxnid, CopyRoots, CopySize
  <2>2. \E r : ReaderOK(r) /\ reader' = [reader EXCEPT ![p] = r]
    <3>1. CASE LoadTxnid(p)
      <4> DEFINE r == [reader[p] EXCEPT !.pc = "store", !.txnid = mti_txnid]
      <4>1. mti_txnid \in 0..MaxTxn
        <5>1. mti_txnid \in 0..Last.id /\ Last.id \in 0..MaxTxn /\ MaxTxn \in Nat
          BY <1>0, LmdbAssumption DEF LockInv, MetaInv
        <5> QED BY <5>1
      <4>2. ReaderOK(r)
        BY <1>0, <4>1 DEF ReaderOK
      <4>3. reader' = [reader EXCEPT ![p] = r]
        BY <1>0, <3>1 DEF LoadTxnid
      <4> QED BY <4>2, <4>3
    <3>2. CASE CheckTxnid(p)
      <4> DEFINE pc == IF slots[reader[p].slot].txnid = mti_txnid THEN "copy" ELSE "load"
                 r == [reader[p] EXCEPT !.pc = pc]
      <4>1. pc # "store"
        OBVIOUS
      <4>2. reader' = [reader EXCEPT ![p] = r]
        BY <1>0, <3>2 DEF CheckTxnid
      <4> HIDE DEF pc
      <4>3. ReaderOK(r)
        BY <1>0, <4>1 DEF ReaderOK
      <4> QED BY <4>2, <4>3
    <3>3. CASE CopyRoots(p)
      <4> DEFINE r == [reader[p] EXCEPT !.pc = "size", !.root = meta[reader[p].txnid % 2].root]
      <4>1. ReaderOK(r)
        BY <1>0 DEF ReaderOK
      <4>2. reader' = [reader EXCEPT ![p] = r]
        BY <1>0, <3>3 DEF CopyRoots
      <4> QED BY <4>1, <4>2
    <3>4. CASE CopySize(p)
      <4> DEFINE r == [reader[p] EXCEPT !.pc = "active", !.since = 0,
                                        !.next = meta[reader[p].txnid % 2].last + 1]
      <4>1. ReaderOK(r)
        BY <1>0 DEF ReaderOK
      <4>2. reader' = [reader EXCEPT ![p] = r]
        BY <1>0, <3>4 DEF CopySize
      <4> QED BY <4>1, <4>2
    <3> QED BY <1>5, <3>1, <3>2, <3>3, <3>4
  <2>3. EnvInv'
    BY <1>1, <2>1, <2>2 DEF ghostVars
  <2>4. slots' = slots /\ SlotInv'
    BY <1>0, <2>1 DEF lockVars, ghostVars, SlotInv
  <2> QED BY <1>0, <2>1, <2>3, <2>4, ReadersOnly DEF lockVars
<1>6. CASE StoreTxnid(p) \/ EndRead(p)
  <2>1. /\ UNCHANGED fileVars /\ UNCHANGED <<mti_txnid, wmutex, ownerDied, env, txn>>
        /\ UNCHANGED ghostVars
    BY <1>6 DEF StoreTxnid, EndRead
  <2>2. \E r : ReaderOK(r) /\ reader' = [reader EXCEPT ![p] = r]
    <3>1. CASE StoreTxnid(p)
      <4> DEFINE r == [reader[p] EXCEPT !.pc = "check"]
      <4>1. ReaderOK(r)
        BY <1>0 DEF ReaderOK
      <4>2. reader' = [reader EXCEPT ![p] = r]
        BY <1>0, <3>1 DEF StoreTxnid
      <4> QED BY <4>1, <4>2
    <3>2. CASE EndRead(p)
      BY <1>0, <3>2 DEF EndRead
    <3> QED BY <1>6, <3>1, <3>2
  <2>3. EnvInv'
    BY <1>1, <2>1, <2>2 DEF ghostVars
  <2>4. \E i, s : /\ i \in DOMAIN slots => s \in SlotType
                  /\ slots' = [slots EXCEPT ![i] = s]
    <3> DEFINE i == reader[p].slot
    <3>0. Idle \in Nat /\ MaxTxn \in Nat /\ Idle = MaxTxn + 1
      BY LmdbAssumption DEF Idle
    <3>1. CASE StoreTxnid(p)
      <4> DEFINE s == [slots[i] EXCEPT !.txnid = reader[p].txnid]
      <4>1. reader[p].txnid \in 0..Idle
        BY <1>0, <3>0, <3>1 DEF StoreTxnid, ReaderOK
      <4>2. ASSUME i \in DOMAIN slots
            PROVE  s \in SlotType
        <5>1. slots[i] \in SlotType
          BY <1>0, <4>2, SlotTypes DEF SlotType
        <5> QED BY <4>1, <5>1 DEF SlotType
      <4>3. slots' = [slots EXCEPT ![i] = s]
        BY <3>1 DEF StoreTxnid
      <4> QED BY <4>2, <4>3
    <3>2. CASE EndRead(p)
      <4> DEFINE s == [pid |-> None, txnid |-> Idle]
      <4>1. s \in SlotType
        BY <3>0 DEF SlotType
      <4>2. slots' = [slots EXCEPT ![i] = s]
        BY <3>2 DEF EndRead
      <4> QED BY <4>1, <4>2
    <3> QED BY <1>6, <3>1, <3>2
  <2>5. slots' \in Seq(SlotType) /\ Len(slots') = Len(slots)
    BY <1>0, <2>4, SlotWritten
  <2>6. SlotInv'
    BY <1>0, <2>1, <2>5, SlotsKept DEF ghostVars
  <2> QED BY <1>0, <2>1, <2>3, <2>5, <2>6, ReadersOnly
<1> QED BY <1>3, <1>4, <1>5, <1>6 DEF ReadStep

EnvOK(e) == DOMAIN e = {"open", "live", "pgoldest", "suspect"} /\ (e.live => e.open)

\* A process that opens, suspects another, or dies.
LEMMA EnvKept ==
    ASSUME EnvInv, NEW p \in Procs, NEW e, EnvOK(e), env' = [env EXCEPT ![p] = e],
           UNCHANGED bound, DOMAIN reader' = Readers,
           \A q \in Readers : reader'[q] = reader[q] \/ reader'[q] = NoRead
    PROVE  EnvInv'
<1>1. DOMAIN env = Procs /\ \A q \in Procs : EnvOK(env[q])
  BY DEF EnvInv, EnvOK
<1>2. DOMAIN env' = Procs /\ \A q \in Procs : EnvOK(env'[q])
  BY <1>1
<1>3. \A q \in Readers : ReaderOK(reader[q]) /\ ReaderOK(NoRead)
  BY ReaderAt
<1>4. \A q \in Readers : ReaderOK(reader'[q])
  BY <1>3
<1> QED BY <1>2, <1>4 DEF EnvInv, EnvOK, ReaderOK

\* mdb_reader_check.
LEMMA StaleStep ==
    ASSUME IInv, NEW p \in Procs, NEW q, Suspect(p, q) \/ ClearStale(p)
    PROVE  IInv'
<1>1. /\ EnvInv /\ SlotInv /\ DOMAIN env = Procs
      /\ EnvOK(env[p]) /\ Len(slots) \in Nat /\ Len(slots) <= bound.slots
      /\ bound.slots \in Nat
  BY SlotTypes DEF IInv, EnvInv, EnvOK
<1>2. /\ UNCHANGED fileVars /\ UNCHANGED <<mti_txnid, wmutex, ownerDied, reader>>
      /\ UNCHANGED ghostVars /\ UNCHANGED txn
  BY DEF Suspect, ClearStale, lockVars
<1>3. PICK v : env' = [env EXCEPT ![p].suspect = v]
  BY DEF Suspect, ClearStale
<1> DEFINE e == [env[p] EXCEPT !.suspect = v]
<1>4. /\ EnvOK(e) /\ e.open = env[p].open /\ e.pgoldest = env[p].pgoldest
      /\ env' = [env EXCEPT ![p] = e]
  BY <1>1, <1>3 DEF EnvOK
<1> HIDE DEF e
<1>5. EnvInv'
  <2>1. DOMAIN reader' = Readers /\ \A r \in Readers : reader'[r] = reader[r]
    BY <1>1, <1>2 DEF EnvInv
  <2> QED BY <1>1, <1>2, <1>4, <2>1, EnvKept DEF ghostVars
<1>6. \A r \in Procs : env'[r].pgoldest = env[r].pgoldest /\ env'[r].open = env[r].open
  BY <1>1, <1>4
<1>7. slots' \in Seq(SlotType) /\ Len(slots') = Len(slots)
  <2>1. CASE slots' = slots
    BY <1>1, <2>1 DEF SlotInv, SlotType
  <2>2. CASE slots' = Cleared(env[p].suspect)
    <3>1. /\ DOMAIN slots' = DOMAIN slots /\ Fn(slots')
          /\ \A i \in DOMAIN slots :
                slots'[i] = slots[i] \/ slots'[i] = [slots[i] EXCEPT !.pid = None]
      BY <2>2 DEF Cleared, Fn
    <3> QED BY <1>1, <3>1, ClearedSlots
  <2>3. slots' = slots \/ slots' = Cleared(env[p].suspect)
    BY DEF Suspect, ClearStale, lockVars
  <2> QED BY <2>1, <2>2, <2>3
<1>8. SlotInv'
  BY <1>1, <1>2, <1>7, SlotsKept DEF ghostVars
<1> QED BY <1>1, <1>2, <1>5, <1>6, <1>7, <1>8, ReadersOnly

\* A process dies.
LEMMA DieStep ==
    ASSUME IInv, NEW p \in Procs, Die(p)
    PROVE  IInv'
<1>1. /\ env' = [env EXCEPT ![p] = Closed] /\ reader' = DropReader(p)
      /\ wmutex = p => EndTxn /\ ownerDied'
      /\ wmutex # p => UNCHANGED <<txn, wmutex, before, ownerDied>>
      /\ UNCHANGED fileVars /\ UNCHANGED <<mti_txnid, slots, history, durable, bound>>
  BY DEF Die
<1>2. MetaInv' /\ DiskInv' /\ Last' = Last /\ Last.id \in Nat
  BY <1>1, MetaKept, LastCommit DEF IInv
<1>3. DOMAIN env = Procs /\ DOMAIN reader = Readers /\ EnvInv
  BY DEF IInv, EnvInv
<1>4. EnvOK(Closed) /\ Closed.pgoldest = 0
  BY DEF EnvOK, Closed
<1>5. DOMAIN reader' = Readers /\ \A q \in Readers : reader'[q] = reader[q] \/ reader'[q] = NoRead
  BY <1>1, <1>3 DEF DropReader
<1>6. EnvInv'
  BY <1>1, <1>3, <1>4, <1>5, EnvKept
<1>7. SlotInv'
  BY <1>1 DEF IInv, SlotInv
<1>8. /\ \A q \in Procs : env'[q].pgoldest \in 0..Last.id
      /\ \A q \in Procs : q # p => env'[q].open = env[q].open
  <2>1. env'[p] = Closed /\ \A q \in Procs : q # p => env'[q] = env[q]
    BY <1>1, <1>3
  <2>2. \A q \in Procs : env[q].pgoldest \in 0..Last.id
    BY DEF IInv, LockInv
  <2>3. 0 \in 0..Last.id
    BY <1>2
  <2> QED BY <1>4, <2>1, <2>2, <2>3
<1>9. CASE wmutex = p
  <2>1. txn' = NoTxn /\ wmutex' = None /\ ownerDied' /\ txn'.pc # "publish"
    BY <1>1, <1>9 DEF EndTxn, NoTxn
  <2>2. LockInv'
    BY <1>1, <1>2, <1>8, <2>1 DEF LockInv, IInv
  <2>3. TxnInv'
    BY <2>1 DEF TxnInv
  <2> QED BY <1>2, <1>6, <1>7, <2>2, <2>3 DEF IInv
<1>10. CASE wmutex # p
  <2>1. txn' = txn /\ wmutex' = wmutex /\ ownerDied' = ownerDied /\ mti_txnid' = mti_txnid
    BY <1>1, <1>10
  <2>2. LockInv'
    <3>1. LockInv /\ (wmutex # None => wmutex \in Procs)
      BY DEF IInv, LockInv, Procs
    <3> QED BY <1>2, <1>8, <1>10, <2>1, <3>1 DEF LockInv
  <2>3. TxnInv'
    <3>1. TxnInv /\ file' = file /\ meta' = meta /\ disk' = disk /\ metaDisk' = metaDisk
          /\ slots' = slots
      BY <1>1 DEF IInv, fileVars
    <3>2. Synced' = Synced
      BY <3>1 DEF Synced
    <3> QED BY <1>2, <2>1, <3>1, <3>2 DEF TxnInv
  <2> QED BY <1>2, <1>6, <1>7, <2>2, <2>3 DEF IInv
<1> QED BY <1>9, <1>10

\* An empty table of readers.
LEMMA EmptySlots ==
    ASSUME EnvInv, UNCHANGED bound, slots' = <<>>
    PROVE  SlotInv'
<1>1. bound.slots \in Nat
  BY LmdbAssumption DEF EnvInv
<1>2. <<>> \in Seq(SlotType) /\ Len(<<>>) = 0
  OBVIOUS
<1> QED BY <1>1, <1>2 DEF SlotInv, SlotType

\* mdb_env_open.
LEMMA OpenStep ==
    ASSUME IInv, NEW p \in Procs, Open(p)
    PROVE  IInv'
<1>1. /\ env' = [env EXCEPT ![p].open = TRUE]
      /\ (\A q \in Procs : ~env[q].open) =>
           mti_txnid' = PickMeta(meta).id /\ slots' = <<>> /\ ~ownerDied'
      /\ ~(\A q \in Procs : ~env[q].open) => UNCHANGED <<mti_txnid, slots, ownerDied>>
      /\ UNCHANGED fileVars /\ UNCHANGED <<wmutex, reader, txn>> /\ UNCHANGED ghostVars
  BY DEF Open
<1>2. MetaInv' /\ DiskInv' /\ Last' = Last /\ Last.id \in Nat /\ UNCHANGED bound
  BY <1>1, MetaKept, LastCommit DEF IInv, ghostVars
<1>3. DOMAIN env = Procs /\ DOMAIN reader = Readers /\ EnvInv /\ EnvOK(env[p])
  BY DEF IInv, EnvInv, EnvOK
<1> DEFINE e == [env[p] EXCEPT !.open = TRUE]
<1>4. EnvOK(e) /\ e.pgoldest = env[p].pgoldest /\ e.open /\ env' = [env EXCEPT ![p] = e]
  BY <1>1, <1>3 DEF EnvOK
<1> HIDE DEF e
<1>5. EnvInv'
  BY <1>1, <1>2, <1>3, <1>4, EnvKept
<1>6. \A q \in Procs : env'[q].pgoldest = env[q].pgoldest /\ (env[q].open => env'[q].open)
  BY <1>3, <1>4
<1>7. CASE \A q \in Procs : ~env[q].open
  <2>1. mti_txnid' = Last.id /\ slots' = <<>> /\ ~ownerDied' /\ wmutex' = wmutex /\ txn' = txn
    BY <1>1, <1>7 DEF Last
  <2>2. wmutex = None /\ txn = NoTxn
    <3>1. LockInv /\ (wmutex # None => wmutex \in Procs)
      BY DEF IInv, LockInv, Procs
    <3> QED BY <1>7, <3>1 DEF LockInv
  <2>3. LockInv'
    <3>1. Last.id \in 0..Last.id
      BY <1>2
    <3> QED BY <1>2, <1>6, <2>1, <2>2, <3>1 DEF LockInv, IInv
  <2>4. TxnInv'
    BY <2>1, <2>2 DEF TxnInv
  <2>5. SlotInv'
    BY <1>2, <1>3, <2>1, EmptySlots
  <2> QED BY <1>2, <1>5, <2>3, <2>4, <2>5 DEF IInv
<1>8. CASE ~(\A q \in Procs : ~env[q].open)
  <2>1. /\ mti_txnid' = mti_txnid /\ slots' = slots /\ ownerDied' = ownerDied
        /\ wmutex' = wmutex /\ txn' = txn
    BY <1>1, <1>8
  <2>2. LockInv'
    <3>1. LockInv /\ (wmutex # None => wmutex \in Procs)
      BY DEF IInv, LockInv, Procs
    <3> QED BY <1>2, <1>6, <2>1, <3>1 DEF LockInv
  <2>3. TxnInv'
    <3>1. TxnInv /\ file' = file /\ meta' = meta /\ disk' = disk /\ metaDisk' = metaDisk
      BY <1>1 DEF IInv, fileVars
    <3>2. Synced' = Synced
      BY <3>1 DEF Synced
    <3> QED BY <1>2, <2>1, <3>1, <3>2 DEF TxnInv
  <2>4. SlotInv'
    BY <1>2, <2>1 DEF SlotInv, IInv
  <2> QED BY <1>2, <1>5, <2>2, <2>3, <2>4 DEF IInv
<1> QED BY <1>7, <1>8

-----------------------------------------------------------------------------
(* The machine stops.                                                      *)

\* What the disk has after a stop: for each page, one of its versions.
LEMMA AfterStopIs ==
    ASSUME NEW d, NEW g \in AfterStop(d), \A x \in DOMAIN d : d[x] # {}
    PROVE  DOMAIN g = DOMAIN d /\ Fn(g) /\ \A x \in DOMAIN d : g[x] \in d[x]
<1> DEFINE unsure == {x \in DOMAIN d : Cardinality(d[x]) > 1}
           sure == [x \in DOMAIN d \ unsure |-> CHOOSE v \in d[x] : TRUE]
           all == UNION {d[x] : x \in unsure}
<1>1. PICK f \in [unsure -> all] : (\A x \in unsure : f[x] \in d[x]) /\ g = Over(f, sure)
  BY DEF AfterStop
<1>2. \A x \in DOMAIN d \ unsure : sure[x] \in d[x]
  OBVIOUS
<1>3. unsure \subseteq DOMAIN d /\ DOMAIN sure = DOMAIN d \ unsure /\ DOMAIN f = unsure
  OBVIOUS
<1> HIDE DEF unsure, sure, all
<1>4. /\ DOMAIN g = DOMAIN f \cup DOMAIN sure
      /\ \A x \in DOMAIN f : g[x] = f[x]
      /\ \A x \in DOMAIN sure \ DOMAIN f : g[x] = sure[x]
      /\ Fn(g)
  BY <1>1 DEF Over, Fn
<1> QED BY <1>1, <1>2, <1>3, <1>4

\* What the meta pages are after a stop: the last commit is picked, or the one
\* before if the last may not have reached the disk.
LEMMA StopMetas ==
    ASSUME MetaInv, NEW m \in AfterStop(metaDisk)
    PROVE  /\ DOMAIN m = 0..1 /\ Fn(m)
           /\ \/ /\ PickMeta(m) = Last
                 /\ m[Last.id % 2] = Last /\ m[(Last.id + 1) % 2] = Other
              \/ /\ PickMeta(m) = Other /\ ~Settled /\ Last.id > 0
                 /\ m[(Last.id + 1) % 2] = Other
                 /\ m[Last.id % 2].id = 0 => m[Last.id % 2] = EmptyMeta
                 /\ Last.id = 1 => m[Last.id % 2] = EmptyMeta
                 /\ Last.id # 1 => m[Last.id % 2].id = Last.id - 2
<1> DEFINE a == Last.id % 2
           b == (Last.id + 1) % 2
<1>1. /\ Last.id \in Nat /\ a \in 0..1 /\ b \in 0..1 /\ a # b /\ 0..1 = {a, b}
      /\ DOMAIN metaDisk = 0..1 /\ metaDisk[b] = {Other} /\ Last \in metaDisk[a]
  BY TwoMetas, Parity DEF MetaInv
<1>2. DOMAIN m = 0..1 /\ Fn(m) /\ m[a] \in metaDisk[a] /\ m[b] = Other
  <2>1. \A x \in DOMAIN metaDisk : metaDisk[x] # {}
    BY <1>1
  <2> HIDE DEF a, b
  <2> QED BY <1>1, <2>1, AfterStopIs
<1>3. /\ Last.id = 0 => Other = EmptyMeta /\ Last = EmptyMeta
      /\ Last.id # 0 => Other.id = Last.id - 1
  BY DEF MetaInv
<1>4. m[a] = Last \/ (IF Last.id = 1 THEN m[a] = EmptyMeta ELSE m[a].id = Last.id - 2)
  BY <1>2 DEF MetaInv
<1>5. m[a].id = 0 => m[a] = EmptyMeta
  BY <1>1, <1>2 DEF MetaInv
<1>6. EmptyMeta.id = 0
  BY DEF EmptyMeta
<1>7. m[a] # Last => ~Settled /\ Last.id > 0
  <2>1. ASSUME m[a] # Last
        PROVE  ~Settled
    BY <1>2, <2>1 DEF Settled
  <2>2. ~Settled => durable < Last.id /\ durable \in 0..Last.id
    BY DEF MetaInv
  <2> QED BY <1>1, <2>1, <2>2
<1> HIDE DEF a, b
<1>8. CASE m[a] = Last
  <2>1. PickMeta(m) = Last
    <3>1. CASE Last.id = 0
      <4>1. m[a] = Last /\ m[b] = Last
        BY <1>2, <1>3, <1>8, <3>1
      <4>2. m[0] = Last /\ m[1] = Last
        BY <1>1, <4>1
      <4> QED BY <4>2 DEF PickMeta
    <3>2. CASE Last.id # 0
      <4>1. m[b].id \in Int /\ m[a].id \in Int /\ m[b].id < m[a].id
        BY <1>1, <1>2, <1>3, <1>8, <3>2
      <4>2. PickMeta(m) = m[a]
        BY <1>1, <4>1, PickLarger
      <4> QED BY <1>8, <4>2
    <3> QED BY <3>1, <3>2
  <2> QED BY <1>2, <1>8, <2>1 DEF a, b
<1>9. CASE m[a] # Last
  <2>1. /\ Last.id = 1 => m[a] = EmptyMeta
        /\ Last.id # 1 => m[a].id = Last.id - 2
    BY <1>4, <1>9
  <2>2. m[b].id = Last.id - 1 /\ Last.id > 0
    BY <1>2, <1>3, <1>7, <1>9
  <2>3. PickMeta(m) = m[b]
    <3>1. CASE Last.id = 1
      <4>1. Other.id = 0 => Other = EmptyMeta
        BY TwoMetas
      <4>2. m[a] = m[b]
        BY <1>2, <2>1, <2>2, <3>1, <4>1
      <4>3. m[0] = m[b] /\ m[1] = m[b]
        BY <1>1, <4>2
      <4> QED BY <4>3 DEF PickMeta
    <3>2. CASE Last.id # 1
      <4>1. m[a].id \in Int /\ m[b].id \in Int /\ m[a].id < m[b].id
        BY <1>1, <2>1, <2>2, <3>2
      <4> QED BY <1>1, <4>1, PickLarger
    <3> QED BY <3>1, <3>2
  <2> QED BY <1>2, <1>5, <1>7, <1>9, <2>1, <2>3 DEF a, b
<1> QED BY <1>8, <1>9

\* The machine stops: mdb_env_pick_meta finds the last commit, or the one before
\* if the last was not yet on disk, and that one was kept.
LEMMA CrashStep ==
    ASSUME IInv, Crash
    PROVE  IInv'
<1>1. PICK m \in AfterStop(metaDisk) :
         /\ meta' = m /\ metaDisk' = [i \in 0..1 |-> {m[i]}]
         /\ mti_txnid' = PickMeta(m).id
         /\ history' = [t \in {h \in DOMAIN history : h <= PickMeta(m).id} |-> history[t]]
  BY DEF Crash
<1>2. PICK f \in AfterStop(disk) : file' = f /\ disk' = [pg \in Pages |-> {f[pg]}]
  BY DEF Crash
<1>3. /\ slots' = <<>> /\ ~ownerDied' /\ EndTxn
      /\ env' = [p \in Procs |-> [Closed EXCEPT !.open = TRUE]]
      /\ reader' = [p \in Readers |-> NoRead]
      /\ UNCHANGED <<durable, bound>>
  BY DEF Crash
<1>4. MetaInv /\ DiskInv /\ EnvInv /\ MaxTxn \in Nat
  BY LmdbAssumption DEF IInv
<1> DEFINE l == PickMeta(m)
<1>5. Last' = l
  BY <1>1 DEF Last
<1>6. /\ DOMAIN m = 0..1 /\ Fn(m)
      /\ \/ /\ l = Last
            /\ m[Last.id % 2] = Last /\ m[(Last.id + 1) % 2] = Other
         \/ /\ l = Other /\ ~Settled /\ Last.id > 0
            /\ m[(Last.id + 1) % 2] = Other
            /\ m[Last.id % 2].id = 0 => m[Last.id % 2] = EmptyMeta
            /\ Last.id = 1 => m[Last.id % 2] = EmptyMeta
            /\ Last.id # 1 => m[Last.id % 2].id = Last.id - 2
  BY <1>4, StopMetas
<1> HIDE DEF l
<1>7. /\ Last.id \in Nat /\ Last.id \in 0..MaxTxn
      /\ Last.id = 0 => Other = EmptyMeta /\ Last = EmptyMeta
      /\ Last.id # 0 => Other.id = Last.id - 1
      /\ Other.id = 0 => Other = EmptyMeta
      /\ Other.id \in 0..Last.id
      /\ Last.id % 2 \in 0..1 /\ (Last.id + 1) % 2 \in 0..1
      /\ Last.id % 2 # (Last.id + 1) % 2 /\ 0..1 = {Last.id % 2, (Last.id + 1) % 2}
      /\ (Last.id + 1 + 1) % 2 = Last.id % 2
  BY <1>4, TwoMetas, Parity DEF MetaInv
\* The meta page picked, and the one before it.
<1>8. /\ l.id \in 0..MaxTxn /\ l.id <= Last.id /\ durable \in 0..l.id
      /\ l = m[l.id % 2] /\ Sound(file, disk, history, l)
      /\ l.id = 0 => m[(l.id + 1) % 2] = EmptyMeta /\ l = EmptyMeta
      /\ l.id # 0 => m[(l.id + 1) % 2].id = l.id - 1
      /\ \A i \in 0..1 : m[i].id = 0 => m[i] = EmptyMeta
  <2>1. durable \in 0..Last.id /\ (~Settled => durable < Last.id)
    BY <1>4 DEF MetaInv
  <2>2. Sound(file, disk, history, Last) /\ (~Settled => Sound(file, disk, history, Other))
    BY <1>4 DEF DiskInv
  <2>3. Last.id = 0 => Last = EmptyMeta
    BY <1>7
  <2>4. CASE l = Last /\ m[Last.id % 2] = Last /\ m[(Last.id + 1) % 2] = Other
    <3>1. \A i \in 0..1 : m[i].id = 0 => m[i] = EmptyMeta
      BY <1>7, <2>4
    <3> QED BY <1>7, <2>1, <2>2, <2>4, <3>1
  <2>5. CASE l # Last \/ ~(m[Last.id % 2] = Last /\ m[(Last.id + 1) % 2] = Other)
    <3>1. /\ l = Other /\ ~Settled /\ Last.id > 0
          /\ m[(Last.id + 1) % 2] = Other
          /\ m[Last.id % 2].id = 0 => m[Last.id % 2] = EmptyMeta
          /\ Last.id = 1 => m[Last.id % 2] = EmptyMeta
          /\ Last.id # 1 => m[Last.id % 2].id = Last.id - 2
      BY <1>6, <2>5
    <3>2. l.id = Last.id - 1 /\ l.id \in Nat
      BY <1>7, <3>1
    <3>3. /\ (l.id + 1) % 2 = Last.id % 2 /\ l.id % 2 = (Last.id + 1) % 2
      <4>1. l.id + 1 = Last.id /\ (l.id + 1 + 1) % 2 = l.id % 2
        BY <1>7, <3>2, Parity
      <4> QED BY <4>1
    <3>4. l.id \in 0..MaxTxn /\ l.id <= Last.id /\ durable \in 0..l.id
      <4>1. durable \in 0..Last.id /\ durable < Last.id
        BY <2>1, <3>1
      <4>2. Last.id \in Nat /\ Last.id <= MaxTxn /\ MaxTxn \in Nat
        BY <1>4, <1>7
      <4> HIDE DEF l
      <4> QED BY <3>2, <4>1, <4>2
    <3>5. \A i \in 0..1 : m[i].id = 0 => m[i] = EmptyMeta
      BY <1>7, <3>1
    <3>6. l.id = 0 => m[(l.id + 1) % 2] = EmptyMeta /\ l = EmptyMeta
      BY <1>7, <3>1, <3>2, <3>3
    <3>7. l.id # 0 => m[(l.id + 1) % 2].id = l.id - 1
      BY <1>7, <3>1, <3>2, <3>3
    <3> QED BY <2>2, <3>1, <3>3, <3>4, <3>5, <3>6, <3>7
  <2> QED BY <2>4, <2>5
<1>9. /\ l.id \in Nat /\ l.id % 2 \in 0..1 /\ (l.id + 1) % 2 \in 0..1
  <2>1. l.id \in Nat
    BY <1>4, <1>8
  <2> QED BY <2>1, Parity
<1>10. /\ Other' = m[(l.id + 1) % 2] /\ metaDisk'[l.id % 2] = {l} /\ Settled'
       /\ metaDisk'[(l.id + 1) % 2] = {Other'} /\ Fn(metaDisk') /\ DOMAIN metaDisk' = 0..1
  BY <1>1, <1>5, <1>8, <1>9 DEF Other, Settled, Fn
<1>11. DOMAIN history' = 0..l.id /\ \A t \in DOMAIN history' : history'[t] = history[t]
  <2>1. DOMAIN history = 0..Last.id
    BY <1>4 DEF MetaInv
  <2>2. DOMAIN history' = {h \in 0..Last.id : h <= l.id}
    BY <1>1, <2>1 DEF l
  <2>3. {h \in 0..Last.id : h <= l.id} = 0..l.id
    BY <1>7, <1>8, <1>9
  <2> QED BY <1>1, <2>2, <2>3 DEF l
<1>12. MetaInv'
  <2>1. \A i \in 0..1 : \A x \in metaDisk'[i] : x.id = 0 => x = EmptyMeta
    BY <1>1, <1>8
  <2>2. durable' = durable /\ meta' = m
    BY <1>1, <1>3
  <2> QED BY <1>5, <1>6, <1>8, <1>10, <1>11, <2>1, <2>2 DEF MetaInv
<1>13. DiskInv'
  <2>1. DOMAIN f = Pages /\ Fn(f) /\ \A pg \in Pages : f[pg] \in disk[pg]
    <3>1. DOMAIN disk = Pages /\ \A pg \in Pages : disk[pg] # {}
      BY <1>4 DEF DiskInv
    <3> QED BY <3>1, AfterStopIs
  <2>2. /\ DOMAIN disk' = Pages /\ Fn(disk') /\ \A pg \in Pages : disk'[pg] = {f[pg]}
    BY <1>2 DEF Fn
  <2>3. Accounted(file, l) /\ \A pg \in Used(file, l) : disk[pg] = {file[pg]}
    BY <1>8 DEF Sound
  <2>4. \A pg \in Used(file, l) : f[pg] = file[pg] /\ disk'[pg] = {f[pg]}
    BY <2>1, <2>2, <2>3, UsedPages
  <2>5. l.id \in DOMAIN history' /\ history'[l.id] = history[l.id]
    BY <1>9, <1>11
  <2>6. Sound(f, disk', history', l)
    BY <1>8, <2>4, <2>5, SettledDisk
  <2> QED BY <1>2, <1>5, <1>10, <2>1, <2>2, <2>6 DEF DiskInv
<1>14. txn' = NoTxn /\ wmutex' = None /\ txn'.pc # "publish"
  BY <1>3 DEF EndTxn, NoTxn
<1>15. LockInv'
  <2>1. \A p \in Procs : env'[p].pgoldest = 0
    BY <1>3 DEF Closed
  <2>2. 0 \in 0..l.id /\ l.id \in 0..l.id /\ mti_txnid' = l.id
    BY <1>1, <1>9 DEF l
  <2> QED BY <1>5, <1>14, <2>1, <2>2 DEF LockInv
<1>16. TxnInv'
  BY <1>14 DEF TxnInv
<1>17. EnvInv'
  <2>1. /\ DOMAIN env' = Procs /\ DOMAIN reader' = Readers /\ bound' = bound
        /\ \A p \in Procs : EnvOK(env'[p])
        /\ \A p \in Readers : reader'[p] = NoRead
    BY <1>3 DEF EnvOK, Closed
  <2>2. ReaderOK(NoRead)
    BY DEF ReaderOK, NoRead
  <2> QED BY <1>4, <2>1, <2>2 DEF EnvInv, EnvOK, ReaderOK
<1>18. SlotInv'
  BY <1>3, <1>4, EmptySlots
<1> QED BY <1>12, <1>13, <1>15, <1>16, <1>17, <1>18 DEF IInv

-----------------------------------------------------------------------------
(* The invariant holds at the beginning and every step keeps it.           *)

\* The file as mdb_env_init_meta makes it.
LEMMA EmptyMetaTree ==
    ASSUME NEW f, NEW d, NEW h, 0 \in DOMAIN h, h[0] = EmptyMap
    PROVE  Sound(f, d, h, EmptyMeta)
<1>1. /\ EmptyMeta.id = 0 /\ EmptyMeta.root = NoPage /\ EmptyMeta.froot = NoPage
      /\ EmptyMeta.last = FirstPage - 1
  BY DEF EmptyMeta
<1> DEFINE m == EmptyMeta
<1> HIDE DEF m
<1>2. /\ PagesOf(f, m.root) = {} /\ ListPage(m.froot) = {} /\ Contents(f, m.root) = EmptyMap
      /\ Tree(f, m.root) /\ FreeList(f, m.froot, m.id) /\ Listed(f, m) = EmptyMap
  BY <1>1 DEF PagesOf, ListPage, Contents, Tree, FreeList, Listed, Records, m
<1>3. Used(f, m) = {} /\ DOMAIN Listed(f, m) = {}
  BY <1>2, NoMap DEF Used
<1>4. m.last \in (FirstPage - 1)..(MaxPg - 2) /\ FirstPage..m.last = {}
  BY <1>1, LmdbAssumption DEF FirstPage, m
<1>5. Accounted(f, m)
  BY <1>2, <1>3, <1>4 DEF Accounted
<1>6. Sound(f, d, h, m)
  BY <1>1, <1>2, <1>3, <1>5 DEF Sound, m
<1> QED BY <1>6 DEF m

\* The invariant holds at the beginning.
LEMMA InitInv == Init => IInv
<1> SUFFICES ASSUME Init PROVE IInv
  OBVIOUS
<1>1. /\ file = [pg \in Pages |-> Unwritten] /\ disk = [pg \in Pages |-> {Unwritten}]
      /\ meta = [i \in 0..1 |-> EmptyMeta] /\ metaDisk = [i \in 0..1 |-> {EmptyMeta}]
      /\ mti_txnid = 0 /\ slots = <<>> /\ wmutex = None /\ ~ownerDied
      /\ env = [p \in Procs |-> [Closed EXCEPT !.open = TRUE]]
      /\ reader = [p \in Readers |-> NoRead] /\ txn = NoTxn
      /\ history = With(EmptyMap, 0, EmptyMap) /\ durable = 0 /\ bound \in Bounds
  BY DEF Init
<1>2. EmptyMeta.id = 0 /\ MaxTxn \in Nat
  BY LmdbAssumption DEF EmptyMeta
<1>3. Last = EmptyMeta
  BY <1>1 DEF Last, PickMeta
<1>4. Last.id = 0 /\ Last.id % 2 = 0 /\ (Last.id + 1) % 2 = 1
  BY <1>2, <1>3
<1>5. Other = EmptyMeta
  BY <1>1, <1>4 DEF Other
<1>6. Settled
  BY <1>1, <1>3, <1>4 DEF Settled
<1>7. DOMAIN history = {0} /\ history[0] = EmptyMap
  BY <1>1, NoMap DEF With
<1>8. MetaInv
  <2>1. /\ Fn(meta) /\ DOMAIN meta = 0..1 /\ Fn(metaDisk) /\ DOMAIN metaDisk = 0..1
        /\ \A i \in 0..1 : meta[i] = EmptyMeta /\ metaDisk[i] = {EmptyMeta}
    BY <1>1 DEF Fn
  <2>2. 0..0 = {0} /\ 0 \in 0..MaxTxn /\ 0 \in 0..1 /\ 1 \in 0..1
    BY <1>2
  <2> QED BY <1>1, <1>3, <1>4, <1>5, <1>6, <1>7, <2>1, <2>2 DEF MetaInv
<1>9. DiskInv
  <2>1. /\ Fn(file) /\ DOMAIN file = Pages /\ Fn(disk) /\ DOMAIN disk = Pages
        /\ \A pg \in Pages : file[pg] \in disk[pg]
    BY <1>1 DEF Fn
  <2>2. Sound(file, disk, history, Last)
    BY <1>3, <1>7, EmptyMetaTree
  <2> QED BY <1>6, <2>1, <2>2 DEF DiskInv
<1>10. LockInv
  <2>1. \A p \in Procs : env[p].pgoldest = 0
    BY <1>1 DEF Closed
  <2>2. 0 \in 0..Last.id /\ mti_txnid = Last.id
    BY <1>1, <1>4
  <2>3. \A p \in Procs : env[p].pgoldest \in 0..Last.id
    BY <2>1, <2>2
  <2> QED BY <1>1, <2>2, <2>3 DEF LockInv
<1>11. TxnInv
  BY <1>1 DEF TxnInv
<1>12. EnvInv
  <2>1. /\ DOMAIN env = Procs /\ DOMAIN reader = Readers
        /\ \A p \in Procs : EnvOK(env[p])
        /\ \A p \in Readers : reader[p] = NoRead
    BY <1>1 DEF EnvOK, Closed
  <2>2. ReaderOK(NoRead)
    BY DEF ReaderOK, NoRead
  <2> QED BY <1>1, <2>1, <2>2 DEF EnvInv, EnvOK, ReaderOK
<1>13. SlotInv
  <2>1. bound.slots \in Nat
    BY <1>1, LmdbAssumption
  <2>2. <<>> \in Seq(SlotType) /\ Len(<<>>) = 0
    OBVIOUS
  <2> QED BY <1>1, <2>1, <2>2 DEF SlotInv, SlotType
<1> QED BY <1>8, <1>9, <1>10, <1>11, <1>12, <1>13 DEF IInv

\* The invariant depends on the state only.
LEMMA StutterInv ==
    ASSUME IInv, UNCHANGED vars
    PROVE  IInv'
<1>1. /\ UNCHANGED fileVars /\ UNCHANGED <<mti_txnid, slots, wmutex, ownerDied>>
      /\ UNCHANGED <<env, reader, txn>> /\ UNCHANGED <<history, durable, bound>>
      /\ UNCHANGED ghostVars
  BY DEF vars, lockVars, ghostVars
<1>2. EnvInv' /\ SlotInv'
  BY <1>1 DEF IInv, EnvInv, SlotInv
<1>3. Len(slots') >= Len(slots)
  BY <1>1, SlotTypes DEF IInv
<1> QED BY <1>1, <1>2, <1>3, ReadersOnly

\* Every step keeps the invariant.
LEMMA NextInv == IInv /\ [Next]_vars => IInv'
<1> SUFFICES ASSUME IInv, [Next]_vars PROVE IInv'
  OBVIOUS
<1>1. bound.readers \subseteq Readers
  BY SlotTypes DEF IInv
<1>2. ASSUME NEW p \in bound.readers, ReadStep(p)
      PROVE  IInv'
  BY <1>1, <1>2, ReadStepStep
<1>3. ASSUME NEW p \in Procs, NEW q \in Procs, Suspect(p, q)
      PROVE  IInv'
  BY <1>3, StaleStep
<1>4. ASSUME NEW p \in Procs, ClearStale(p)
      PROVE  IInv'
  BY <1>4, StaleStep
<1>5. ASSUME NEW p \in Procs, Die(p) \/ Open(p)
      PROVE  IInv'
  BY <1>5, DieStep, OpenStep
<1>6. ASSUME NEW p \in Writers, BeginWrite(p)
      PROVE  IInv'
  BY <1>6, BeginWriteStep
<1>7. ASSUME NEW p \in Writers, NEW k \in bound.keys, NEW op \in {"put", "del"},
             StartOp(p, k, op)
      PROVE  IInv'
  BY <1>7, StartOpStep
<1>8. ASSUME NEW p \in Writers, BeginChild(p) \/ CommitChild(p) \/ AbortChild(p)
      PROVE  IInv'
  BY <1>8, BeginChildStep, CommitChildStep, AbortChildStep
<1>9. ASSUME NEW p \in Writers, StartCommit(p)
      PROVE  IInv'
  BY <1>9, StartCommitStep
<1>10. ASSUME NEW p \in Writers, Abort(p) \/ SaveError(p) \/ WriteError(p)
       PROVE  IInv'
  BY <1>10, AbortStep
<1>11. ASSUME NEW p \in Writers, DoOp(p) \/ AllocStep(p) \/ ScanSlot(p) \/ EndScan(p)
       PROVE  IInv'
  BY <1>11, DoOpStep, AllocStepStep, ScanSlotStep, EndScanStep
<1>12. ASSUME NEW p \in Writers, SaveFreelist(p) \/ FlushPage(p) \/ Sync(p)
       PROVE  IInv'
  BY <1>12, SaveFreelistStep, FlushPageStep, SyncStep
<1>13. ASSUME NEW p \in Writers, WriteMeta(p) \/ Publish(p)
       PROVE  IInv'
  BY <1>13, WriteMetaStep, PublishStep
<1>14. ASSUME NEW p \in Writers, WriteStep(p)
       PROVE  IInv'
  BY <1>10, <1>11, <1>12, <1>13, <1>14 DEF WriteStep
<1>15. CASE UNCHANGED vars
  BY <1>15, StutterInv
<1> QED BY <1>2, <1>3, <1>4, <1>5, <1>6, <1>7, <1>8, <1>9, <1>10, <1>14, <1>15, CrashStep
        DEF Next

\* The invariant is inductive.
THEOREM InvariantHolds == Spec => []IInv
<1>1. Init => IInv
  BY InitInv
<1>2. IInv /\ [Next]_vars => IInv'
  BY NextInv
<1> QED BY <1>1, <1>2, PTL DEF Spec

-----------------------------------------------------------------------------
(* What it is for.                                                         *)

\* The invariant gives the types.
LEMMA InvTypes == IInv => TypeOK
<1> SUFFICES ASSUME IInv PROVE TypeOK
  OBVIOUS
<1>1. \A pg \in Pages : file[pg] \in disk[pg]
  BY DEF IInv, DiskInv
<1>2. \A i \in 0..1 : meta[i] \in metaDisk[i] /\ meta[i].id \in 0..MaxTxn
  <2>1. /\ 0..1 = {Last.id % 2, (Last.id + 1) % 2} /\ MetaInv
        /\ Last = meta[Last.id % 2] /\ Other = meta[(Last.id + 1) % 2]
        /\ Last.id \in Nat /\ Other.id \in 0..Last.id
    BY TwoMetas, Parity DEF IInv
  <2>2. Last.id \in 0..MaxTxn /\ Last \in metaDisk[Last.id % 2]
        /\ metaDisk[(Last.id + 1) % 2] = {Other}
    BY <2>1 DEF MetaInv
  <2>3. Other.id \in 0..MaxTxn
    BY <2>1, <2>2, LmdbAssumption
  <2> QED BY <2>1, <2>2, <2>3
<1>3. mti_txnid \in 0..MaxTxn
  <2>1. mti_txnid \in 0..Last.id /\ Last.id \in 0..MaxTxn
    BY DEF IInv, LockInv, MetaInv
  <2> QED BY <2>1, LmdbAssumption
<1>4. /\ Len(slots) <= bound.slots
      /\ \A i \in DOMAIN slots : slots[i].pid \in Procs \cup {None} /\ slots[i].txnid \in 0..Idle
  BY SlotTypes DEF IInv
<1>5. wmutex \in Writers \cup {None} /\ (wmutex = None <=> txn = NoTxn)
  BY DEF IInv, LockInv
<1>6. \A p \in Procs : env[p].live => env[p].open
  BY DEF IInv, EnvInv
<1> QED BY <1>1, <1>2, <1>3, <1>4, <1>5, <1>6 DEF TypeOK

\* The invariant says where each page is.
LEMMA InvAccounted == IInv => EveryPageAccountedFor
<1> SUFFICES ASSUME IInv PROVE EveryPageAccountedFor
  OBVIOUS
<1>1. Accounted(file, Last)
  BY LastCommit DEF IInv
<1>2. Used(file, Last) = PagesOf(file, Last.root)
                           \cup (IF Last.froot = NoPage THEN {} ELSE {Last.froot})
  BY DEF Used, ListPage
<1>3. Listed(file, Last) = Records(file, Last.froot)
  BY DEF Listed
<1> QED BY <1>1, <1>2, <1>3 DEF Accounted, EveryPageAccountedFor, Last

\* A tree on disk is what was committed.
Whole(d, h, pick) ==
    /\ pick.id \in DOMAIN h
    /\ pick.root = NoPage => h[pick.id] = EmptyMap
    /\ pick.root # NoPage =>
          \A root \in d[pick.root] :
             /\ root.kind = "leaf"
             /\ DOMAIN root.ov = DOMAIN h[pick.id]
             /\ \A k \in DOMAIN root.ov : d[root.ov[k]] = {Value(h[pick.id][k])}

\* A commit that is on disk is whole.
LEMMA SoundWhole ==
    ASSUME NEW f, NEW d, NEW h, NEW m, Sound(f, d, h, m)
    PROVE  Whole(d, h, m)
<1>1. /\ Tree(f, m.root) /\ m.id \in DOMAIN h /\ h[m.id] = Contents(f, m.root)
      /\ \A pg \in PagesOf(f, m.root) : d[pg] = {f[pg]}
  BY DEF Sound, Accounted, Used
<1>2. CASE m.root = NoPage
  BY <1>1, <1>2 DEF Contents, Whole
<1>3. CASE m.root # NoPage
  <2> DEFINE ov == f[m.root].ov
  <2>1. /\ f[m.root].kind = "leaf"
        /\ PagesOf(f, m.root) = {m.root} \cup {ov[k] : k \in DOMAIN ov}
    BY <1>1, <1>3, LeafTree
  <2>2. d[m.root] = {f[m.root]} /\ \A k \in DOMAIN ov : d[ov[k]] = {f[ov[k]]}
    BY <1>1, <2>1
  <2>3. \A k \in DOMAIN ov : f[ov[k]] = Value(f[ov[k]].v)
    BY <1>1, <1>3 DEF Tree
  <2>4. \A k \in DOMAIN ov : f[ov[k]].kind = "value"
    <3>1. \A v : Value(v).kind = "value"
      BY DEF Value
    <3>2. ASSUME NEW k \in DOMAIN ov
          PROVE  f[ov[k]].kind = "value"
      <4>1. PICK v : f[ov[k]] = Value(v)
        BY <2>3
      <4> QED BY <3>1, <4>1
    <3> QED BY <3>2
  <2>5. /\ DOMAIN h[m.id] = DOMAIN ov
        /\ \A k \in DOMAIN ov : h[m.id][k] = f[ov[k]].v
    BY <1>1, <1>3, <2>1, <2>4 DEF Contents
  <2>6. \A k \in DOMAIN ov : d[ov[k]] = {Value(h[m.id][k])}
    BY <2>2, <2>3, <2>5
  <2> QED BY <1>1, <1>3, <2>1, <2>2, <2>5, <2>6 DEF Whole
<1> QED BY <1>2, <1>3

\* The invariant says what a stop leaves.
LEMMA InvRecoverable == IInv => Recoverable
<1> SUFFICES ASSUME IInv, NEW m \in AfterStop(metaDisk)
             PROVE  Whole(disk, history, PickMeta(m)) /\ PickMeta(m).id >= durable
  BY DEF Recoverable, Whole
<1>1. \/ PickMeta(m) = Last
      \/ PickMeta(m) = Other /\ ~Settled /\ Last.id > 0
  BY StopMetas DEF IInv
<1>2. /\ durable \in 0..Last.id /\ (~Settled => durable < Last.id) /\ Last.id \in Nat
      /\ Last.id # 0 => Other.id = Last.id - 1
  BY TwoMetas DEF IInv, MetaInv
<1>3. Sound(file, disk, history, Last) /\ (~Settled => Sound(file, disk, history, Other))
  BY DEF IInv, DiskInv
<1>4. CASE PickMeta(m) = Last
  BY <1>2, <1>3, <1>4, SoundWhole
<1>5. CASE PickMeta(m) = Other /\ ~Settled /\ Last.id > 0
  <2>1. Other.id >= durable
    BY <1>2, <1>5
  <2> QED BY <1>3, <1>5, <2>1, SoundWhole
<1> QED BY <1>1, <1>4, <1>5

\* The invariant says that the save advances.
LEMMA InvAdvances == IInv => SaveAdvances
<1> SUFFICES ASSUME IInv, txn.pc = "save" PROVE Advances(txn)
  BY DEF SaveAdvances, Advances
<1>1. txn # NoTxn
  BY DEF NoTxn
<1>2. Alive(file, Last, txn, Len(slots))
  BY <1>1 DEF IInv, TxnInv
<1>3. SaveInv(file, Last, txn)
  BY <1>2 DEF Alive, InSave
<1>4. DOMAIN file = Pages /\ Accounted(file, Last) /\ Last.id \in Nat
  BY LastCommit DEF IInv
<1> QED BY <1>3, <1>4, SaveRank

\* The types of the lock file and of the table of readers, and the agreement of
\* the mutex with the transaction: wmutex of the mutex of mdb_txn_renew0 is held
\* as long as a write transaction exists.
THEOREM LmdbTypes == Spec => []TypeOK
BY InvariantHolds, InvTypes, PTL

\* After every commit, each page below the end of the file is in a tree or in
\* one record of the free list: mdb_freelist_save loses no page and frees none
\* that is in use.
THEOREM NoPageLost == Spec => []EveryPageAccountedFor
BY InvariantHolds, InvAccounted, PTL

\* Wherever the machine stops, mdb_env_pick_meta finds a committed tree, whole,
\* not older than the last synchronous commit.
THEOREM CrashRecovery == Spec => []Recoverable
BY InvariantHolds, InvRecoverable, PTL

\* Each round of the loop of mdb_freelist_save brings its end nearer.
THEOREM FreelistSaveAdvances == Spec => []SaveAdvances
BY InvariantHolds, InvAdvances, PTL
=============================================================================

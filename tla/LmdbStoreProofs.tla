-------------------------- MODULE LmdbStoreProofs --------------------------
(***************************************************************************)
(* The transactions of mdb.c implement a store of versions (MvccStore),    *)
(* for every set of processes, readers and keys and every bound.           *)
(*                                                                         *)
(* Beside the invariant of LmdbTxnProofs, which says where every page is,  *)
(* the proof needs SInv, which says what others rely on.  A reader that    *)
(* has settled on transaction t relies on the pages that the last commit   *)
(* uses and on those of the records of its free list after t (Reach): its  *)
(* slot says t, no process takes the oldest reader to be after t, and the  *)
(* writer has consumed no record after t, nor will it, unless it is in a   *)
(* search of the table that is yet to come to that slot (Spares).  The     *)
(* next reader relies on the same of the transaction in the lock file,     *)
(* which may be behind the meta pages when a writer died.  Of the writer,  *)
(* SInv says what its operation has done so far to what its tree says.     *)
(***************************************************************************)
EXTENDS LmdbTxnProofs, SequenceTheorems

-----------------------------------------------------------------------------
(* What a reader relies on.                                                *)

\* The pages in the records of the free list after number t.
Newer(f, m, t) ==
    UNION {Listed(f, m)[r] : r \in {s \in DOMAIN Listed(f, m) : s > t}}

\* The pages that no writer touches that has consumed no record after t.
Reach(f, m, t) == Used(f, m) \cup Newer(f, m, t)

\* A tree that nobody writes to.
Pinned(f, m, root, t) == Tree(f, root) /\ PagesOf(f, root) \subseteq Reach(f, m, t)

\* The meta page v names a version, number t or later, that nobody writes to; m
\* is that of the last commit.
Version(f, m, h, v, t) ==
    /\ v.id \in t..m.id
    /\ Pinned(f, m, v.root, t)
    /\ v.last \in Int /\ PagesOf(f, v.root) \subseteq FirstPage..v.last
    /\ Contents(f, v.root) = h[v.id]

\* A write transaction that began from m.
Writer(f, m, w) ==
    /\ w.last \in 0..m.id
    /\ w.depth = 1 => w.parent.last \in 0..m.id
    /\ w.pc \in {"flush", "sync", "meta"} => Flushing(f, m, w)

WriterInv ==
    /\ txn # NoTxn => ~ownerDied
    /\ txn # NoTxn /\ txn.pc # "publish" => Writer(file, Last, txn)

\* No writer takes a reader to be after t.
NoneOlder(t) == \A q \in Procs : env[q].pgoldest <= t

\* The lock file names a version that is whole, also if a dead writer left it.
PublishedInv ==
    /\ NoneOlder(mti_txnid)
    /\ Version(file, Last, history, meta[mti_txnid % 2], mti_txnid)

\* A writer has consumed no record after t, and will not; the slot s says t.
Spares(w, t, s) ==
    w # NoTxn /\ w.pc # "publish" =>
      /\ w.last <= t
      /\ w.depth = 1 => w.parent.last <= t
      /\ w.pc = "scan" => w.oldest <= t \/ s <= w.slot

Reading == {"check", "copy", "size", "active"}

\* A reader r of the process p.
ReaderSlot(p, r) ==
    /\ r.pc \in {"idle", "claim", "load", "store"} \cup Reading
    /\ r.pc # "idle" => env[p].open /\ env[p].live
    /\ r.pc \notin {"idle", "active"} => r.since \in 0..mti_txnid
    /\ r.pc \notin {"idle", "claim"} => r.slot \in DOMAIN slots /\ slots[r.slot].pid = p
    /\ r.pc \in {"store"} \cup Reading => r.txnid \in r.since..mti_txnid /\ r.since \in Nat
    /\ r.pc \in Reading => slots[r.slot].txnid = r.txnid

\* It has settled on a transaction number.
Pins(r) == r.pc \in {"copy", "size", "active"}

ReaderPins(r) ==
    Pins(r) =>
      /\ NoneOlder(r.txnid)
      /\ Spares(txn, r.txnid, r.slot)

ReaderView(r) ==
    /\ r.pc = "copy" => Version(file, Last, history, meta[r.txnid % 2], r.txnid)
    /\ r.pc \in {"size", "active"} => Pinned(file, Last, r.root, r.txnid)
    /\ r.pc = "size" =>
         /\ meta[r.txnid % 2].last \in Int
         /\ PagesOf(file, r.root) \subseteq FirstPage..meta[r.txnid % 2].last
         /\ \E j \in r.since..Last.id : Contents(file, r.root) = history[j]
    /\ r.pc = "active" => PagesOf(file, r.root) \subseteq FirstPage..(r.next - 1)

ReaderInv ==
    \A p \in Readers :
      ReaderSlot(p, reader[p]) /\ ReaderPins(reader[p]) /\ ReaderView(reader[p])

-----------------------------------------------------------------------------
(* What a writer has done.                                                 *)

Stamps == 1..(2 * MaxTxn)

\* The parent of a nested transaction, when it goes on.
Resumes(w) == w.depth = 1 => w.parent.stamp \in Stamps /\ ~ForList(w.parent)

\* An operation that began with the contents b.
Begun(f, w, b) ==
    InOp(w) =>
      /\ w.stamp \in Stamps /\ ~ForList(w)
      /\ w.pc # "ready" =>
           /\ w.key \in Keys
           /\ Tells(f, w) = IF Waiting(w) /\ w.at = "value" THEN Without(b, w.key) ELSE b

Work(f, w, b) == Resumes(w) /\ Begun(f, w, b) /\ (w.pc = "publish" => w.depth = 0)

WorkInv == txn # NoTxn => Work(file, txn, before)

SInv == WriterInv /\ PublishedInv /\ ReaderInv /\ WorkInv

-----------------------------------------------------------------------------
(* What the writes of others do to a tree that is pinned.                  *)

\* The pages that a consumer of records may not touch are those it has not consumed.
LEMMA LaterNewer ==
    ASSUME NEW f, NEW m, NEW w
    PROVE  Later(f, m, w) = Newer(f, m, w.last)
BY DEF Later, Newer

\* Fewer records come after a later number.
LEMMA NewerLess ==
    ASSUME NEW f, NEW m, NEW s \in Nat, NEW t \in Nat, s <= t, Accounted(f, m), m.id \in Nat
    PROVE  Newer(f, m, t) \subseteq Newer(f, m, s)
<1>1. \A r \in DOMAIN Listed(f, m) : r \in Nat
  BY ListedIds
<1>2. \A r \in DOMAIN Listed(f, m) : r > t => r > s
  BY <1>1
<1> QED BY <1>2 DEF Newer

\* A tree that is pinned stays, and says the same, if only pages out of reach are
\* written.
LEMMA PinnedFrame ==
    ASSUME NEW f, NEW g, NEW m, NEW root, NEW t, Accounted(f, m), Pinned(f, m, root, t),
           \A pg \in Reach(f, m, t) : g[pg] = f[pg]
    PROVE  /\ Pinned(g, m, root, t) /\ PagesOf(g, root) = PagesOf(f, root)
           /\ Contents(g, root) = Contents(f, root)
<1>1. Reach(g, m, t) = Reach(f, m, t)
  BY AccountedFrame DEF Reach, Newer
<1>2. Tree(f, root) /\ \A pg \in PagesOf(f, root) : g[pg] = f[pg]
  BY DEF Pinned
<1>3. /\ Tree(g, root) /\ PagesOf(g, root) = PagesOf(f, root)
      /\ Contents(g, root) = Contents(f, root)
  BY <1>2, TreeFrame
<1> QED BY <1>1, <1>3 DEF Pinned

\* So does a version.
LEMMA VersionFrame ==
    ASSUME NEW f, NEW g, NEW m, NEW h, NEW v, NEW t, Accounted(f, m), Version(f, m, h, v, t),
           \A pg \in Reach(f, m, t) : g[pg] = f[pg]
    PROVE  Version(g, m, h, v, t)
<1>1. /\ Pinned(g, m, v.root, t) /\ PagesOf(g, v.root) = PagesOf(f, v.root)
      /\ Contents(g, v.root) = Contents(f, v.root)
  BY PinnedFrame DEF Version
<1> QED BY <1>1 DEF Version

\* A pinned tree is below the end of the file.
LEMMA PinnedPages ==
    ASSUME NEW f, NEW m, NEW root, NEW t, Accounted(f, m), Pinned(f, m, root, t)
    PROVE  PagesOf(f, root) \subseteq FirstPage..m.last
BY DEF Pinned, Reach, Newer, Accounted

\* The pages that a commit leaves alone are left alone by the transactions after
\* it: it frees them under its own number.
LEMMA ReachNext ==
    ASSUME NEW f, NEW m, NEW w, NEW t \in Nat, DOMAIN f = Pages, Accounted(f, m), m.id \in Nat,
           FlushInv(f, m, w), w.pc # "flush", Flushing(f, m, w), w.last \in Nat,
           w.last <= t, t <= m.id
    PROVE  Reach(f, m, t) \subseteq Reach(f, NewMeta(w), t)
<1> DEFINE n == NewMeta(w)
<1>1. /\ Accounted(f, n) /\ Used(f, m) \subseteq FirstPage..n.last
      /\ \A r \in DOMAIN Listed(f, n) \ {w.id} : Listed(f, n)[r] \cap Used(f, m) = {}
  BY FlushEnds
<1>2. w.id = m.id + 1 /\ n.froot = w.froot
  BY FlushPages DEF NewMeta
<1>3. Listed(f, n) = Records(Own(w, f), w.froot)
  <2>1. w.left = {} /\ Accounted(Own(w, f), n)
    BY DEF FlushInv
  <2>2. \A pg \in DOMAIN w.dirty : f[pg] = w.dirty[pg]
    BY <2>1 DEF FlushInv
  <2>3. DOMAIN w.under = {} /\ \A pg \in DOMAIN w.dirty : pg \in Pages
    BY FlushPages
  <2>4. \A pg \in Pages : f[pg] = Own(w, f)[pg]
    BY <2>2, <2>3 DEF Own
  <2>5. Used(Own(w, f), n) \subseteq Pages
    <3>1. n.last \in (FirstPage - 1)..(MaxPg - 2)
      BY <2>1 DEF Accounted
    <3>2. Used(Own(w, f), n) \subseteq FirstPage..n.last
      BY <2>1 DEF Accounted
    <3>3. FirstPage..n.last \subseteq Pages
      BY <3>1, LmdbAssumption DEF Pages, FirstPage
    <3> QED BY <3>2, <3>3
  <2>6. Listed(f, n) = Listed(Own(w, f), n)
    BY <2>1, <2>4, <2>5, AccountedFrame
  <2> QED BY <1>2, <2>6 DEF Listed
<1> HIDE DEF n
<1>4. Newer(f, m, t) \subseteq Newer(f, n, t)
  <2>1. ASSUME NEW r \in DOMAIN Listed(f, m), r > t
        PROVE  r \in DOMAIN Listed(f, n) /\ Listed(f, n)[r] = Listed(f, m)[r]
    <3>1. r \in Nat
      BY ListedIds
    <3>2. r > w.last
      BY <2>1, <3>1
    <3> QED BY <1>3, <3>2 DEF Flushing
  <2> QED BY <2>1 DEF Newer
<1>5. ASSUME NEW pg \in Used(f, m)
      PROVE  pg \in Reach(f, n, t)
  <2>1. pg \in Used(f, n) \cup UNION {Listed(f, n)[r] : r \in DOMAIN Listed(f, n)}
    <3>1. Used(f, n) \cup UNION {Listed(f, n)[r] : r \in DOMAIN Listed(f, n)} = FirstPage..n.last
      BY <1>1 DEF Accounted
    <3> QED BY <1>1, <3>1 DEF n
  <2>2. \A r \in DOMAIN Listed(f, n) : pg \in Listed(f, n)[r] => r = w.id
    BY <1>1 DEF n
  <2>3. w.id > t
    BY <1>2
  <2> QED BY <2>1, <2>2, <2>3 DEF Reach, Newer
<1> QED BY <1>4, <1>5 DEF Reach, n

\* A version is still one after the next commit.
LEMMA VersionNext ==
    ASSUME NEW f, NEW m, NEW n, NEW h, NEW i, NEW v, NEW t \in Nat, Version(f, m, h, v, t),
           Reach(f, m, t) \subseteq Reach(f, n, t), m.id \in Nat, n.id \in Nat, n.id >= m.id,
           \A k \in 0..m.id : i[k] = h[k]
    PROVE  Version(f, n, i, v, t)
<1>1. v.id \in t..m.id
  BY DEF Version
<1>2. v.id \in 0..m.id /\ v.id \in t..n.id
  BY <1>1
<1> QED BY <1>2 DEF Version, Pinned

\* The last commit is a version.
LEMMA VersionSelf ==
    ASSUME NEW f, NEW d, NEW h, NEW m, NEW t \in Nat, Sound(f, d, h, m), m.id \in Nat, t <= m.id
    PROVE  Version(f, m, h, m, t)
<1>1. m.id \in t..m.id
  OBVIOUS
<1>2. Accounted(f, m) /\ Contents(f, m.root) = h[m.id]
  BY DEF Sound
<1>3. Pinned(f, m, m.root, t)
  BY <1>2 DEF Pinned, Accounted, Reach, Used
<1>4. PagesOf(f, m.root) \subseteq FirstPage..m.last
  BY <1>2, <1>3, PinnedPages
<1>5. m.last \in Int
  BY <1>2, UsedPages
<1> QED BY <1>1, <1>2, <1>3, <1>4, <1>5 DEF Version

-----------------------------------------------------------------------------
(* Private steps of the writer.                                            *)

\* The numbers of a reader that has settled.
LEMMA PinNumbers ==
    ASSUME IInv, NEW p, ReaderSlot(p, reader[p]), Pins(reader[p])
    PROVE  /\ reader[p].txnid \in Nat /\ reader[p].txnid \in 0..mti_txnid
           /\ mti_txnid \in Nat /\ mti_txnid <= Last.id /\ Last.id \in Nat
           /\ reader[p].slot \in 1..Len(slots) /\ Len(slots) \in Nat
           /\ slots[reader[p].slot].pid = p
           /\ slots[reader[p].slot].txnid = reader[p].txnid
<1>1. Last.id \in Nat /\ mti_txnid \in 0..Last.id
  BY LastCommit DEF IInv, LockInv
<1>2. reader[p].pc \in {"store"} \cup Reading
  BY DEF Pins, Reading
<1>3. reader[p].txnid \in reader[p].since..mti_txnid /\ reader[p].since \in Nat
  BY <1>2 DEF ReaderSlot
<1>4. /\ reader[p].slot \in DOMAIN slots /\ slots[reader[p].slot].pid = p
      /\ slots[reader[p].slot].txnid = reader[p].txnid
  BY <1>2 DEF ReaderSlot, Reading, Pins
<1>5. DOMAIN slots = 1..Len(slots) /\ Len(slots) \in Nat
  BY SlotTypes DEF IInv
<1> QED BY <1>1, <1>3, <1>4, <1>5

\* What no step of the writer touches: all that is said of readers, but for what
\* the writer has consumed.
LEMMA ReadersStay ==
    ASSUME ReaderInv, UNCHANGED <<file, meta, history, mti_txnid, slots, reader>>,
           \A q \in Procs : env'[q].open = env[q].open /\ env'[q].live = env[q].live,
           \A q \in Readers : Pins(reader[q]) =>
              NoneOlder(reader[q].txnid)' /\ Spares(txn', reader[q].txnid, reader[q].slot)
    PROVE  ReaderInv'
<1> SUFFICES ASSUME NEW q \in Readers
             PROVE  ReaderSlot(q, reader[q])' /\ ReaderPins(reader[q])' /\ ReaderView(reader[q])'
  BY DEF ReaderInv
<1>1. ReaderSlot(q, reader[q]) /\ ReaderPins(reader[q]) /\ ReaderView(reader[q])
  BY DEF ReaderInv
<1>2. reader'[q] = reader[q] /\ Last' = Last /\ q \in Procs
  BY DEF Last, Procs
<1>3. ReaderSlot(q, reader[q])'
  BY <1>1, <1>2 DEF ReaderSlot
<1>4. ReaderPins(reader[q])'
  BY <1>2 DEF ReaderPins, NoneOlder
<1>5. ReaderView(reader[q])'
  BY <1>1, <1>2 DEF ReaderView
<1> QED BY <1>3, <1>4, <1>5

\* A private step of the writer.
LEMMA PrivateSInv ==
    ASSUME SInv, PrivateStep, txn # NoTxn, txn'.pc # "publish", Writer(file, Last, txn'),
           Work(file, txn', before'),
           \A q \in Readers : Pins(reader[q]) =>
              Spares(txn', reader[q].txnid, reader[q].slot)
    PROVE  SInv'
<1>1. UNCHANGED <<file, meta, history, mti_txnid, slots, reader>> /\ env' = env
      /\ ownerDied' = ownerDied /\ Last' = Last
  BY DEF PrivateStep, fileVars, lockVars, Last
<1>2. ReaderInv'
  <2>1. \A q \in Readers : Pins(reader[q]) => NoneOlder(reader[q].txnid)'
    BY <1>1 DEF SInv, ReaderInv, ReaderPins, NoneOlder
  <2> QED BY <1>1, <2>1, ReadersStay DEF SInv
<1>3. PublishedInv'
  BY <1>1 DEF SInv, PublishedInv, NoneOlder
<1>4. WriterInv'
  BY <1>1 DEF SInv, WriterInv
<1>5. WorkInv'
  BY <1>1 DEF WorkInv
<1> QED BY <1>2, <1>3, <1>4, <1>5 DEF SInv

\* The transaction goes on: it consumes records only that are older than what it
\* takes to be the oldest reader.
LEMMA GoesOn ==
    ASSUME IInv, SInv, PrivateStep, txn # NoTxn, txn.pc # "publish", txn'.pc # "publish",
           NEW q \in Procs, txn'.depth = txn.depth,
           txn.depth \in {0, 1}, txn.depth = 0 \/ txn'.parent = txn.parent,
           txn'.last = txn.last \/ txn'.last \in 0..(env[q].pgoldest - 1),
           txn'.pc = "scan" => txn'.slot = Len(slots),
           txn'.pc \in {"flush", "sync", "meta"} => Flushing(file, Last, txn'),
           Begun(file, txn', before')
    PROVE  SInv'
<1>1. /\ Last.id \in Nat /\ env[q].pgoldest \in 0..Last.id
  BY LastCommit DEF IInv, LockInv
<1>2. txn.last \in 0..Last.id /\ (txn.depth = 1 => txn.parent.last \in 0..Last.id)
  BY DEF SInv, WriterInv, Writer
<1>3. Resumes(txn)
  BY DEF SInv, WorkInv, Work
<1>4. Writer(file, Last, txn')
  <2>1. txn'.last \in 0..Last.id
    BY <1>1, <1>2
  <2>2. txn'.depth = 1 => txn'.parent.last \in 0..Last.id
    BY <1>2
  <2> QED BY <2>1, <2>2 DEF Writer
<1>5. Work(file, txn', before')
  <2>1. Resumes(txn')
    BY <1>3 DEF Resumes
  <2> QED BY <2>1 DEF Work
<1>6. ASSUME NEW r \in Readers, Pins(reader[r])
      PROVE  Spares(txn', reader[r].txnid, reader[r].slot)
  <2>1. ReaderSlot(r, reader[r]) /\ ReaderPins(reader[r])
    BY DEF SInv, ReaderInv
  <2>2. /\ reader[r].txnid \in Nat /\ reader[r].slot \in 1..Len(slots) /\ Len(slots) \in Nat
    BY <1>6, <2>1, PinNumbers
  <2>3. env[q].pgoldest <= reader[r].txnid /\ Spares(txn, reader[r].txnid, reader[r].slot)
    BY <1>6, <2>1 DEF ReaderPins, NoneOlder
  <2>4. txn.last <= reader[r].txnid /\ (txn.depth = 1 => txn.parent.last <= reader[r].txnid)
    BY <2>3 DEF Spares
  <2>5. txn'.last <= reader[r].txnid
    BY <1>1, <1>2, <2>2, <2>3, <2>4
  <2>6. txn'.pc = "scan" => reader[r].slot <= txn'.slot
    BY <2>2
  <2> QED BY <2>4, <2>5, <2>6 DEF Spares
<1> QED BY <1>4, <1>5, <1>6, PrivateSInv

\* The transaction ends without a trace.
LEMMA EndSInv ==
    ASSUME SInv, EndTxn, UNCHANGED <<mti_txnid, slots, ownerDied, env, reader, history>>,
           UNCHANGED fileVars
    PROVE  SInv'
<1>1. UNCHANGED <<file, meta>> /\ txn' = NoTxn /\ Last' = Last
  BY DEF EndTxn, fileVars, Last
<1>2. ReaderInv'
  <2>1. \A q \in Readers : Pins(reader[q]) => NoneOlder(reader[q].txnid)'
    BY DEF SInv, ReaderInv, ReaderPins, NoneOlder
  <2>2. \A t, s : Spares(txn', t, s)
    BY <1>1 DEF Spares
  <2> QED BY <1>1, <2>1, <2>2, ReadersStay DEF SInv
<1>3. PublishedInv'
  BY <1>1 DEF SInv, PublishedInv, NoneOlder
<1>4. WriterInv' /\ WorkInv'
  BY <1>1 DEF WriterInv, WorkInv
<1> QED BY <1>2, <1>3, <1>4 DEF SInv

-----------------------------------------------------------------------------
(* What the private steps of the writer do to its tree.                    *)

\* The purpose for which a page was wanted last does not change with the root.
LEMMA TouchAt ==
    ASSUME NEW f, NEW m, NEW w, NEW x, PageInv(f, m, w), x = TouchRoot(w), x.pc # "alloc"
    PROVE  x.at = w.at
<1>0. /\ DOMAIN w = TxnFields
      /\ NoPage \notin DOMAIN w.dirty \cup DOMAIN w.under
  BY DEF PageInv, Held, Shape, Private, NoPage, FirstPage
<1>1. \A at : Want(w, at).pc = "alloc"
  BY <1>0 DEF Want, TxnFields
<1>2. Adopt(w, w.root).at = w.at
  BY <1>0 DEF Adopt, TxnFields
<1>3. x = w \/ x = Adopt(w, w.root) \/ x = Want(w, "new root") \/ x = Want(w, "root")
  BY <1>0 DEF TouchRoot, IsDirty
<1> QED BY <1>1, <1>2, <1>3

\* Nor with a value that is put or deleted in place.
LEMMA PutAt ==
    ASSUME NEW w, NEW x, DOMAIN w = TxnFields, x = PutValue(w), x.pc # "alloc"
    PROVE  x.at = w.at
<1> DEFINE ov == w.dirty[w.root].ov
           y == OvpageFree(w, ov[w.key])
           z == [y EXCEPT !.dirty[w.root] = Leaf(Without(ov, w.key))]
<1>1. DOMAIN z = TxnFields
  BY DEF OvpageFree, TxnFields
<1>2. x = Want(w, "value") \/ x = Want(z, "value")
      \/ x = [w EXCEPT !.dirty = With(@, ov[w.key], Value(w.stamp)), !.pc = "ready"]
  BY DEF PutValue
<1> HIDE DEF ov, y, z
<1>3. Want(w, "value").pc = "alloc" /\ Want(z, "value").pc = "alloc"
  BY <1>1 DEF Want, TxnFields
<1>4. [w EXCEPT !.dirty = With(@, ov[w.key], Value(w.stamp)), !.pc = "ready"].at = w.at
  BY DEF TxnFields
<1> QED BY <1>2, <1>3, <1>4

\* So does a deletion.
LEMMA DelAt ==
    ASSUME NEW w, NEW x, DOMAIN w = TxnFields, x = DelValue(w)
    PROVE  x.at = w.at
<1> DEFINE ov == w.dirty[w.root].ov
           y == OvpageFree(w, ov[w.key])
           z == [y EXCEPT !.dirty[w.root] = Leaf(Without(ov, w.key)), !.pc = "ready"]
<1>1. DOMAIN y = TxnFields /\ y.at = w.at
  BY DEF OvpageFree, TxnFields
<1>2. x = z \/ x = [z EXCEPT !.root = NoPage, !.freed = @ \cup {w.root}]
  BY DEF DelValue
<1> HIDE DEF y
<1>3. DOMAIN z = TxnFields /\ z.at = w.at
  BY <1>1 DEF TxnFields
<1> HIDE DEF z
<1>4. [z EXCEPT !.root = NoPage, !.freed = @ \cup {w.root}].at = z.at
  BY <1>3 DEF TxnFields
<1> QED BY <1>2, <1>3, <1>4

\* What the writer that holds the mutex knows of what it has done.
LEMMA MineToo ==
    ASSUME IInv, SInv, NEW p, MyTxn(p), txn.pc # "publish"
    PROVE  /\ txn # NoTxn /\ Alive(file, Last, txn, Len(slots))
           /\ DOMAIN file = Pages /\ Accounted(file, Last) /\ Last.id \in Nat
           /\ p \in Writers /\ p \in Procs /\ DOMAIN txn = TxnFields /\ txn.depth \in {0, 1}
           /\ Writer(file, Last, txn) /\ Work(file, txn, before) /\ Len(slots) \in Nat
           /\ env[p].pgoldest \in 0..Last.id
<1>1. /\ txn # NoTxn /\ Alive(file, Last, txn, Len(slots))
      /\ DOMAIN file = Pages /\ Accounted(file, Last) /\ Last.id \in Nat
      /\ p \in Writers
  BY Mine
<1>2. DOMAIN txn = TxnFields /\ txn.depth \in {0, 1}
  BY <1>1 DEF Alive
<1>3. Writer(file, Last, txn) /\ Work(file, txn, before)
  BY <1>1 DEF SInv, WriterInv, WorkInv
<1>4. p \in Procs
  BY <1>1 DEF Procs
<1>5. Len(slots) \in Nat
  BY SlotTypes DEF IInv
<1>6. env[p].pgoldest \in 0..Last.id
  BY <1>4 DEF IInv, LockInv
<1> QED BY <1>1, <1>2, <1>3, <1>4, <1>5, <1>6

\* An operation begins.
LEMMA StartOpDoes ==
    ASSUME IInv, SInv, NEW p, NEW k \in Keys, NEW op \in {"put", "del"}, StartOp(p, k, op)
    PROVE  /\ txn.pc = "ready" /\ before' = Tells(file, txn)
           /\ txn'.depth = txn.depth /\ txn'.parent = txn.parent
           /\ txn'.pc \in {"work", "alloc"} /\ ~ForList(txn') /\ Begun(file, txn', before')
           /\ SInv'
<1> DEFINE w == [txn EXCEPT !.key = k, !.op = op, !.ops = @ + 1, !.pc = "work"]
<1>1. /\ MyTxn(p) /\ txn.pc = "ready" /\ txn' = TouchRoot(w) /\ PrivateStep
      /\ op = "del" => txn.root # NoPage /\ k \in DOMAIN Own(txn, file)[txn.root].ov
      /\ before' = Tells(file, txn)
  BY DEF StartOp, Tells
<1>2. /\ txn # NoTxn /\ Alive(file, Last, txn, Len(slots))
      /\ DOMAIN file = Pages /\ Accounted(file, Last) /\ Last.id \in Nat
      /\ p \in Procs /\ Work(file, txn, before) /\ txn.depth \in {0, 1}
  BY <1>1, MineToo
<1>3. OpInv(file, Last, txn) /\ ParentInv(file, Last, txn)
      /\ DOMAIN txn = TxnFields
  BY <1>1, <1>2 DEF Alive, InOp
<1>4. Changed(txn, w, {"key", "op", "ops", "pc"}) /\ w.key = k /\ w.op = op /\ w.pc = "work"
  BY <1>3 DEF Changed, TxnFields
<1> HIDE DEF w
<1>5. PageInv(file, Last, w) /\ Unsaved(Last, w) /\ ParentInv(file, Last, w)
  <2>1. PageInv(file, Last, txn) /\ Unsaved(Last, txn)
    BY <1>3 DEF OpInv
  <2>2. {"key", "op", "ops", "pc"} \cap (HeldFields \cup {"hasHead", "head"}) = {}
    BY DEF HeldFields
  <2>3. PageInv(file, Last, w)
    BY <1>4, <2>1, <2>2, PageKept
  <2>4. Unsaved(Last, w)
    BY <1>4, <2>1, UnsavedKept
  <2>5. ParentInv(file, Last, w)
    BY <1>3, <1>4, ParentKept
  <2> QED BY <2>3, <2>4, <2>5
<1>6. /\ w.root = txn.root /\ w.id = txn.id /\ w.depth = txn.depth /\ Own(w, file) = Own(txn, file)
      /\ w.stamp = txn.stamp /\ w.last = txn.last /\ w.at = txn.at /\ w.parent = txn.parent
      /\ DOMAIN w = TxnFields
  <2>1. Own(w, file) = Own(txn, file)
    BY <1>4, OwnKept
  <2> QED BY <1>4, <2>1 DEF Changed, TxnFields
<1>7. w.op # "put" => w.root # NoPage /\ w.key \in DOMAIN Own(w, file)[w.root].ov
  BY <1>1, <1>4, <1>6
<1>8. /\ Going(file, Last, txn') /\ Fields(w, txn') /\ txn'.pc \in {"work", "alloc"}
      /\ Stays(file, w, txn') /\ (txn'.pc = "alloc" => txn'.at # "value")
  BY <1>1, <1>2, <1>4, <1>5, <1>7, TouchOp
<1>9. txn.stamp \in Stamps /\ ~ForList(txn)
  BY <1>1, <1>2 DEF Work, Begun, InOp
<1>10. ~ForList(txn')
  <2>1. CASE txn'.pc = "alloc"
    BY <1>8, <2>1 DEF Going, Waiting
  <2>2. CASE txn'.pc # "alloc"
    <3>1. txn'.at = w.at
      BY <1>1, <1>5, <2>2, TouchAt
    <3> QED BY <1>6, <1>9, <3>1 DEF ForList
  <2> QED BY <2>1, <2>2
<1>11. Tells(file, txn') = Tells(file, txn) /\ txn'.last = txn.last
  BY <1>6, <1>8 DEF Stays, Tells
<1>12. Fields(w, txn') /\ txn'.stamp = txn.stamp /\ txn'.key = k /\ txn'.depth = txn.depth
       /\ txn'.parent = txn.parent
  BY <1>4, <1>6, <1>8 DEF Fields
<1>13. Begun(file, txn', before')
  BY <1>1, <1>8, <1>9, <1>10, <1>11, <1>12 DEF Begun, Waiting
<1>14. SInv'
  BY <1>1, <1>2, <1>8, <1>11, <1>12, <1>13, GoesOn
<1> QED BY <1>1, <1>8, <1>10, <1>12, <1>13, <1>14

\* A value that is put where it was taken away.
LEMMA WithWithout ==
    ASSUME NEW b, NEW k, NEW v
    PROVE  With(Without(b, k), k, v) = With(b, k, v)
BY DEF With, Without

\* The key k is put or deleted in the contents b.
Wrote(f, x, b, k) ==
    \/ Tells(f, x) = Without(b, k)
    \/ \E v \in Stamps : Tells(f, x) = With(b, k, v)

\* An operation goes on with a page, waits for one, or returns.
OpDoes(w, x, b) ==
    /\ x.depth = w.depth /\ x.parent = w.parent /\ w.key \in Keys
    /\ x.pc \in {"ready", "work", "alloc", "scan", "failed"}
    /\ x.pc = "ready" => Wrote(file, x, b, w.key)
    /\ x.pc # "ready" => ~ForList(x)

\* The operation is done on a page that is dirty.
LEMMA DoOpDoes ==
    ASSUME IInv, SInv, NEW p, DoOp(p)
    PROVE  /\ txn.pc = "work" /\ ~ForList(txn) /\ before' = before
           /\ OpDoes(txn, txn', before) /\ SInv'
<1>1. /\ MyTxn(p) /\ txn.pc = "work" /\ PrivateStep /\ before' = before
      /\ txn.op = "put" => txn' = PutValue(txn)
      /\ txn.op # "put" => txn' = DelValue(txn)
  BY DEF DoOp
<1>2. /\ txn # NoTxn /\ Alive(file, Last, txn, Len(slots))
      /\ DOMAIN file = Pages /\ Accounted(file, Last) /\ Last.id \in Nat
      /\ p \in Procs /\ Work(file, txn, before) /\ txn.depth \in {0, 1}
      /\ DOMAIN txn = TxnFields
  BY <1>1, MineToo
<1>3. OpInv(file, Last, txn) /\ ParentInv(file, Last, txn)
  BY <1>1, <1>2 DEF Alive, InOp
<1>4. /\ txn.stamp \in Stamps /\ ~ForList(txn) /\ txn.key \in Keys
      /\ Tells(file, txn) = before
  BY <1>1, <1>2 DEF Work, Begun, InOp, Waiting
<1>5. /\ Going(file, Last, txn') /\ Fields(txn, txn') /\ txn'.pc \in {"ready", "alloc"}
      /\ txn'.last = txn.last /\ (txn'.pc # "alloc" => txn'.at = txn.at)
      /\ txn'.pc = "ready" =>
           \/ Tells(file, txn') = Without(before, txn.key)
           \/ Tells(file, txn') = With(before, txn.key, txn.stamp)
      /\ txn'.pc = "alloc" => txn'.at = "value" /\ Tells(file, txn') = Without(before, txn.key)
  <2>1. CASE txn.op = "put"
    <3>1. /\ Going(file, Last, txn') /\ Fields(txn, txn') /\ txn'.pc \in {"ready", "alloc"}
          /\ Puts(file, txn, txn')
      BY <1>1, <1>2, <1>3, <2>1, PutOp
    <3>2. txn'.pc # "alloc" => txn'.at = txn.at
      BY <1>1, <1>2, <2>1, PutAt
    <3> QED BY <1>4, <3>1, <3>2 DEF Puts
  <2>2. CASE txn.op # "put"
    <3>1. /\ Going(file, Last, txn') /\ Fields(txn, txn') /\ txn'.pc = "ready"
          /\ txn'.last = txn.last /\ Tells(file, txn') = Without(Tells(file, txn), txn.key)
      BY <1>1, <1>2, <1>3, <2>2, DelOp
    <3>2. txn'.at = txn.at
      BY <1>1, <1>2, <2>2, DelAt
    <3> QED BY <1>4, <3>1, <3>2
  <2> QED BY <2>1, <2>2
<1>6. /\ txn'.stamp = txn.stamp /\ txn'.key = txn.key /\ txn'.depth = txn.depth
      /\ txn'.parent = txn.parent
  BY <1>5 DEF Fields
<1>7. ~ForList(txn')
  BY <1>4, <1>5 DEF ForList
<1>8. Begun(file, txn', before')
  BY <1>1, <1>4, <1>5, <1>6, <1>7 DEF Begun, Waiting
<1>9. SInv'
  BY <1>1, <1>2, <1>5, <1>6, <1>8, GoesOn
<1>10. OpDoes(txn, txn', before)
  BY <1>4, <1>5, <1>6, <1>7 DEF OpDoes, Wrote
<1> QED BY <1>1, <1>4, <1>9, <1>10

\* The save goes on, or fails, and the tree stays as it is.
SaveDoes(f, w, x) ==
    /\ x.depth = 0 /\ w.depth = 0 /\ Tells(f, x) = Tells(f, w)
    /\ \/ x.pc \in {"save", "flush"}
       \/ x.pc \in {"alloc", "scan", "failed"} /\ ForList(x)

\* A page is allocated for an operation.
LEMMA AllocOpDoes ==
    ASSUME IInv, SInv, NEW p, AllocStep(p), ~ForList(txn)
    PROVE  OpDoes(txn, txn', before) /\ SInv'
<1>1. /\ MyTxn(p) /\ txn.pc = "alloc" /\ PrivateStep /\ before' = before
      /\ txn' = Alloc(txn, file, env[p].pgoldest, MaxPg, Len(slots))
  BY DEF AllocStep
<1>2. /\ txn # NoTxn /\ Alive(file, Last, txn, Len(slots))
      /\ DOMAIN file = Pages /\ Accounted(file, Last) /\ Last.id \in Nat
      /\ p \in Procs /\ Work(file, txn, before) /\ txn.depth \in {0, 1}
      /\ DOMAIN txn = TxnFields /\ env[p].pgoldest \in 0..Last.id
  BY <1>1, MineToo
<1>3. OpInv(file, Last, txn) /\ ParentInv(file, Last, txn)
  BY <1>1, <1>2 DEF Alive, InOp, Waiting
<1>4. /\ txn.stamp \in Stamps /\ txn.key \in Keys
      /\ Tells(file, txn) = IF txn.at = "value" THEN Without(before, txn.key) ELSE before
  BY <1>1, <1>2 DEF Work, Begun, InOp, Waiting
<1>5. /\ Going(file, Last, txn') /\ Fields(txn, txn')
      /\ txn'.pc = "scan" => txn'.slot = Len(slots) /\ txn'.oldest = Last.id
      /\ Allocates(file, txn, txn')
      /\ txn'.last = txn.last \/ txn'.last \in 0..(env[p].pgoldest - 1)
  <2> DEFINE old == env[p].pgoldest
             n == Len(slots)
             x == txn'
  <2>1. x = Alloc(txn, file, old, MaxPg, n) /\ txn.pc = "alloc"
    BY <1>1
  <2>2. DOMAIN file = Pages /\ Accounted(file, Last) /\ Last.id \in Nat /\ old \in 0..Last.id
    BY <1>2
  <2> HIDE DEF old, n, x
  <2>3. /\ Going(file, Last, x) /\ Fields(txn, x)
        /\ x.pc = "scan" => x.slot = n /\ x.oldest = Last.id
        /\ Allocates(file, txn, x) /\ (x.last = txn.last \/ x.last \in 0..(old - 1))
    BY <2>1, <2>2, <1>3, AllocOp
  <2> QED BY <2>3 DEF old, n, x
<1>6. /\ txn'.stamp = txn.stamp /\ txn'.key = txn.key /\ txn'.depth = txn.depth
      /\ txn'.parent = txn.parent /\ txn'.at = txn.at
      /\ txn'.pc \in {"ready", "work", "alloc", "scan", "failed"}
  BY <1>5 DEF Fields, Allocates, Going
<1>7. ~ForList(txn')
  BY <1>6 DEF ForList
<1>8. /\ txn'.pc = "ready" => Tells(file, txn') = With(before, txn.key, txn.stamp)
      /\ txn'.pc = "work" => Tells(file, txn') = before
      /\ Waiting(txn') => Tells(file, txn') = Tells(file, txn)
  <2>1. CASE txn'.pc = "ready"
    <3>1. txn.at = "value" /\ Tells(file, txn') = With(Tells(file, txn), txn.key, txn.stamp)
      BY <1>5, <2>1 DEF Allocates
    <3>2. Tells(file, txn') = With(Without(before, txn.key), txn.key, txn.stamp)
      BY <1>4, <3>1
    <3> QED BY <2>1, <3>2, WithWithout DEF Waiting
  <2>2. CASE txn'.pc # "ready"
    BY <1>4, <1>5, <2>2 DEF Allocates, Waiting
  <2> QED BY <2>1, <2>2
<1>9. Begun(file, txn', before')
  BY <1>1, <1>4, <1>6, <1>7, <1>8 DEF Begun, Waiting, InOp
<1>10. SInv'
  BY <1>1, <1>2, <1>5, <1>6, <1>9, GoesOn
<1>11. OpDoes(txn, txn', before)
  BY <1>4, <1>6, <1>7, <1>8 DEF OpDoes, Wrote
<1> QED BY <1>10, <1>11

\* A page is allocated for the free list.
LEMMA AllocSaveDoes ==
    ASSUME IInv, SInv, NEW p, AllocStep(p), ForList(txn)
    PROVE  SaveDoes(file, txn, txn') /\ SInv'
<1>1. /\ MyTxn(p) /\ txn.pc = "alloc" /\ PrivateStep /\ before' = before
      /\ txn' = Alloc(txn, file, env[p].pgoldest, MaxPg, Len(slots))
  BY DEF AllocStep
<1>2. /\ txn # NoTxn /\ Alive(file, Last, txn, Len(slots))
      /\ DOMAIN file = Pages /\ Accounted(file, Last) /\ Last.id \in Nat
      /\ p \in Procs /\ txn.depth \in {0, 1} /\ env[p].pgoldest \in 0..Last.id
  BY <1>1, MineToo
<1>3. SaveInv(file, Last, txn)
  BY <1>1, <1>2 DEF Alive, InSave, Waiting
<1>4. /\ Going2Save(file, Last, txn') /\ Kept(file, txn, txn')
      /\ txn'.last = txn.last \/ txn'.last \in 0..(env[p].pgoldest - 1)
      /\ txn'.pc = "failed" => ForList(txn')
      /\ txn'.pc = "scan" => txn'.slot = Len(slots) /\ txn'.oldest = Last.id
  <2> DEFINE old == env[p].pgoldest
             n == Len(slots)
             x == txn'
  <2>1. x = Alloc(txn, file, old, MaxPg, n) /\ txn.pc = "alloc"
    BY <1>1
  <2>2. DOMAIN file = Pages /\ Accounted(file, Last) /\ Last.id \in Nat /\ old \in 0..Last.id
    BY <1>2
  <2> HIDE DEF old, n, x
  <2>3. /\ Going2Save(file, Last, x) /\ Kept(file, txn, x)
        /\ x.last = txn.last \/ x.last \in 0..(old - 1)
        /\ x.pc = "failed" => ForList(x)
        /\ x.pc = "scan" => x.slot = n /\ x.oldest = Last.id
    BY <2>1, <2>2, <1>3, AllocSave
  <2> QED BY <2>3 DEF old, n, x
<1>5. /\ DOMAIN txn' = TxnFields /\ txn'.depth = 0 /\ txn.depth = 0
      /\ Tells(file, txn') = Tells(file, txn)
      /\ txn'.pc \in {"save", "alloc", "scan", "failed"}
      /\ txn'.pc # "failed" => SaveInv(file, Last, txn')
  BY <1>4 DEF Kept, SameTxn, Going2Save
<1>6. txn'.pc \in {"alloc", "scan"} => ForList(txn')
  BY <1>5 DEF SaveInv, Waiting, ForList
<1>7. ~InOp(txn')
  BY <1>5, <1>6 DEF InOp, Waiting
<1>8. Begun(file, txn', before')
  BY <1>7 DEF Begun
<1>9. SInv'
  BY <1>1, <1>2, <1>4, <1>5, <1>8, GoesOn
<1>10. SaveDoes(file, txn, txn')
  BY <1>4, <1>5, <1>6 DEF SaveDoes
<1> QED BY <1>9, <1>10

\* The operation stays where it is.
LEMMA BegunKept ==
    ASSUME NEW f, NEW w, NEW x, NEW b, NEW G, Begun(f, w, b), Changed(w, x, G),
           G \subseteq {"pc", "found", "oldest", "slot", "last"}, Waiting(w), Waiting(x)
    PROVE  /\ Begun(f, x, b) /\ Tells(f, x) = Tells(f, w)
           /\ x.at = w.at /\ x.depth = w.depth /\ x.parent = w.parent
<1>1. /\ x.at = w.at /\ x.depth = w.depth /\ x.parent = w.parent /\ x.stamp = w.stamp
      /\ x.key = w.key /\ x.root = w.root
  BY DEF Changed, TxnFields
<1>2. Tells(f, x) = Tells(f, w)
  <2>1. Own(x, f) = Own(w, f)
    BY OwnKept
  <2> QED BY <1>1, <2>1 DEF Tells
<1>3. ForList(x) = ForList(w)
  BY <1>1 DEF ForList
<1>4. InOp(x) => InOp(w) /\ w.pc # "ready"
  BY <1>3 DEF InOp, Waiting
<1>5. Begun(f, x, b)
  BY <1>1, <1>2, <1>3, <1>4 DEF Begun
<1> QED BY <1>1, <1>2, <1>5

\* The writer looks at one slot.
LEMMA ScanSlotDoes ==
    ASSUME IInv, SInv, NEW p, ScanSlot(p)
    PROVE  /\ before' = before /\ txn.pc = "scan" /\ txn'.pc = "scan"
           /\ Tells(file, txn') = Tells(file, txn)
           /\ txn'.at = txn.at /\ txn'.depth = txn.depth /\ txn'.parent = txn.parent
           /\ SInv'
<1>1. /\ MyTxn(p) /\ txn.pc = "scan" /\ txn.slot > 0 /\ PrivateStep /\ before' = before
      /\ txn' = [txn EXCEPT !.oldest = Older(@, slots[txn.slot]), !.slot = @ - 1]
  BY DEF ScanSlot
<1>2. /\ txn # NoTxn /\ Alive(file, Last, txn, Len(slots)) /\ DOMAIN txn = TxnFields
      /\ Last.id \in Nat /\ Writer(file, Last, txn) /\ Work(file, txn, before)
      /\ Len(slots) \in Nat
  BY <1>1, MineToo
<1>3. txn.oldest \in 0..Last.id /\ txn.slot \in 0..Len(slots)
  BY <1>1, <1>2 DEF Alive
<1>4. /\ Changed(txn, txn', {"oldest", "slot"}) /\ txn'.pc = "scan"
      /\ txn'.oldest = Older(txn.oldest, slots[txn.slot]) /\ txn'.slot = txn.slot - 1
      /\ txn'.last = txn.last
  BY <1>1, <1>2 DEF Changed, TxnFields
<1>5. /\ Begun(file, txn', before) /\ Tells(file, txn') = Tells(file, txn)
      /\ txn'.at = txn.at /\ txn'.depth = txn.depth /\ txn'.parent = txn.parent
  <2>1. Waiting(txn) /\ Waiting(txn')
    BY <1>1, <1>4 DEF Waiting
  <2>2. Begun(file, txn, before)
    BY <1>2 DEF Work
  <2> QED BY <1>4, <2>1, <2>2, BegunKept
<1>6. slots[txn.slot].txnid \in Nat
  <2>1. slots[txn.slot].txnid \in 0..Idle
    BY <1>1, <1>2, <1>3, SlotTypes DEF IInv
  <2>2. Idle \in Nat
    BY LmdbAssumption DEF Idle
  <2> QED BY <2>1, <2>2
<1>7. /\ txn'.oldest \in Nat /\ txn'.oldest <= txn.oldest
      /\ slots[txn.slot].pid # None => txn'.oldest <= slots[txn.slot].txnid
  <2> DEFINE a == txn.oldest
             b == slots[txn.slot].txnid
  <2>1. a \in Nat /\ b \in Nat
    BY <1>2, <1>3, <1>6
  <2>2. txn'.oldest = IF slots[txn.slot].pid # None THEN Min({a, b}) ELSE a
    BY <1>4 DEF Older
  <2> HIDE DEF a, b
  <2>3. Min({a, b}) \in Nat /\ Min({a, b}) <= a
    BY <2>1, LeastOfTwo
  <2>4. {a, b} = {b, a}
    OBVIOUS
  <2>5. Min({b, a}) <= b
    BY <2>1, LeastOfTwo
  <2>6. Min({a, b}) <= b
    BY <2>4, <2>5
  <2>7. /\ txn'.oldest \in Nat /\ txn'.oldest <= a
        /\ slots[txn.slot].pid # None => txn'.oldest <= b
    BY <2>1, <2>2, <2>3, <2>6
  <2> QED BY <2>7 DEF a, b
<1>8. ASSUME NEW r \in Readers, Pins(reader[r])
      PROVE  Spares(txn', reader[r].txnid, reader[r].slot)
  <2>1. ReaderSlot(r, reader[r]) /\ ReaderPins(reader[r])
    BY DEF SInv, ReaderInv
  <2>2. /\ reader[r].txnid \in Nat /\ reader[r].slot \in Nat
        /\ slots[reader[r].slot].pid # None /\ slots[reader[r].slot].txnid = reader[r].txnid
    <3>1. /\ reader[r].txnid \in Nat /\ reader[r].slot \in 1..Len(slots)
          /\ slots[reader[r].slot].pid = r /\ slots[reader[r].slot].txnid = reader[r].txnid
      BY <1>8, <2>1, PinNumbers
    <3>2. r # None
      BY LmdbAssumption DEF Procs
    <3> QED BY <1>2, <3>1, <3>2
  <2>3. Spares(txn, reader[r].txnid, reader[r].slot)
    BY <1>8, <2>1 DEF ReaderPins
  <2>4. /\ txn.last <= reader[r].txnid
        /\ txn.depth = 1 => txn.parent.last <= reader[r].txnid
        /\ txn.oldest <= reader[r].txnid \/ reader[r].slot <= txn.slot
    BY <1>1, <1>2, <2>3 DEF Spares
  <2>5. txn'.oldest <= reader[r].txnid \/ reader[r].slot <= txn'.slot
    <3>1. CASE txn.oldest <= reader[r].txnid
      BY <1>2, <1>3, <1>7, <2>2, <3>1
    <3>2. CASE reader[r].slot = txn.slot
      BY <1>7, <2>2, <3>2
    <3>3. CASE reader[r].slot <= txn.slot /\ reader[r].slot # txn.slot
      BY <1>2, <1>3, <1>4, <2>2, <3>3
    <3> QED BY <2>4, <3>1, <3>2, <3>3
  <2> QED BY <1>4, <1>5, <2>4, <2>5 DEF Spares
<1>9. Writer(file, Last, txn')
  BY <1>2, <1>4, <1>5 DEF Writer
<1>10. Work(file, txn', before')
  <2>1. Resumes(txn')
    BY <1>2, <1>5 DEF Work, Resumes
  <2> QED BY <1>1, <1>4, <1>5, <2>1 DEF Work
<1>11. SInv'
  BY <1>1, <1>2, <1>4, <1>8, <1>9, <1>10, PrivateSInv
<1> QED BY <1>1, <1>4, <1>5, <1>11

\* The search ends: no reader that has settled is older than what was found.
LEMMA EndScanDoes ==
    ASSUME IInv, SInv, NEW p, EndScan(p)
    PROVE  /\ before' = before /\ txn.pc = "scan" /\ txn'.pc = "alloc"
           /\ Tells(file, txn') = Tells(file, txn)
           /\ txn'.at = txn.at /\ txn'.depth = txn.depth /\ txn'.parent = txn.parent
           /\ SInv'
<1>1. /\ MyTxn(p) /\ txn.pc = "scan" /\ txn.slot = 0
      /\ env' = [env EXCEPT ![p].pgoldest = txn.oldest]
      /\ txn' = [txn EXCEPT !.pc = "alloc", !.found = TRUE]
      /\ UNCHANGED fileVars /\ UNCHANGED lockVars /\ UNCHANGED ghostVars /\ UNCHANGED reader
      /\ before' = before
  BY DEF EndScan, ghostVars
<1>2. /\ txn # NoTxn /\ Alive(file, Last, txn, Len(slots)) /\ DOMAIN txn = TxnFields
      /\ Last.id \in Nat /\ Writer(file, Last, txn) /\ Work(file, txn, before)
      /\ p \in Procs
  BY <1>1, MineToo
<1>3. txn.oldest \in 0..Last.id
  BY <1>1, <1>2 DEF Alive
<1>4. /\ Changed(txn, txn', {"pc", "found"}) /\ txn'.pc = "alloc" /\ txn'.last = txn.last
  BY <1>1, <1>2 DEF Changed, TxnFields
<1>5. /\ Begun(file, txn', before) /\ Tells(file, txn') = Tells(file, txn)
      /\ txn'.at = txn.at /\ txn'.depth = txn.depth /\ txn'.parent = txn.parent
  <2>1. Waiting(txn) /\ Waiting(txn')
    BY <1>1, <1>4 DEF Waiting
  <2>2. Begun(file, txn, before)
    BY <1>2 DEF Work
  <2> QED BY <1>4, <2>1, <2>2, BegunKept
<1>6. DOMAIN env = Procs /\ DOMAIN env[p] = {"open", "live", "pgoldest", "suspect"}
  BY <1>2 DEF IInv, EnvInv
<1>7. /\ env'[p].pgoldest = txn.oldest
      /\ \A q \in Procs : env'[q].open = env[q].open /\ env'[q].live = env[q].live
      /\ \A q \in Procs : q # p => env'[q].pgoldest = env[q].pgoldest
  BY <1>1, <1>2, <1>6
<1>8. UNCHANGED <<file, meta, history, mti_txnid, slots, reader, ownerDied>> /\ Last' = Last
  BY <1>1 DEF fileVars, lockVars, ghostVars, Last
<1>9. ASSUME NEW r \in Readers, Pins(reader[r])
      PROVE  NoneOlder(reader[r].txnid)' /\ Spares(txn', reader[r].txnid, reader[r].slot)
  <2>1. ReaderSlot(r, reader[r]) /\ ReaderPins(reader[r])
    BY DEF SInv, ReaderInv
  <2>2. reader[r].txnid \in Nat /\ reader[r].slot \in 1..Len(slots) /\ Len(slots) \in Nat
    BY <1>9, <2>1, PinNumbers
  <2>3. Spares(txn, reader[r].txnid, reader[r].slot) /\ NoneOlder(reader[r].txnid)
    BY <1>9, <2>1 DEF ReaderPins
  <2>4. /\ txn.last <= reader[r].txnid
        /\ txn.depth = 1 => txn.parent.last <= reader[r].txnid
        /\ txn.oldest <= reader[r].txnid \/ reader[r].slot <= txn.slot
    BY <1>1, <1>2, <2>3 DEF Spares
  <2>5. txn.oldest <= reader[r].txnid
    BY <1>1, <2>2, <2>4
  <2>6. \A q \in Procs : env'[q].pgoldest <= reader[r].txnid
    BY <1>7, <2>3, <2>5 DEF NoneOlder
  <2>7. NoneOlder(reader[r].txnid)'
    BY <1>8, <2>6 DEF NoneOlder
  <2> QED BY <1>4, <1>5, <2>4, <2>7 DEF Spares
<1>10. ReaderInv'
  BY <1>7, <1>8, <1>9, ReadersStay DEF SInv
<1>11. PublishedInv'
  <2>1. mti_txnid = Last.id
    BY <1>1, <1>2 DEF SInv, WriterInv, IInv, LockInv
  <2>2. \A q \in Procs : env'[q].pgoldest <= mti_txnid
    BY <1>2, <1>3, <1>7, <2>1 DEF SInv, PublishedInv, NoneOlder
  <2> QED BY <1>8, <2>2 DEF SInv, PublishedInv, NoneOlder
<1>12. Writer(file, Last, txn')
  BY <1>2, <1>4, <1>5 DEF Writer
<1>13. Work(file, txn', before)
  <2>1. Resumes(txn')
    BY <1>2, <1>5 DEF Work, Resumes
  <2> QED BY <1>4, <1>5, <2>1 DEF Work
<1>14. WriterInv' /\ WorkInv'
  BY <1>1, <1>2, <1>8, <1>12, <1>13 DEF SInv, WriterInv, WorkInv
<1>15. SInv'
  BY <1>10, <1>11, <1>14 DEF SInv
<1> QED BY <1>1, <1>4, <1>5, <1>15

\* A nested transaction begins.
LEMMA BeginChildDoes ==
    ASSUME IInv, SInv, NEW p, BeginChild(p)
    PROVE  /\ before' = before /\ txn.pc = "ready" /\ txn'.pc = "ready"
           /\ txn.depth = 0 /\ txn'.depth = 1
           /\ Tells(file, txn') = Tells(file, txn) /\ Tells(file, txn'.parent) = Tells(file, txn)
           /\ SInv'
<1>1. /\ MyTxn(p) /\ txn.pc = "ready" /\ txn.depth = 0 /\ PrivateStep /\ before' = before
      /\ txn' = Child([txn EXCEPT !.nests = @ + 1], MaxTxn + txn.id)
  BY DEF BeginChild
<1>2. /\ txn # NoTxn /\ Alive(file, Last, txn, Len(slots)) /\ DOMAIN file = Pages
      /\ Accounted(file, Last) /\ Last.id \in Nat /\ Writer(file, Last, txn)
      /\ Work(file, txn, before)
  BY <1>1, MineToo
<1>3. OpInv(file, Last, txn)
  BY <1>1, <1>2 DEF Alive, InOp
<1>4. /\ txn'.depth = 1 /\ txn'.pc = "ready"
      /\ Stays(file, txn, txn') /\ Stays(file, txn, txn'.parent)
      /\ txn'.stamp = MaxTxn + txn.id
      /\ txn'.parent.stamp = txn.stamp /\ txn'.parent.at = txn.at /\ txn'.at = txn.at
  BY <1>1, <1>2, <1>3, BeginOp
<1>5. /\ Tells(file, txn') = Tells(file, txn) /\ Tells(file, txn'.parent) = Tells(file, txn)
      /\ txn'.last = txn.last /\ txn'.parent.last = txn.last
  BY <1>4 DEF Stays
<1>6. txn.stamp \in Stamps /\ ~ForList(txn)
  BY <1>1, <1>2 DEF Work, Begun, InOp
<1>7. txn'.stamp \in Stamps
  <2>1. txn.id \in 1..MaxTxn /\ MaxTxn \in Nat
    BY <1>2, LmdbAssumption DEF Alive
  <2> QED BY <1>4, <2>1 DEF Stamps
<1>8. Work(file, txn', before')
  <2>1. Resumes(txn')
    BY <1>4, <1>6 DEF Resumes, ForList
  <2>2. ~ForList(txn')
    BY <1>4, <1>6 DEF ForList
  <2>3. Begun(file, txn', before')
    BY <1>4, <1>7, <2>2 DEF Begun
  <2> QED BY <1>4, <2>1, <2>3 DEF Work
<1>9. Writer(file, Last, txn')
  BY <1>2, <1>4, <1>5 DEF Writer
<1>10. \A r \in Readers : Pins(reader[r]) =>
          Spares(txn', reader[r].txnid, reader[r].slot)
  BY <1>1, <1>2, <1>4, <1>5 DEF SInv, ReaderInv, ReaderPins, Spares
<1>11. SInv'
  BY <1>1, <1>2, <1>4, <1>8, <1>9, <1>10, PrivateSInv
<1> QED BY <1>1, <1>4, <1>5, <1>11

\* A nested transaction ends: its tree is kept, or that of its parent brought back.
LEMMA ChildEndDoes ==
    ASSUME IInv, SInv, NEW p, CommitChild(p) \/ AbortChild(p)
    PROVE  /\ txn.depth = 1 /\ txn.pc \in {"ready", "failed"} /\ txn'.depth = 0
           /\ txn'.pc \in {"ready", "failed"} /\ ~ForList(txn')
           /\ before' = Tells(file, txn')
           /\ \/ Tells(file, txn') = Tells(file, txn) /\ txn.pc = "ready"
              \/ Tells(file, txn') = Tells(file, txn.parent)
           /\ SInv'
<1>1. /\ MyTxn(p) /\ txn.depth > 0 /\ txn.pc \in {"ready", "failed"} /\ PrivateStep
      /\ \/ txn.pc = "ready" /\ txn' = ChildCommitted(txn)
         \/ txn' = ChildAborted(txn, "ready")
         \/ txn' = ChildAborted(txn, "failed")
      /\ before' = Contents(Own(txn', file), txn'.root)
  BY DEF CommitChild, AbortChild
<1>2. /\ txn # NoTxn /\ Alive(file, Last, txn, Len(slots)) /\ DOMAIN file = Pages
      /\ Accounted(file, Last) /\ Last.id \in Nat /\ Writer(file, Last, txn)
      /\ Work(file, txn, before) /\ txn.depth \in {0, 1}
  BY <1>1, MineToo
<1>3. txn.depth = 1 /\ ParentInv(file, Last, txn) /\ (txn.pc = "ready" => OpInv(file, Last, txn))
  BY <1>1, <1>2 DEF Alive, InOp
<1>4. before' = Tells(file, txn')
  BY <1>1 DEF Tells
<1>5. txn.parent.stamp \in Stamps /\ ~ForList(txn.parent)
  BY <1>2, <1>3 DEF Work, Resumes
<1>6. /\ txn'.depth = 0 /\ txn'.pc \in {"ready", "failed"} /\ txn'.stamp \in Stamps
      /\ ~ForList(txn')
      /\ \/ txn.pc = "ready" /\ Stays(file, txn, txn')
         \/ Stays(file, txn.parent, txn')
  <2>1. CASE txn.pc = "ready" /\ txn' = ChildCommitted(txn)
    <3>1. /\ txn'.depth = 0 /\ txn'.pc = "ready" /\ Stays(file, txn, txn')
          /\ txn'.stamp = txn.parent.stamp /\ txn'.at = txn.at
      BY <1>2, <1>3, <2>1, CommitOp
    <3>2. ~ForList(txn)
      BY <1>2, <2>1 DEF Work, Begun, InOp
    <3> QED BY <1>5, <2>1, <3>1, <3>2 DEF ForList
  <2>2. \A pc \in {"ready", "failed"} : txn' = ChildAborted(txn, pc) =>
           /\ txn'.depth = 0 /\ txn'.pc = pc /\ Stays(file, txn.parent, txn')
           /\ txn'.stamp = txn.parent.stamp /\ txn'.at = txn.parent.at
    <3>1. txn.id = Last.id + 1
      BY <1>2 DEF Alive
    <3> QED BY <1>3, <3>1, AbortOp
  <2>3. CASE txn' = ChildAborted(txn, "ready")
    BY <1>5, <2>2, <2>3 DEF ForList
  <2>4. CASE txn' = ChildAborted(txn, "failed")
    BY <1>5, <2>2, <2>4 DEF ForList
  <2> QED BY <1>1, <2>1, <2>3, <2>4
<1>7. /\ txn'.last = txn.last \/ txn'.last = txn.parent.last
      /\ \/ Tells(file, txn') = Tells(file, txn) /\ txn.pc = "ready"
         \/ Tells(file, txn') = Tells(file, txn.parent)
  BY <1>6 DEF Stays
<1>8. Work(file, txn', before')
  <2>1. Resumes(txn')
    BY <1>6 DEF Resumes
  <2>2. Begun(file, txn', before')
    BY <1>6 DEF Begun, InOp, Waiting
  <2> QED BY <1>6, <2>1, <2>2 DEF Work
<1>9. Writer(file, Last, txn')
  BY <1>2, <1>3, <1>6, <1>7 DEF Writer
<1>10. \A r \in Readers : Pins(reader[r]) =>
          Spares(txn', reader[r].txnid, reader[r].slot)
  BY <1>1, <1>2, <1>3, <1>6, <1>7 DEF SInv, ReaderInv, ReaderPins, Spares
<1>11. SInv'
  BY <1>1, <1>2, <1>6, <1>8, <1>9, <1>10, PrivateSInv
<1> QED BY <1>1, <1>3, <1>4, <1>6, <1>7, <1>11

\* The save begins, or goes on by a round.
LEMMA SaveRoundDoes ==
    ASSUME IInv, SInv, NEW p,
           \/ StartCommit(p) /\ ~EndTxn
           \/ SaveFreelist(p)
    PROVE  /\ before' = before /\ txn # NoTxn /\ txn.pc \in {"ready", "save"}
           /\ SaveDoes(file, txn, txn') /\ SInv'
<1>1. /\ MyTxn(p) /\ PrivateStep /\ before' = before
      /\ \/ txn.pc = "ready" /\ txn.depth = 0 /\ txn.dirty # EmptyMap /\ txn' = Save(txn)
         \/ txn.pc = "save" /\ Rounded(txn, txn')
  BY DEF StartCommit, SaveFreelist, Rounded, PrivateStep, lockVars
<1>2. /\ txn # NoTxn /\ Alive(file, Last, txn, Len(slots)) /\ DOMAIN file = Pages
      /\ Accounted(file, Last) /\ Last.id \in Nat /\ Writer(file, Last, txn)
      /\ Work(file, txn, before) /\ txn.depth \in {0, 1} /\ p \in Procs
  BY <1>1, MineToo
<1>3. /\ KeptRound(file, txn, txn') /\ txn.depth = 0
      /\ \/ txn'.pc \in {"save", "alloc"} /\ SaveInv(file, Last, txn')
         \/ txn'.pc = "flush" /\ Flushing(file, Last, txn')
  <2>1. CASE txn.pc = "ready" /\ txn.depth = 0 /\ txn.dirty # EmptyMap /\ txn' = Save(txn)
    <3>1. OpInv(file, Last, txn)
      BY <1>2, <2>1 DEF Alive, InOp
    <3>2. DOMAIN txn.dirty # {}
      <4>1. Fn(txn.dirty)
        BY <3>1 DEF OpInv, PageInv, Held, Shape
      <4> QED BY <2>1, <4>1, NoMap
    <3>3. SaveInv(file, Last, txn') /\ txn'.pc = "save" /\ KeptRound(file, txn, txn')
      BY <1>2, <2>1, <3>1, <3>2, SaveOp
    <3> QED BY <2>1, <3>3
  <2>2. CASE txn.pc = "save" /\ Rounded(txn, txn')
    <3>1. SaveInv(file, Last, txn)
      BY <1>2, <2>2 DEF Alive, InSave
    <3>2. txn.depth = 0
      BY <3>1 DEF SaveInv
    <3> QED BY <1>2, <2>2, <3>1, <3>2, SaveOne
  <2> QED BY <1>1, <2>1, <2>2
<1>4. /\ txn'.depth = 0 /\ Tells(file, txn') = Tells(file, txn) /\ txn'.last = txn.last
  BY <1>3 DEF KeptRound, SameTxn, Stays
<1>5. txn'.pc = "alloc" => ForList(txn')
  BY <1>3 DEF SaveInv, Waiting, ForList
<1>6. ~InOp(txn')
  BY <1>3, <1>5 DEF InOp, Waiting
<1>7. Begun(file, txn', before')
  BY <1>6 DEF Begun
<1>8. SInv'
  <2>1. txn'.pc \notin {"publish", "scan", "sync", "meta"}
    BY <1>3
  <2>2. txn.pc # "publish"
    BY <1>1
  <2>3. txn'.pc \in {"flush", "sync", "meta"} => Flushing(file, Last, txn')
    BY <1>3
  <2> QED BY <1>1, <1>2, <1>3, <1>4, <1>7, <2>1, <2>2, <2>3, GoesOn
<1>9. SaveDoes(file, txn, txn')
  BY <1>3, <1>4, <1>5 DEF SaveDoes
<1> QED BY <1>1, <1>2, <1>8, <1>9

-----------------------------------------------------------------------------
(* The steps of a commit that change the file.                             *)

\* A page out of the reach of every reader is written.
LEMMA ViewFrame ==
    ASSUME NEW q, ReaderView(reader[q]), Pins(reader[q]), reader'[q] = reader[q],
           UNCHANGED <<meta, history>>, Last' = Last, Accounted(file, Last),
           \A pg \in Reach(file, Last, reader[q].txnid) : file'[pg] = file[pg]
    PROVE  /\ ReaderView(reader[q])'
           /\ reader[q].pc = "active" =>
                /\ PagesOf(file', reader[q].root) = PagesOf(file, reader[q].root)
                /\ Contents(file', reader[q].root) = Contents(file, reader[q].root)
<1> DEFINE r == reader[q]
           t == r.txnid
<1>1. CASE r.pc = "copy"
  <2>1. Version(file, Last, history, meta[t % 2], t)
    BY <1>1 DEF ReaderView
  <2>2. Version(file', Last, history, meta[t % 2], t)
    BY <2>1, VersionFrame
  <2> QED BY <1>1, <2>2 DEF ReaderView
<1>2. CASE r.pc \in {"size", "active"}
  <2>1. Pinned(file, Last, r.root, t)
    BY <1>2 DEF ReaderView
  <2>2. /\ Pinned(file', Last, r.root, t) /\ PagesOf(file', r.root) = PagesOf(file, r.root)
        /\ Contents(file', r.root) = Contents(file, r.root)
    BY <2>1, PinnedFrame
  <2> QED BY <1>2, <2>2 DEF ReaderView
<1> QED BY <1>1, <1>2 DEF Pins

\* What the readers see stays the same.
SeenSame ==
    \A q \in Readers : reader[q].pc = "active" =>
      /\ PagesOf(file', reader[q].root) = PagesOf(file, reader[q].root)
      /\ Contents(file', reader[q].root) = Contents(file, reader[q].root)

\* A page of the commit is written.
LEMMA FlushPageDoes ==
    ASSUME IInv, SInv, NEW p, FlushPage(p)
    PROVE  /\ before' = before /\ txn.pc = "flush" /\ txn'.pc \in {"flush", "sync"}
           /\ txn.depth = 0 /\ txn'.depth = 0
           /\ Tells(file', txn') = Tells(file, txn) /\ SeenSame
           /\ SInv'
<1> DEFINE pg == Min(txn.left)
<1>1. /\ MyTxn(p) /\ txn.pc = "flush"
      /\ file' = [file EXCEPT ![pg] = txn.dirty[pg]]
      /\ txn' = [txn EXCEPT !.left = txn.left \ {pg},
                            !.pc = IF txn.left \ {pg} = {} THEN "sync" ELSE "flush"]
      /\ UNCHANGED <<meta, metaDisk>> /\ UNCHANGED lockVars
      /\ UNCHANGED env /\ UNCHANGED reader /\ UNCHANGED ghostVars
  BY DEF FlushPage
<1>2. /\ txn # NoTxn /\ Alive(file, Last, txn, Len(slots))
      /\ DOMAIN file = Pages /\ Accounted(file, Last) /\ Last.id \in Nat
      /\ Writer(file, Last, txn) /\ DOMAIN txn = TxnFields
  BY <1>1, MineToo
<1>3. FlushInv(file, Last, txn) /\ Flushing(file, Last, txn) /\ txn.last \in 0..Last.id
  BY <1>1, <1>2 DEF Alive, Writer
<1>4. pg \in txn.left
  <2>1. txn.left # {}
    BY <1>1, <1>3 DEF FlushInv
  <2>2. txn.left \subseteq Nat
    <3>1. Pages \subseteq Nat
      BY LmdbAssumption DEF Pages, FirstPage
    <3> QED BY <1>2, <1>3, <3>1, FlushPages
  <2> QED BY <2>1, <2>2, LeastOf
<1> HIDE DEF pg
<1>5. pg \in DOMAIN txn.dirty /\ pg \in Pages /\ pg \notin Used(file, Last) /\ txn.depth = 0
  BY <1>2, <1>3, <1>4, FlushPages
<1>6. FlushOne(txn, txn', pg)
  BY <1>1, <1>2, <1>4 DEF FlushOne, Changed, TxnFields
<1>7. WrittenTo(txn, file, file', pg)
  <2>1. Fn(file)
    BY DEF IInv, DiskInv
  <2> QED BY <1>1, <1>2, <1>5, <2>1 DEF WrittenTo, Fn
<1>8. /\ txn'.dirty = txn.dirty /\ txn'.under = txn.under /\ txn'.last = txn.last
      /\ txn'.froot = txn.froot /\ txn'.root = txn.root /\ txn'.depth = txn.depth
      /\ txn'.pc \in {"flush", "sync"}
  BY <1>6 DEF FlushOne, Changed, TxnFields
<1>9. Own(txn', file') = Own(txn, file)
  BY <1>2, <1>5, <1>7, <1>8, OwnWritten
<1>10. UNCHANGED <<meta, history, mti_txnid, slots, reader, env, ownerDied>> /\ Last' = Last
       /\ before' = before
  BY <1>1 DEF lockVars, ghostVars, Last
<1>11. ASSUME NEW t \in Nat, txn.last <= t
       PROVE  \A q \in Reach(file, Last, t) : file'[q] = file[q]
  <2>1. pg \notin Newer(file, Last, txn.last)
    BY <1>3, <1>5, LaterNewer DEF Flushing
  <2>2. Newer(file, Last, t) \subseteq Newer(file, Last, txn.last)
    BY <1>2, <1>3, <1>11, NewerLess
  <2>3. pg \notin Reach(file, Last, t)
    BY <1>5, <2>1, <2>2 DEF Reach
  <2>4. Reach(file, Last, t) \subseteq Pages
    <3>1. /\ Reach(file, Last, t) \subseteq FirstPage..Last.last
          /\ Last.last \in (FirstPage - 1)..(MaxPg - 2)
      BY <1>2 DEF Accounted, Reach, Newer
    <3>2. FirstPage..Last.last \subseteq Pages
      BY <3>1, LmdbAssumption DEF Pages, FirstPage
    <3> QED BY <3>1, <3>2
  <2> QED BY <1>2, <1>7, <2>3, <2>4 DEF WrittenTo
<1>12. Flushing(file', Last, txn')
  <2>1. Listed(file', Last) = Listed(file, Last)
    <3>1. \A q \in Used(file, Last) : file'[q] = file[q]
      BY <1>2, <1>5, <1>7, UsedPages DEF WrittenTo
    <3> QED BY <1>2, <3>1, AccountedFrame
  <2>2. Later(file', Last, txn') = Later(file, Last, txn)
    BY <1>8, <2>1 DEF Later
  <2> QED BY <1>3, <1>8, <1>9, <2>1, <2>2 DEF Flushing
<1>13. WriterInv' /\ WorkInv'
  <2>1. Writer(file', Last, txn')
    BY <1>3, <1>5, <1>8, <1>12 DEF Writer
  <2>2. Work(file', txn', before')
    BY <1>5, <1>8 DEF Work, Resumes, Begun, InOp, Waiting
  <2> QED BY <1>2, <1>10, <2>1, <2>2 DEF SInv, WriterInv, WorkInv
<1>14. PublishedInv'
  <2>1. mti_txnid = Last.id
    BY <1>1, <1>2 DEF SInv, WriterInv, IInv, LockInv
  <2>2. Version(file', Last, history, meta[mti_txnid % 2], mti_txnid)
    BY <1>2, <1>3, <1>11, <2>1, VersionFrame DEF SInv, PublishedInv
  <2> QED BY <1>10, <2>2 DEF SInv, PublishedInv, NoneOlder
<1>15. ASSUME NEW q \in Readers
       PROVE  /\ ReaderSlot(q, reader[q])' /\ ReaderPins(reader[q])' /\ ReaderView(reader[q])'
              /\ reader[q].pc = "active" =>
                   /\ PagesOf(file', reader[q].root) = PagesOf(file, reader[q].root)
                   /\ Contents(file', reader[q].root) = Contents(file, reader[q].root)
  <2>1. ReaderSlot(q, reader[q]) /\ ReaderPins(reader[q]) /\ ReaderView(reader[q])
    BY DEF SInv, ReaderInv
  <2>2. ReaderSlot(q, reader[q])'
    BY <1>10, <2>1 DEF ReaderSlot
  <2>3. ReaderPins(reader[q])'
    BY <1>5, <1>8, <1>2, <1>1, <1>10, <2>1 DEF ReaderPins, Spares, NoneOlder
  <2>4. CASE Pins(reader[q])
    <3>1. reader[q].txnid \in Nat
      BY <2>1, <2>4, PinNumbers
    <3>2. txn.last <= reader[q].txnid
      BY <1>1, <1>2, <2>1, <2>4 DEF ReaderPins, Spares
    <3>3. \A pg1 \in Reach(file, Last, reader[q].txnid) : file'[pg1] = file[pg1]
      BY <1>11, <3>1, <3>2
    <3>4. reader'[q] = reader[q] /\ UNCHANGED <<meta, history>> /\ Last' = Last
      BY <1>10
    <3> QED BY <1>2, <2>1, <2>2, <2>3, <2>4, <3>3, <3>4, ViewFrame
  <2>5. CASE ~Pins(reader[q])
    BY <1>10, <2>2, <2>3, <2>5 DEF Pins, ReaderView
  <2> QED BY <2>4, <2>5
<1>16. ReaderInv' /\ SeenSame
  BY <1>15 DEF ReaderInv, SeenSame
<1>17. Tells(file', txn') = Tells(file, txn)
  BY <1>8, <1>9 DEF Tells
<1> QED BY <1>1, <1>5, <1>8, <1>10, <1>13, <1>14, <1>16, <1>17 DEF SInv

\* The file is synced.
LEMMA SyncDoes ==
    ASSUME IInv, SInv, NEW p, Sync(p)
    PROVE  /\ before' = before /\ file' = file /\ txn.pc = "sync" /\ txn'.pc = "meta"
           /\ txn.depth = 0 /\ txn'.depth = 0 /\ Tells(file, txn') = Tells(file, txn)
           /\ SInv'
<1>1. /\ MyTxn(p) /\ txn.pc = "sync" /\ txn' = [txn EXCEPT !.pc = "meta"]
      /\ UNCHANGED <<file, meta>> /\ UNCHANGED lockVars
      /\ UNCHANGED env /\ UNCHANGED reader /\ UNCHANGED ghostVars
  BY DEF Sync
<1>2. /\ txn # NoTxn /\ Alive(file, Last, txn, Len(slots)) /\ Accounted(file, Last)
      /\ Writer(file, Last, txn) /\ DOMAIN txn = TxnFields
  BY <1>1, MineToo
<1>3. txn.depth = 0 /\ Flushing(file, Last, txn)
  BY <1>1, <1>2, FlushPages DEF Alive, Writer
<1>4. Changed(txn, txn', {"pc"}) /\ txn'.pc = "meta"
  BY <1>1, <1>2 DEF Changed, TxnFields
<1>5. /\ txn'.dirty = txn.dirty /\ txn'.under = txn.under /\ txn'.last = txn.last
      /\ txn'.froot = txn.froot /\ txn'.root = txn.root /\ txn'.depth = 0
      /\ Own(txn', file) = Own(txn, file)
  <2>1. Own(txn', file) = Own(txn, file)
    BY <1>4, OwnKept
  <2> QED BY <1>3, <1>4, <2>1 DEF Changed, TxnFields
<1>6. UNCHANGED <<file, meta, history, mti_txnid, slots, reader, env, ownerDied>>
      /\ Last' = Last /\ before' = before
  BY <1>1 DEF lockVars, ghostVars, Last
<1>7. Flushing(file, Last, txn')
  BY <1>3, <1>5 DEF Flushing, Later
<1>8. WriterInv' /\ WorkInv'
  <2>1. Writer(file, Last, txn')
    BY <1>2, <1>5, <1>7 DEF Writer
  <2>2. Work(file, txn', before)
    BY <1>4, <1>5 DEF Work, Resumes, Begun, InOp, Waiting
  <2> QED BY <1>2, <1>6, <2>1, <2>2 DEF SInv, WriterInv, WorkInv
<1>9. PublishedInv'
  BY <1>6 DEF SInv, PublishedInv, NoneOlder
<1>10. ReaderInv'
  <2>1. \A q \in Readers : Pins(reader[q]) =>
          NoneOlder(reader[q].txnid)' /\ Spares(txn', reader[q].txnid, reader[q].slot)
    BY <1>1, <1>2, <1>4, <1>5, <1>6 DEF SInv, ReaderInv, ReaderPins, Spares, NoneOlder
  <2> QED BY <1>6, <2>1, ReadersStay DEF SInv
<1>11. Tells(file, txn') = Tells(file, txn)
  BY <1>5 DEF Tells
<1> QED BY <1>1, <1>3, <1>4, <1>5, <1>6, <1>8, <1>9, <1>10, <1>11 DEF SInv

\* Once its pages are written, the file says what the transaction says.
LEMMA FlushedTells ==
    ASSUME NEW f, NEW m, NEW w, DOMAIN f = Pages, Accounted(f, m), FlushInv(f, m, w),
           w.pc # "flush"
    PROVE  Contents(f, w.root) = Tells(f, w)
<1> DEFINE o == Own(w, f)
           n == NewMeta(w)
<1>1. /\ Accounted(o, n) /\ DOMAIN w.under = {} /\ w.left = {}
      /\ \A pg \in DOMAIN w.dirty : f[pg] = w.dirty[pg]
  BY FlushPages DEF FlushInv
<1>2. \A pg \in DOMAIN f \cup DOMAIN w.dirty : f[pg] = o[pg]
  BY <1>1 DEF Own
<1>3. n.root = w.root
  BY DEF NewMeta
<1> HIDE DEF o, n
<1>4. \A pg \in Used(o, n) : f[pg] = o[pg]
  BY <1>1, <1>2, UsedPages
<1>5. Tree(o, w.root) /\ \A pg \in PagesOf(o, w.root) : f[pg] = o[pg]
  BY <1>1, <1>3, <1>4 DEF Accounted, Used
<1>6. Contents(f, w.root) = Contents(o, w.root)
  BY <1>5, TreeFrame
<1> QED BY <1>6 DEF o, Tells

\* What the new meta page is to what was committed before.
Committed(m, n, h, i) ==
    /\ m.id \in Nat /\ n.id = m.id + 1
    /\ DOMAIN h = 0..m.id /\ DOMAIN i = 0..n.id
    /\ \A k \in 0..m.id : i[k] = h[k]

\* The meta page is written.
LEMMA WriteMetaDoes ==
    ASSUME IInv, SInv, IInv', NEW p, WriteMeta(p)
    PROVE  /\ before' = before /\ file' = file /\ txn.pc = "meta" /\ txn'.pc = "publish"
           /\ txn.depth = 0 /\ txn'.depth = 0 /\ Tells(file, txn') = Tells(file, txn)
           /\ Committed(Last, Last', history, history')
           /\ history'[Last'.id] = Tells(file, txn) /\ mti_txnid = Last.id
           /\ SInv'
<1> DEFINE n == NewMeta(txn)
<1>1. /\ MyTxn(p) /\ txn.pc = "meta"
      /\ meta' = [meta EXCEPT ![Toggle] = n]
      /\ history' = With(history, txn.id, Contents(file, txn.root))
      /\ txn' = [txn EXCEPT !.pc = "publish"]
      /\ UNCHANGED <<file, disk>> /\ UNCHANGED lockVars /\ UNCHANGED before
      /\ UNCHANGED env /\ UNCHANGED reader
  BY DEF WriteMeta, NewMeta
<1>2. /\ txn # NoTxn /\ Alive(file, Last, txn, Len(slots))
      /\ DOMAIN file = Pages /\ Accounted(file, Last) /\ Last.id \in Nat
      /\ Writer(file, Last, txn) /\ DOMAIN txn = TxnFields
  BY <1>1, MineToo
<1>3. /\ FlushInv(file, Last, txn) /\ txn.id = Last.id + 1 /\ Flushing(file, Last, txn)
      /\ txn.last \in 0..Last.id /\ txn.depth = 0
  BY <1>1, <1>2, FlushPages DEF Alive, Writer
<1>4. /\ MetaInv /\ Last.id % 2 \in 0..1 /\ Toggle \in 0..1
      /\ Last.id % 2 # Toggle /\ 0..1 = {Last.id % 2, Toggle}
      /\ Last = meta[Last.id % 2]
  BY <1>2, <1>3, TwoMetas, Parity DEF IInv, Toggle
<1>5. n.id = Last.id + 1 /\ n.root = txn.root /\ n.last = txn.next - 1
  BY <1>3 DEF NewMeta
<1>6. n.last \in Int /\ Last.last \in Int /\ n.last >= Last.last
  <2>1. txn.next \in Int /\ txn.next > Last.last
    BY <1>2, <1>3, FlushPages
  <2>2. Last.last \in Int
    BY <1>2 DEF Accounted, FirstPage
  <2> QED BY <1>5, <2>1, <2>2
<1> HIDE DEF n
<1>7. meta'[Toggle] = n /\ \A i \in 0..1 : i # Toggle => meta'[i] = meta[i]
  <2>1. DOMAIN meta = 0..1
    BY <1>4 DEF MetaInv
  <2> QED BY <1>1, <1>4, <2>1
<1>8. Last' = n
  <2>1. PickMeta(meta') = meta'[Toggle]
    <3>1. /\ meta'[Last.id % 2].id \in Int /\ meta'[Toggle].id \in Int
          /\ meta'[Last.id % 2].id < meta'[Toggle].id
      BY <1>2, <1>4, <1>5, <1>7
    <3> QED BY <1>4, <3>1, PickLarger
  <2> QED BY <1>7, <2>1 DEF Last
<1>9. Committed(Last, n, history, history') /\ history'[n.id] = Contents(file, txn.root)
  <2>1. DOMAIN history = 0..Last.id
    BY <1>4 DEF MetaInv
  <2>2. 0..(Last.id + 1) = (0..Last.id) \cup {Last.id + 1} /\ Last.id + 1 \notin 0..Last.id
    BY <1>2
  <2>3. txn.id = n.id
    BY <1>3, <1>5
  <2> QED BY <1>1, <1>2, <1>5, <2>1, <2>2, <2>3 DEF With, Committed
<1>10. Contents(file, txn.root) = Tells(file, txn)
  BY <1>1, <1>2, <1>3, FlushedTells
<1>11. /\ txn'.pc = "publish" /\ txn'.depth = 0 /\ Tells(file, txn') = Tells(file, txn)
  <2>1. Changed(txn, txn', {"pc"}) /\ txn'.pc = "publish"
    BY <1>1, <1>2 DEF Changed, TxnFields
  <2>2. Own(txn', file) = Own(txn, file)
    BY <2>1, OwnKept
  <2> QED BY <1>3, <2>1, <2>2 DEF Changed, TxnFields, Tells
<1>12. UNCHANGED <<file, mti_txnid, slots, reader, env, ownerDied, before>>
  BY <1>1 DEF lockVars
<1>13. ASSUME NEW t \in Nat, txn.last <= t, t <= Last.id
       PROVE  Reach(file, Last, t) \subseteq Reach(file, n, t)
  BY <1>1, <1>2, <1>3, <1>13, ReachNext DEF n
<1>14. mti_txnid = Last.id
  BY <1>1, <1>2 DEF SInv, WriterInv, IInv, LockInv
<1>15. ASSUME NEW t \in Nat, txn.last <= t, t <= Last.id,
              Version(file, Last, history, meta[t % 2], t)
       PROVE  Version(file, n, history', meta'[t % 2], t)
  <2>1. t % 2 \in 0..1
    OBVIOUS
  <2>2. CASE t % 2 = Toggle
    <3>1. Sound(file, disk, history', n) /\ n.id \in Nat /\ t <= n.id
      BY <1>1, <1>2, <1>5, <1>8, <1>15 DEF IInv, DiskInv
    <3>2. Version(file, n, history', n, t)
      BY <3>1, VersionSelf
    <3> QED BY <1>7, <2>2, <3>2
  <2>3. CASE t % 2 # Toggle
    <3>1. Reach(file, Last, t) \subseteq Reach(file, n, t)
      BY <1>13, <1>15
    <3>2. /\ n.id \in Nat /\ n.id >= Last.id /\ \A k \in 0..Last.id : history'[k] = history[k]
      BY <1>2, <1>9 DEF Committed
    <3>3. Version(file, n, history', meta[t % 2], t)
      BY <1>2, <1>15, <3>1, <3>2, VersionNext
    <3> QED BY <1>7, <2>1, <2>3, <3>3
  <2> QED BY <2>2, <2>3
<1>16. PublishedInv'
  <2>1. Version(file, n, history', meta'[Last.id % 2], Last.id)
    BY <1>2, <1>3, <1>14, <1>15 DEF SInv, PublishedInv
  <2> QED BY <1>8, <1>12, <1>14, <2>1 DEF SInv, PublishedInv, NoneOlder
<1>17. ASSUME NEW q \in Readers
       PROVE  ReaderSlot(q, reader[q])' /\ ReaderPins(reader[q])' /\ ReaderView(reader[q])'
  <2> DEFINE r == reader[q]
             t == r.txnid
  <2>1. ReaderSlot(q, r) /\ ReaderPins(r) /\ ReaderView(r)
    BY DEF SInv, ReaderInv
  <2>2. ReaderSlot(q, reader[q])'
    BY <1>12, <2>1 DEF ReaderSlot
  <2>3. ReaderPins(reader[q])'
    BY <1>11, <1>12, <2>1 DEF ReaderPins, Spares, NoneOlder
  <2>4. CASE Pins(r)
    <3>1. t \in Nat /\ t <= Last.id
      BY <1>2, <2>1, <2>4, PinNumbers
    <3>2. txn.last <= t
      BY <1>1, <1>2, <2>1, <2>4 DEF ReaderPins, Spares
    <3>3. Reach(file, Last, t) \subseteq Reach(file, n, t)
      BY <1>13, <3>1, <3>2
    <3>4. r.pc = "copy" => Version(file, n, history', meta'[t % 2], t)
      BY <1>15, <2>1, <3>1, <3>2 DEF ReaderView
    <3>5. r.pc \in {"size", "active"} => Pinned(file, n, r.root, t)
      BY <2>1, <3>3 DEF ReaderView, Pinned
    <3>6. r.pc = "size" => /\ meta'[t % 2].last \in Int
                           /\ PagesOf(file, r.root) \subseteq FirstPage..meta'[t % 2].last
      <4>1. ASSUME r.pc = "size"
            PROVE  /\ meta'[t % 2].last \in Int
                   /\ PagesOf(file, r.root) \subseteq FirstPage..meta'[t % 2].last
        <5>1. CASE t % 2 = Toggle
          <6>1. PagesOf(file, r.root) \subseteq FirstPage..Last.last
            BY <1>2, <2>1, <4>1, PinnedPages DEF ReaderView
          <6>2. FirstPage..Last.last \subseteq FirstPage..n.last
            BY <1>6 DEF FirstPage
          <6> QED BY <1>6, <1>7, <5>1, <6>1, <6>2
        <5>2. CASE t % 2 # Toggle
          <6>1. t % 2 \in 0..1
            BY <3>1
          <6> QED BY <1>7, <2>1, <4>1, <5>2, <6>1 DEF ReaderView
        <5> QED BY <5>1, <5>2
      <4> QED BY <4>1
    <3>7. r.pc = "size" => \E j \in r.since..n.id : Contents(file, r.root) = history'[j]
      <4>1. ASSUME r.pc = "size"
            PROVE  \E j \in r.since..n.id : Contents(file, r.root) = history'[j]
        <5>1. PICK j \in r.since..Last.id : Contents(file, r.root) = history[j]
          BY <2>1, <4>1 DEF ReaderView
        <5>2. r.since \in Nat
          BY <2>1, <4>1 DEF ReaderSlot, Reading
        <5>3. j \in r.since..n.id /\ j \in 0..Last.id
          BY <1>2, <1>5, <5>1, <5>2
        <5> QED BY <1>9, <5>1, <5>3 DEF Committed
      <4> QED BY <4>1
    <3>8. r.pc = "active" => PagesOf(file, r.root) \subseteq FirstPage..(r.next - 1)
      BY <2>1 DEF ReaderView
    <3> QED BY <1>8, <1>12, <2>2, <2>3, <3>4, <3>5, <3>6, <3>7, <3>8 DEF ReaderView
  <2>5. CASE ~Pins(r)
    BY <1>12, <2>2, <2>3, <2>5 DEF Pins, ReaderView
  <2> QED BY <2>4, <2>5
<1>18. ReaderInv'
  BY <1>17 DEF ReaderInv
<1>19. WriterInv'
  BY <1>2, <1>11, <1>12 DEF SInv, WriterInv
<1>20. WorkInv'
  <2>1. Work(file', txn', before')
    BY <1>11 DEF Work, Resumes, Begun, InOp, Waiting
  <2> QED BY <2>1 DEF WorkInv
<1> QED BY <1>1, <1>3, <1>8, <1>9, <1>10, <1>11, <1>12, <1>14, <1>16, <1>18, <1>19, <1>20 DEF SInv

-----------------------------------------------------------------------------
(* The last commit is published.                                           *)

\* Readers go on when the last commit is published.
LEMMA NowPublished ==
    ASSUME IInv, SInv, UNCHANGED <<file, meta, history, env, reader>>, mti_txnid' = Last.id,
           DOMAIN slots' = DOMAIN slots,
           \A q \in Readers : reader[q].pc \notin {"idle", "claim"} =>
              slots'[reader[q].slot] = slots[reader[q].slot],
           \A q \in Readers : Pins(reader[q]) =>
              Spares(txn', reader[q].txnid, reader[q].slot)
    PROVE  PublishedInv' /\ ReaderInv'
<1>1. /\ Last.id \in Nat /\ mti_txnid \in 0..Last.id /\ Last = meta[Last.id % 2]
      /\ \A q \in Procs : env[q].pgoldest \in 0..Last.id
  BY TwoMetas DEF IInv, LockInv
<1>2. Last' = Last
  BY DEF Last
<1>3. Version(file, Last, history, meta[Last.id % 2], Last.id)
  <2>1. Sound(file, disk, history, Last)
    BY DEF IInv, DiskInv
  <2> QED BY <1>1, <2>1, VersionSelf
<1>4. PublishedInv'
  <2>1. \A q \in Procs : env[q].pgoldest <= Last.id
    BY <1>1
  <2> QED BY <1>2, <1>3, <2>1 DEF PublishedInv, NoneOlder
<1>5. ASSUME NEW q \in Readers
      PROVE  ReaderSlot(q, reader[q])' /\ ReaderPins(reader[q])' /\ ReaderView(reader[q])'
  <2>1. ReaderSlot(q, reader[q]) /\ ReaderPins(reader[q]) /\ ReaderView(reader[q])
    BY DEF SInv, ReaderInv
  <2>2. ReaderSlot(q, reader[q])'
    <3>1. reader[q].pc \notin {"idle", "active"} => reader[q].since \in 0..Last.id
      BY <1>1, <2>1 DEF ReaderSlot
    <3>2. reader[q].pc \in {"store"} \cup Reading =>
             reader[q].txnid \in reader[q].since..Last.id /\ reader[q].since \in Nat
      BY <1>1, <2>1 DEF ReaderSlot
    <3>3. reader[q].pc \in Reading => reader[q].pc \notin {"idle", "claim"}
      BY DEF Reading
    <3>4. reader'[q] = reader[q]
      OBVIOUS
    <3> QED BY <2>1, <3>1, <3>2, <3>3, <3>4 DEF ReaderSlot
  <2>3. ReaderPins(reader[q])'
    BY <2>1 DEF ReaderPins, NoneOlder
  <2>4. ReaderView(reader[q])'
    BY <1>2, <2>1 DEF ReaderView
  <2> QED BY <2>2, <2>3, <2>4
<1>6. ReaderInv'
  BY <1>5 DEF ReaderInv
<1> QED BY <1>4, <1>6

\* The number of the commit is published.
LEMMA PublishDoes ==
    ASSUME IInv, SInv, NEW p, Publish(p)
    PROVE  /\ txn.pc = "publish" /\ txn.depth = 0 /\ txn' = NoTxn /\ mti_txnid' = Last.id
           /\ UNCHANGED <<file, meta, history, env, reader, metasync>>
           /\ durable' = (IF metasync THEN Last.id ELSE durable)
           /\ SInv'
<1>1. /\ txn.pc = "publish" /\ mti_txnid' = txn.id /\ txn' = NoTxn /\ MyTxn(p)
      /\ durable' = (IF metasync THEN txn.id ELSE durable)
      /\ UNCHANGED <<file, meta, slots, ownerDied, env, reader, metasync, history>>
  BY DEF Publish, EndTxn
<1>2. txn # NoTxn
  BY <1>1 DEF MyTxn, NoTxn
<1>3. txn.id = Last.id /\ txn.depth = 0
  BY <1>1, <1>2 DEF IInv, TxnInv, SInv, WorkInv, Work
<1>4. \A t, s : Spares(txn', t, s)
  BY <1>1 DEF Spares
<1>5. PublishedInv' /\ ReaderInv'
  BY <1>1, <1>3, <1>4, NowPublished
<1>6. WriterInv' /\ WorkInv'
  BY <1>1 DEF WriterInv, WorkInv
<1> QED BY <1>1, <1>3, <1>5, <1>6 DEF SInv

\* A write transaction begins, and what a dead writer committed is published.
LEMMA BeginWriteDoes ==
    ASSUME IInv, SInv, NEW p \in Writers, BeginWrite(p)
    PROVE  /\ txn = NoTxn /\ txn'.pc = "ready" /\ txn'.depth = 0 /\ mti_txnid' = Last.id
           /\ UNCHANGED <<file, meta, history, env, reader, metasync, durable>>
           /\ Tells(file, txn') = history[Last.id]
           /\ SInv'
<1> DEFINE id == (IF ownerDied THEN RepairedTxnid ELSE mti_txnid) + 1
<1>1. /\ wmutex = None /\ id <= MaxTxn /\ ~ownerDied' /\ mti_txnid' = id - 1
      /\ slots' = IF ownerDied
                   THEN [i \in DOMAIN slots |->
                           LET owner == slots[i].pid
                           IN  IF owner # None /\ owner # p /\ ~env[owner].live
                               THEN [slots[i] EXCEPT !.pid = None] ELSE slots[i]]
                   ELSE slots
      /\ txn' = NewTxn(id)
      /\ UNCHANGED fileVars /\ UNCHANGED <<env, reader, history, durable, metasync>>
  BY DEF BeginWrite
<1>2. /\ Last.id \in Nat /\ Last = meta[Last.id % 2] /\ MetaInv /\ DiskInv
  BY TwoMetas DEF IInv
<1>3. txn = NoTxn /\ txn.pc # "publish"
  BY <1>1 DEF IInv, LockInv, NoTxn
<1>4. id = Last.id + 1
  <2>1. CASE ownerDied
    BY <2>1 DEF RepairedTxnid, Last
  <2>2. CASE ~ownerDied
    BY <1>3, <2>2 DEF IInv, LockInv
  <2> QED BY <2>1, <2>2
<1> HIDE DEF id
<1>5. id - 1 = Last.id /\ id \in Stamps
  BY <1>1, <1>2, <1>4, LmdbAssumption DEF Stamps
<1>6. Fresh(Last, txn')
  <2>1. Last = meta[(id - 1) % 2] /\ Last.id + 1 = id
    BY <1>2, <1>4, <1>5
  <2> QED BY <1>1, <2>1, FreshTxn
<1>7. txn'.stamp = id /\ txn'.at = ""
  BY <1>1 DEF NewTxn
<1>8. /\ txn'.pc = "ready" /\ txn'.depth = 0 /\ txn'.last = 0 /\ txn'.root = Last.root
      /\ DOMAIN txn'.dirty = {} /\ DOMAIN txn'.under = {}
  BY <1>6 DEF Fresh
<1>9. UNCHANGED <<file, meta>> /\ Last' = Last
  BY <1>1 DEF fileVars, Last
<1>10. Tells(file, txn') = history[Last.id]
  <2>1. Own(txn', file) = file
    <3>1. Fn(file)
      BY <1>2 DEF DiskInv
    <3>2. Fn(Own(txn', file)) /\ DOMAIN Own(txn', file) = DOMAIN file
          /\ \A q \in DOMAIN file : Own(txn', file)[q] = file[q]
      BY <1>8 DEF Own, Fn
    <3> QED BY <3>1, <3>2, SameFn
  <2>2. Contents(file, Last.root) = history[Last.id]
    BY <1>2 DEF DiskInv, Sound
  <2> QED BY <1>8, <2>1, <2>2 DEF Tells
<1>11. ASSUME NEW q \in Readers, reader[q].pc \notin {"idle", "claim"}
       PROVE  slots'[reader[q].slot] = slots[reader[q].slot]
  <2>1. /\ reader[q].slot \in DOMAIN slots /\ slots[reader[q].slot].pid = q /\ env[q].live
    BY <1>11 DEF SInv, ReaderInv, ReaderSlot
  <2> QED BY <1>1, <2>1
<1>12. DOMAIN slots' = DOMAIN slots
  BY <1>1
<1>13. ASSUME NEW q \in Readers, Pins(reader[q])
       PROVE  Spares(txn', reader[q].txnid, reader[q].slot)
  <2>1. reader[q].txnid \in Nat
    BY <1>13, PinNumbers DEF SInv, ReaderInv
  <2> QED BY <1>8, <2>1 DEF Spares
<1>14. PublishedInv' /\ ReaderInv'
  BY <1>1, <1>5, <1>9, <1>11, <1>12, <1>13, NowPublished
<1>15. WriterInv' /\ WorkInv'
  <2>1. Writer(file, Last, txn')
    BY <1>2, <1>8 DEF Writer
  <2>2. Work(file, txn', before')
    <3>1. Resumes(txn')
      BY <1>8 DEF Resumes
    <3>2. ~ForList(txn')
      BY <1>7 DEF ForList
    <3>3. Begun(file, txn', before')
      BY <1>5, <1>7, <1>8, <3>2 DEF Begun
    <3> QED BY <1>8, <3>1, <3>3 DEF Work
  <2> QED BY <1>1, <1>9, <2>1, <2>2 DEF WriterInv, WorkInv
<1> QED BY <1>1, <1>3, <1>5, <1>8, <1>9, <1>10, <1>14, <1>15 DEF SInv

\* The write transaction ends without a commit.
LEMMA EndDoes ==
    ASSUME IInv, SInv, NEW p,
           \/ Abort(p) \/ SaveError(p) \/ WriteError(p)
           \/ StartCommit(p) /\ EndTxn
    PROVE  /\ txn # NoTxn /\ txn.pc # "idle" /\ txn' = NoTxn
           /\ UNCHANGED <<file, meta, history, env, reader, metasync, durable, mti_txnid>>
           /\ SInv'
<1>1. /\ MyTxn(p) /\ EndTxn /\ UNCHANGED fileVars
      /\ UNCHANGED <<mti_txnid, slots, ownerDied, env, reader, metasync, history, durable>>
  BY DEF Abort, SaveError, WriteError, StartCommit
<1>2. SInv'
  BY <1>1, EndSInv
<1> QED BY <1>1, <1>2 DEF EndTxn, MyTxn, NoTxn, fileVars

-----------------------------------------------------------------------------
(* The steps of readers.                                                   *)

\* A step of one reader leaves the others alone.
LEMMA ReaderSteps ==
    ASSUME IInv, SInv, NEW p \in Readers,
           UNCHANGED <<file, meta, history, mti_txnid, ownerDied, txn, before>>,
           \A q \in Procs : /\ env'[q].open = env[q].open
                            /\ env'[q].pgoldest = env[q].pgoldest
                            /\ env[q].live => env'[q].live,
           \A q \in Readers : q # p => reader'[q] = reader[q],
           \A i \in DOMAIN slots : i \in DOMAIN slots',
           \A i \in DOMAIN slots :
              slots[i].pid # p /\ slots[i].pid # None => slots'[i] = slots[i],
           ReaderSlot(p, reader[p])', ReaderPins(reader[p])', ReaderView(reader[p])'
    PROVE  SInv'
<1>1. Last' = Last
  BY DEF Last
<1>2. \A t \in Int : NoneOlder(t)' <=> NoneOlder(t)
  BY DEF NoneOlder
<1>3. ASSUME NEW q \in Readers, q # p
      PROVE  ReaderSlot(q, reader[q])' /\ ReaderPins(reader[q])' /\ ReaderView(reader[q])'
  <2>1. ReaderSlot(q, reader[q]) /\ ReaderPins(reader[q]) /\ ReaderView(reader[q])
    BY DEF SInv, ReaderInv
  <2>2. reader'[q] = reader[q] /\ q \in Procs /\ q # None
    BY <1>3, LmdbAssumption DEF Procs
  <2>3. ASSUME reader[q].pc \notin {"idle", "claim"}
        PROVE  /\ reader[q].slot \in DOMAIN slots /\ slots[reader[q].slot].pid = q
               /\ reader[q].slot \in DOMAIN slots'
               /\ slots'[reader[q].slot] = slots[reader[q].slot]
    <3>1. reader[q].slot \in DOMAIN slots /\ slots[reader[q].slot].pid = q
      BY <2>1, <2>3 DEF ReaderSlot
    <3> QED BY <1>3, <2>2, <3>1
  <2>4. ReaderSlot(q, reader[q])'
    <3>1. reader[q].pc \in Reading => reader[q].pc \notin {"idle", "claim"}
      BY DEF Reading
    <3> QED BY <2>1, <2>2, <2>3, <3>1 DEF ReaderSlot
  <2>5. ReaderPins(reader[q])'
    BY <2>1, <2>2 DEF ReaderPins, NoneOlder
  <2>6. ReaderView(reader[q])'
    BY <1>1, <2>1, <2>2 DEF ReaderView
  <2> QED BY <2>4, <2>5, <2>6
<1>4. ReaderInv'
  BY <1>3 DEF ReaderInv
<1>5. PublishedInv'
  BY <1>1 DEF SInv, PublishedInv, NoneOlder
<1>6. WriterInv' /\ WorkInv'
  BY <1>1 DEF SInv, WriterInv, WorkInv
<1> QED BY <1>4, <1>5, <1>6 DEF SInv

\* A reader on its way to a snapshot.
LEMMA Settles ==
    ASSUME IInv, SInv, NEW s
    PROVE  Spares(txn, mti_txnid, s)
<1>1. CASE txn = NoTxn \/ txn.pc = "publish"
  BY <1>1 DEF Spares
<1>2. CASE txn # NoTxn /\ txn.pc # "publish"
  <2>1. Writer(file, Last, txn) /\ ~ownerDied
    BY <1>2 DEF SInv, WriterInv
  <2>2. mti_txnid = Last.id /\ Last.id \in Nat
    BY <1>2, <2>1, TwoMetas DEF IInv, LockInv
  <2>3. Alive(file, Last, txn, Len(slots))
    BY <1>2 DEF IInv, TxnInv
  <2>4. txn.pc = "scan" => txn.oldest \in 0..Last.id
    BY <2>3 DEF Alive
  <2>5. txn.last <= Last.id /\ (txn.depth = 1 => txn.parent.last <= Last.id)
    BY <2>1, <2>2 DEF Writer
  <2>6. txn.pc = "scan" => txn.oldest <= Last.id
    BY <2>2, <2>4
  <2> QED BY <2>2, <2>5, <2>6 DEF Spares
<1> QED BY <1>1, <1>2

\* mdb_txn_begin of a read transaction.
LEMMA MarkLiveDoes ==
    ASSUME IInv, SInv, NEW p \in Readers, MarkLive(p)
    PROVE  SInv'
<1>1. /\ env[p].open /\ reader[p].pc = "idle" /\ env' = [env EXCEPT ![p].live = TRUE]
      /\ reader' = [reader EXCEPT ![p] = [NoRead EXCEPT !.pc = "claim", !.since = mti_txnid]]
      /\ UNCHANGED <<file, meta, history, mti_txnid, ownerDied, txn, before, slots>>
  BY DEF MarkLive, fileVars, lockVars, ghostVars
<1>2. /\ p \in Procs /\ DOMAIN env = Procs /\ DOMAIN reader = Readers
      /\ DOMAIN env[p] = {"open", "live", "pgoldest", "suspect"}
  BY DEF IInv, EnvInv, Procs
<1>3. \A q \in Procs : /\ env'[q].open = env[q].open /\ env'[q].pgoldest = env[q].pgoldest
                       /\ env[q].live => env'[q].live
  BY <1>1, <1>2
<1>4. \A q \in Readers : q # p => reader'[q] = reader[q]
  BY <1>1, <1>2
<1>5. reader'[p].pc = "claim" /\ reader'[p].since = mti_txnid
  BY <1>1, <1>2 DEF NoRead
<1>6. env'[p].open /\ env'[p].live
  BY <1>1, <1>2
<1>7. mti_txnid \in Nat
  BY TwoMetas DEF IInv, LockInv
<1>8. ReaderSlot(p, reader[p])' /\ ReaderPins(reader[p])' /\ ReaderView(reader[p])'
  BY <1>1, <1>5, <1>6, <1>7 DEF ReaderSlot, ReaderPins, ReaderView, Reading, Pins
<1> QED BY <1>1, <1>3, <1>4, <1>8, ReaderSteps

\* A slot of the table is claimed.
LEMMA ClaimSlotDoes ==
    ASSUME IInv, SInv, NEW p \in Readers, ClaimSlot(p)
    PROVE  SInv'
<1> DEFINE i == IF FreeSlots # {} THEN Min(FreeSlots) ELSE Len(slots) + 1
           claimed == [pid |-> p, txnid |-> Idle]
<1>1. /\ reader[p].pc = "claim"
      /\ IF Full(i)
         THEN /\ reader' = [reader EXCEPT ![p] = NoRead]
              /\ UNCHANGED slots
         ELSE /\ reader' = [reader EXCEPT ![p].pc = "load", ![p].slot = i]
              /\ slots' = IF i > Len(slots) THEN Append(slots, claimed)
                          ELSE [slots EXCEPT ![i] = claimed]
      /\ UNCHANGED <<file, meta, history, mti_txnid, ownerDied, txn, before, env>>
  BY DEF ClaimSlot, fileVars, ghostVars
<1>2. /\ DOMAIN reader = Readers /\ DOMAIN slots = 1..Len(slots) /\ Len(slots) \in Nat
      /\ DOMAIN reader[p] = {"pc", "slot", "txnid", "root", "next", "since"}
  BY SlotTypes DEF IInv, EnvInv
<1>3. FreeSlots # {} => Min(FreeSlots) \in FreeSlots
  <2>1. FreeSlots \subseteq Nat /\ FreeSlots \subseteq DOMAIN slots
    BY <1>2 DEF FreeSlots
  <2> QED BY <2>1, LeastOf
<1>4. /\ i \in 1..(Len(slots) + 1) /\ (i \in DOMAIN slots => slots[i].pid = None)
      /\ (i > Len(slots) => i = Len(slots) + 1)
  BY <1>2, <1>3 DEF FreeSlots
<1>5. slots \in Seq(SlotType)
  BY DEF IInv, SlotInv, SlotType
<1> HIDE DEF i
<1>6. ReaderSlot(p, reader[p])
  BY DEF SInv, ReaderInv
<1>7. CASE Full(i)
  <2>1. reader'[p].pc = "idle" /\ \A q \in Readers : q # p => reader'[q] = reader[q]
    BY <1>1, <1>2, <1>7 DEF NoRead
  <2>2. slots' = slots
    BY <1>1, <1>7
  <2>3. ReaderSlot(p, reader[p])' /\ ReaderPins(reader[p])' /\ ReaderView(reader[p])'
    BY <2>1 DEF ReaderSlot, ReaderPins, ReaderView, Reading, Pins
  <2> QED BY <1>1, <2>1, <2>2, <2>3, ReaderSteps
<1>8. CASE ~Full(i)
  <2>1. /\ reader'[p].pc = "load" /\ reader'[p].slot = i /\ reader'[p].since = reader[p].since
        /\ \A q \in Readers : q # p => reader'[q] = reader[q]
    BY <1>1, <1>2, <1>8
  <2>2. /\ i \in DOMAIN slots' /\ slots'[i] = claimed
        /\ \A j \in DOMAIN slots : j \in DOMAIN slots' /\ (j # i => slots'[j] = slots[j])
    <3>1. CASE i > Len(slots)
      <4>1. i = Len(slots) + 1 /\ slots' = Append(slots, claimed)
        BY <1>1, <1>4, <1>8, <3>1
      <4> HIDE DEF claimed, SlotType
      <4>2. /\ DOMAIN slots' = 1..(Len(slots) + 1) /\ slots'[Len(slots) + 1] = claimed
            /\ \A j \in 1..Len(slots) : slots'[j] = slots[j]
        BY <1>2, <1>5, <4>1
      <4> QED BY <1>2, <4>1, <4>2
    <3>2. CASE ~(i > Len(slots))
      <4>1. i \in DOMAIN slots /\ slots' = [slots EXCEPT ![i] = claimed]
        BY <1>1, <1>2, <1>4, <1>8, <3>2
      <4> QED BY <4>1
    <3> QED BY <3>1, <3>2
  <2>3. slots'[i].pid = p
    BY <2>2
  <2>4. ReaderSlot(p, reader[p])'
    BY <1>1, <1>6, <2>1, <2>2, <2>3 DEF ReaderSlot, Reading
  <2>5. ReaderPins(reader[p])' /\ ReaderView(reader[p])'
    BY <2>1 DEF ReaderPins, ReaderView, Pins
  <2>6. \A j \in DOMAIN slots : slots[j].pid # p /\ slots[j].pid # None => slots'[j] = slots[j]
    BY <1>4, <2>2
  <2>7. \A q \in Procs : /\ env'[q].open = env[q].open /\ env'[q].pgoldest = env[q].pgoldest
                         /\ env[q].live => env'[q].live
    BY <1>1
  <2>8. UNCHANGED <<file, meta, history, mti_txnid, ownerDied, txn, before>>
    BY <1>1
  <2>9. \A j \in DOMAIN slots : j \in DOMAIN slots'
    BY <2>2
  <2> QED BY <2>1, <2>4, <2>5, <2>6, <2>7, <2>8, <2>9, ReaderSteps
<1> QED BY <1>7, <1>8

\* Steps of a reader that leave its slot alone.
LEMMA ReaderGoesOn ==
    ASSUME IInv, SInv, NEW p \in Readers, UNCHANGED fileVars, UNCHANGED lockVars, UNCHANGED env,
           UNCHANGED txn, UNCHANGED ghostVars,
           \A q \in Readers : q # p => reader'[q] = reader[q],
           ReaderSlot(p, reader[p])', ReaderPins(reader[p])', ReaderView(reader[p])'
    PROVE  SInv'
<1>1. /\ UNCHANGED <<file, meta, history, mti_txnid, ownerDied, txn, before>>
      /\ slots' = slots /\ env' = env
  BY DEF fileVars, lockVars, ghostVars
<1> QED BY <1>1, ReaderSteps

\* The number of the last transaction is loaded.
LEMMA LoadTxnidDoes ==
    ASSUME IInv, SInv, NEW p \in Readers, LoadTxnid(p)
    PROVE  SInv'
<1>1. /\ reader[p].pc = "load"
      /\ reader' = [reader EXCEPT ![p].pc = "store", ![p].txnid = mti_txnid]
      /\ UNCHANGED fileVars /\ UNCHANGED lockVars /\ UNCHANGED env /\ UNCHANGED txn
      /\ UNCHANGED ghostVars
  BY DEF LoadTxnid
<1>2. /\ DOMAIN reader = Readers
      /\ DOMAIN reader[p] = {"pc", "slot", "txnid", "root", "next", "since"}
  BY DEF IInv, EnvInv
<1>3. ReaderSlot(p, reader[p])
  BY DEF SInv, ReaderInv
<1>4. /\ reader'[p].pc = "store" /\ reader'[p].txnid = mti_txnid
      /\ reader'[p].slot = reader[p].slot /\ reader'[p].since = reader[p].since
      /\ \A q \in Readers : q # p => reader'[q] = reader[q]
  BY <1>1, <1>2
<1>5. /\ reader[p].since \in 0..mti_txnid /\ env[p].open /\ env[p].live /\ mti_txnid \in Nat
      /\ reader[p].slot \in DOMAIN slots /\ slots[reader[p].slot].pid = p
  BY <1>1, <1>3, TwoMetas DEF ReaderSlot, IInv, LockInv
<1>6. mti_txnid' = mti_txnid /\ slots' = slots /\ env' = env
  BY <1>1 DEF lockVars
<1>7. mti_txnid \in reader[p].since..mti_txnid /\ reader[p].since \in Nat
  BY <1>5
<1>8. ReaderSlot(p, reader[p])'
  BY <1>4, <1>5, <1>6, <1>7 DEF ReaderSlot, Reading
<1>9. ReaderPins(reader[p])' /\ ReaderView(reader[p])'
  BY <1>4 DEF ReaderPins, ReaderView, Pins
<1> QED BY <1>1, <1>4, <1>8, <1>9, ReaderGoesOn

\* It is stored in the slot.
LEMMA StoreTxnidDoes ==
    ASSUME IInv, SInv, NEW p \in Readers, StoreTxnid(p)
    PROVE  SInv'
<1> DEFINE i == reader[p].slot
<1>1. /\ reader[p].pc = "store"
      /\ slots' = [slots EXCEPT ![i].txnid = reader[p].txnid]
      /\ reader' = [reader EXCEPT ![p].pc = "check"]
      /\ UNCHANGED <<file, meta, history, mti_txnid, ownerDied, txn, before, env>>
  BY DEF StoreTxnid, fileVars, ghostVars
<1>2. /\ DOMAIN reader = Readers
      /\ DOMAIN reader[p] = {"pc", "slot", "txnid", "root", "next", "since"}
  BY DEF IInv, EnvInv
<1>3. ReaderSlot(p, reader[p])
  BY DEF SInv, ReaderInv
<1>4. i \in DOMAIN slots /\ slots[i].pid = p /\ DOMAIN slots[i] = {"pid", "txnid"}
  <2>1. i \in DOMAIN slots /\ slots[i].pid = p
    BY <1>1, <1>3 DEF ReaderSlot
  <2>2. slots[i] \in SlotType
    BY <2>1, SlotTypes DEF IInv, SlotType
  <2> QED BY <2>1, <2>2 DEF SlotType
<1>5. /\ reader'[p].pc = "check" /\ reader'[p].txnid = reader[p].txnid
      /\ reader'[p].slot = i /\ reader'[p].since = reader[p].since
      /\ \A q \in Readers : q # p => reader'[q] = reader[q]
  BY <1>1, <1>2
<1>6. /\ DOMAIN slots' = DOMAIN slots /\ slots'[i].pid = p /\ slots'[i].txnid = reader[p].txnid
      /\ \A j \in DOMAIN slots : j # i => slots'[j] = slots[j]
  BY <1>1, <1>4
<1>7. ReaderSlot(p, reader[p])'
  BY <1>1, <1>3, <1>4, <1>5, <1>6 DEF ReaderSlot, Reading
<1>8. ReaderPins(reader[p])' /\ ReaderView(reader[p])'
  BY <1>5 DEF ReaderPins, ReaderView, Pins
<1>9. \A j \in DOMAIN slots : slots[j].pid # p /\ slots[j].pid # None => slots'[j] = slots[j]
  BY <1>4, <1>6
<1>10. \A q \in Procs : /\ env'[q].open = env[q].open /\ env'[q].pgoldest = env[q].pgoldest
                        /\ env[q].live => env'[q].live
  BY <1>1
<1>11. \A j \in DOMAIN slots : j \in DOMAIN slots'
  BY <1>6
<1> HIDE DEF i
<1> QED BY <1>1, <1>5, <1>7, <1>8, <1>9, <1>10, <1>11, ReaderSteps

\* If it is still the last one, nothing of its version will be overwritten.
LEMMA CheckTxnidDoes ==
    ASSUME IInv, SInv, NEW p \in Readers, CheckTxnid(p)
    PROVE  SInv'
<1> DEFINE pc == IF slots[reader[p].slot].txnid = mti_txnid THEN "copy" ELSE "load"
<1>1. /\ reader[p].pc = "check"
      /\ reader' = [reader EXCEPT ![p].pc = pc]
      /\ UNCHANGED fileVars /\ UNCHANGED lockVars /\ UNCHANGED env /\ UNCHANGED txn
      /\ UNCHANGED ghostVars
  BY DEF CheckTxnid
<1>2. /\ DOMAIN reader = Readers
      /\ DOMAIN reader[p] = {"pc", "slot", "txnid", "root", "next", "since"}
  BY DEF IInv, EnvInv
<1>3. ReaderSlot(p, reader[p])
  BY DEF SInv, ReaderInv
<1>4. /\ reader'[p].pc = pc /\ reader'[p].txnid = reader[p].txnid
      /\ reader'[p].slot = reader[p].slot /\ reader'[p].since = reader[p].since
      /\ \A q \in Readers : q # p => reader'[q] = reader[q]
  BY <1>1, <1>2
<1>5. UNCHANGED <<file, meta, history, mti_txnid, slots, env, txn>> /\ Last' = Last
  BY <1>1 DEF lockVars, fileVars, ghostVars, Last
<1>6. pc = "copy" \/ pc = "load"
  OBVIOUS
<1>7. ReaderSlot(p, reader[p])'
  BY <1>1, <1>3, <1>4, <1>5, <1>6 DEF ReaderSlot, Reading
<1>8. pc = "copy" => reader[p].txnid = mti_txnid
  BY <1>1, <1>3 DEF ReaderSlot, Reading
<1> HIDE DEF pc
<1>9. ReaderPins(reader[p])' /\ ReaderView(reader[p])'
  <2>1. CASE pc = "load"
    BY <1>4, <2>1 DEF ReaderPins, ReaderView, Pins
  <2>2. CASE pc = "copy"
    <3>1. reader'[p].pc = "copy" /\ reader'[p].txnid = mti_txnid
      BY <1>4, <1>8, <2>2
    <3>2. PublishedInv /\ Spares(txn, mti_txnid, reader[p].slot)
      BY Settles DEF SInv
    <3>3. ReaderPins(reader[p])'
      BY <1>4, <1>5, <3>1, <3>2 DEF ReaderPins, PublishedInv, NoneOlder
    <3>4. ReaderView(reader[p])'
      BY <1>5, <3>1, <3>2 DEF ReaderView, PublishedInv
    <3> QED BY <3>3, <3>4
  <2> QED BY <1>6, <2>1, <2>2
<1> QED BY <1>1, <1>4, <1>7, <1>9, ReaderGoesOn

\* The root is copied from the meta page.
LEMMA CopyRootsDoes ==
    ASSUME IInv, SInv, NEW p \in Readers, CopyRoots(p)
    PROVE  SInv'
<1> DEFINE v == meta[reader[p].txnid % 2]
<1>1. /\ reader[p].pc = "copy"
      /\ reader' = [reader EXCEPT ![p].pc = "size", ![p].root = v.root]
      /\ UNCHANGED fileVars /\ UNCHANGED lockVars /\ UNCHANGED env /\ UNCHANGED txn
      /\ UNCHANGED ghostVars
  BY DEF CopyRoots
<1>2. /\ DOMAIN reader = Readers
      /\ DOMAIN reader[p] = {"pc", "slot", "txnid", "root", "next", "since"}
  BY DEF IInv, EnvInv
<1>3. ReaderSlot(p, reader[p]) /\ ReaderPins(reader[p]) /\ ReaderView(reader[p])
  BY DEF SInv, ReaderInv
<1>4. /\ reader'[p].pc = "size" /\ reader'[p].txnid = reader[p].txnid
      /\ reader'[p].slot = reader[p].slot /\ reader'[p].since = reader[p].since
      /\ reader'[p].root = v.root
      /\ \A q \in Readers : q # p => reader'[q] = reader[q]
  BY <1>1, <1>2
<1>5. UNCHANGED <<file, meta, history, mti_txnid, slots, env, txn>> /\ Last' = Last
  BY <1>1 DEF lockVars, fileVars, ghostVars, Last
<1>6. ReaderSlot(p, reader[p])'
  BY <1>1, <1>3, <1>4, <1>5 DEF ReaderSlot, Reading
<1>7. ReaderPins(reader[p])'
  BY <1>1, <1>3, <1>4, <1>5 DEF ReaderPins, Pins, NoneOlder
<1>8. ReaderView(reader[p])'
  <2>1. Version(file, Last, history, v, reader[p].txnid)
    BY <1>1, <1>3 DEF ReaderView
  <2>2. /\ Pinned(file, Last, v.root, reader[p].txnid) /\ v.last \in Int
        /\ PagesOf(file, v.root) \subseteq FirstPage..v.last
        /\ Contents(file, v.root) = history[v.id]
    BY <2>1 DEF Version
  <2>3. v.id \in reader[p].since..Last.id
    <3>1. v.id \in reader[p].txnid..Last.id
      BY <2>1 DEF Version
    <3>2. reader[p].txnid \in reader[p].since..mti_txnid /\ reader[p].since \in Nat
      BY <1>1, <1>3 DEF ReaderSlot, Reading
    <3>3. mti_txnid \in Nat /\ Last.id \in Nat
      BY TwoMetas DEF IInv, LockInv
    <3> QED BY <3>1, <3>2, <3>3
  <2> QED BY <1>4, <1>5, <2>2, <2>3 DEF ReaderView
<1> QED BY <1>1, <1>4, <1>6, <1>7, <1>8, ReaderGoesOn

\* The size of the file is copied, and the transaction has begun.
LEMMA CopySizeDoes ==
    ASSUME IInv, SInv, NEW p \in Readers, CopySize(p)
    PROVE  /\ reader[p].pc = "size" /\ reader'[p].pc = "active"
           /\ reader'[p].root = reader[p].root
           /\ \A q \in Readers : q # p => reader'[q] = reader[q]
           /\ SInv'
<1> DEFINE v == meta[reader[p].txnid % 2]
<1>1. /\ reader[p].pc = "size"
      /\ reader' = [reader EXCEPT ![p].pc = "active", ![p].since = 0, ![p].next = v.last + 1]
      /\ UNCHANGED fileVars /\ UNCHANGED lockVars /\ UNCHANGED env /\ UNCHANGED txn
      /\ UNCHANGED ghostVars
  BY DEF CopySize
<1>2. /\ DOMAIN reader = Readers
      /\ DOMAIN reader[p] = {"pc", "slot", "txnid", "root", "next", "since"}
  BY DEF IInv, EnvInv
<1>3. ReaderSlot(p, reader[p]) /\ ReaderPins(reader[p]) /\ ReaderView(reader[p])
  BY DEF SInv, ReaderInv
<1>4. /\ reader'[p].pc = "active" /\ reader'[p].txnid = reader[p].txnid
      /\ reader'[p].slot = reader[p].slot /\ reader'[p].since = 0
      /\ reader'[p].root = reader[p].root /\ reader'[p].next = v.last + 1
      /\ \A q \in Readers : q # p => reader'[q] = reader[q]
  BY <1>1, <1>2
<1>5. UNCHANGED <<file, meta, history, mti_txnid, slots, env, txn>> /\ Last' = Last
  BY <1>1 DEF lockVars, fileVars, ghostVars, Last
<1>6. ReaderSlot(p, reader[p])'
  <2>1. reader[p].txnid \in reader[p].since..mti_txnid /\ reader[p].since \in Nat
    BY <1>1, <1>3 DEF ReaderSlot, Reading
  <2>2. mti_txnid \in Nat
    BY TwoMetas DEF IInv, LockInv
  <2>3. reader[p].txnid \in 0..mti_txnid
    BY <2>1, <2>2
  <2> QED BY <1>1, <1>3, <1>4, <1>5, <2>3 DEF ReaderSlot, Reading
<1>7. ReaderPins(reader[p])'
  BY <1>1, <1>3, <1>4, <1>5 DEF ReaderPins, Pins, NoneOlder
<1>8. ReaderView(reader[p])'
  <2>1. /\ Pinned(file, Last, reader[p].root, reader[p].txnid) /\ v.last \in Int
        /\ PagesOf(file, reader[p].root) \subseteq FirstPage..v.last
    BY <1>1, <1>3 DEF ReaderView
  <2>2. (v.last + 1) - 1 = v.last
    BY <2>1
  <2> QED BY <1>4, <1>5, <2>1, <2>2 DEF ReaderView
<1> QED BY <1>1, <1>4, <1>6, <1>7, <1>8, ReaderGoesOn

\* A read transaction ends.
LEMMA EndReadDoes ==
    ASSUME IInv, SInv, NEW p \in Readers, EndRead(p)
    PROVE  SInv'
<1> DEFINE i == reader[p].slot
           s == [pid |-> None, txnid |-> Idle]
<1>1. /\ reader[p].pc = "active"
      /\ slots' = [slots EXCEPT ![i] = s]
      /\ reader' = [reader EXCEPT ![p] = NoRead]
      /\ UNCHANGED <<file, meta, history, mti_txnid, ownerDied, txn, before, env>>
  BY DEF EndRead, fileVars, ghostVars
<1>2. DOMAIN reader = Readers
  BY DEF IInv, EnvInv
<1>3. slots[i].pid = p
  BY <1>1 DEF SInv, ReaderInv, ReaderSlot
<1>4. /\ reader'[p].pc = "idle"
      /\ \A q \in Readers : q # p => reader'[q] = reader[q]
  BY <1>1, <1>2 DEF NoRead
<1>5. /\ DOMAIN slots' = DOMAIN slots
      /\ \A j \in DOMAIN slots : j # i => slots'[j] = slots[j]
  BY <1>1
<1>6. ReaderSlot(p, reader[p])' /\ ReaderPins(reader[p])' /\ ReaderView(reader[p])'
  BY <1>4 DEF ReaderSlot, ReaderPins, ReaderView, Pins, Reading
<1>7. \A j \in DOMAIN slots : slots[j].pid # p /\ slots[j].pid # None => slots'[j] = slots[j]
  BY <1>3, <1>5
<1>8. \A q \in Procs : /\ env'[q].open = env[q].open /\ env'[q].pgoldest = env[q].pgoldest
                       /\ env[q].live => env'[q].live
  BY <1>1
<1>9. \A j \in DOMAIN slots : j \in DOMAIN slots'
  BY <1>5
<1> HIDE DEF i, s
<1> QED BY <1>1, <1>4, <1>6, <1>7, <1>8, <1>9, ReaderSteps

-----------------------------------------------------------------------------
(* The steps of processes and of the machine.                              *)

AllPublished == mti_txnid = Last.id
NoReader == \A q \in Readers : reader[q].pc = "idle"
Rest == AllPublished /\ txn = NoTxn /\ NoReader

\* The last commit may be published.
LEMMA PublishedLast == IInv /\ AllPublished => PublishedInv
<1> SUFFICES ASSUME IInv, mti_txnid = Last.id
             PROVE  PublishedInv
  BY DEF AllPublished
<1>1. /\ Last.id \in Nat /\ Last = meta[Last.id % 2]
      /\ \A q \in Procs : env[q].pgoldest \in 0..Last.id
  BY TwoMetas DEF IInv, LockInv
<1>2. Version(file, Last, history, meta[Last.id % 2], Last.id)
  <2>1. Sound(file, disk, history, Last)
    BY DEF IInv, DiskInv
  <2> QED BY <1>1, <2>1, VersionSelf
<1>3. \A q \in Procs : env[q].pgoldest <= Last.id
  BY <1>1
<1> QED BY <1>2, <1>3 DEF PublishedInv, NoneOlder

\* Nobody reads and nobody writes.
LEMMA AtRest == IInv /\ Rest => SInv
<1> SUFFICES ASSUME IInv, AllPublished, txn = NoTxn, \A q \in Readers : reader[q].pc = "idle"
             PROVE  SInv
  BY DEF Rest, NoReader
<1>1. PublishedInv
  BY PublishedLast
<1>2. ReaderInv
  BY DEF ReaderInv, ReaderSlot, ReaderPins, ReaderView, Reading, Pins
<1>3. WriterInv /\ WorkInv
  BY DEF WriterInv, WorkInv
<1> QED BY <1>1, <1>2, <1>3 DEF SInv

\* The transactions have not begun.
LEMMA InitSInv == Init => SInv
<1> SUFFICES ASSUME Init
             PROVE  SInv
  OBVIOUS
<1>1. IInv
  BY InitInv
<1>2. AllPublished
  <2>1. meta[0] = EmptyMeta /\ meta[1] = EmptyMeta
    BY DEF Init
  <2>2. Last.id = 0
    BY <2>1 DEF Last, PickMeta, EmptyMeta
  <2> QED BY <2>2 DEF Init, AllPublished
<1>3. txn = NoTxn /\ \A q \in Readers : reader[q].pc = "idle"
  BY DEF Init, NoRead
<1> QED BY <1>1, <1>2, <1>3, AtRest DEF Rest, NoReader

\* Processes come and go: readers that stay keep their slots.
LEMMA ReadersRemain ==
    ASSUME IInv, SInv, UNCHANGED <<file, meta, history, mti_txnid>>,
           \A q \in Procs : env'[q].pgoldest \in {env[q].pgoldest, 0},
           \A q \in Readers :
              \/ reader'[q].pc = "idle"
              \/ /\ reader'[q] = reader[q]
                 /\ env'[q].open = env[q].open /\ env'[q].live = env[q].live
                 /\ reader[q].pc \notin {"idle", "claim"} =>
                      /\ reader[q].slot \in DOMAIN slots'
                      /\ slots'[reader[q].slot] = slots[reader[q].slot],
           txn' = txn \/ txn' = NoTxn
    PROVE  PublishedInv' /\ ReaderInv'
<1>1. Last' = Last
  BY DEF Last
<1>2. \A t \in Nat : NoneOlder(t) => NoneOlder(t)'
  BY DEF NoneOlder
<1>3. mti_txnid \in Nat
  BY LastCommit DEF IInv, LockInv
<1>4. PublishedInv'
  BY <1>1, <1>2, <1>3 DEF SInv, PublishedInv, NoneOlder
<1>5. ASSUME NEW q \in Readers
      PROVE  ReaderSlot(q, reader[q])' /\ ReaderPins(reader[q])' /\ ReaderView(reader[q])'
  <2>1. ReaderSlot(q, reader[q]) /\ ReaderPins(reader[q]) /\ ReaderView(reader[q])
    BY DEF SInv, ReaderInv
  <2>2. CASE reader'[q].pc = "idle"
    BY <2>2 DEF ReaderSlot, ReaderPins, ReaderView, Reading, Pins
  <2>3. CASE reader'[q].pc # "idle"
    <3>1. /\ reader'[q] = reader[q]
          /\ env'[q].open = env[q].open /\ env'[q].live = env[q].live
          /\ reader[q].pc \notin {"idle", "claim"} =>
               /\ reader[q].slot \in DOMAIN slots'
               /\ slots'[reader[q].slot] = slots[reader[q].slot]
      BY <2>3
    <3>2. reader[q].pc \in Reading => reader[q].pc \notin {"idle", "claim"}
      BY DEF Reading
    <3>3. ReaderSlot(q, reader[q])'
      BY <2>1, <3>1, <3>2 DEF ReaderSlot
    <3>4. ReaderPins(reader[q])'
      <4>1. ASSUME Pins(reader[q])
            PROVE  NoneOlder(reader[q].txnid)' /\ Spares(txn', reader[q].txnid, reader[q].slot)
        <5>1. reader[q].txnid \in Nat
          BY <2>1, <4>1, PinNumbers
        <5>2. NoneOlder(reader[q].txnid) /\ Spares(txn, reader[q].txnid, reader[q].slot)
          BY <2>1, <4>1 DEF ReaderPins
        <5>3. NoneOlder(reader[q].txnid)'
          BY <3>1, <5>1, <5>2 DEF NoneOlder
        <5>4. Spares(NoTxn, reader[q].txnid, reader[q].slot)
          BY DEF Spares
        <5> QED BY <5>2, <5>3, <5>4
      <4> QED BY <3>1, <4>1 DEF ReaderPins, NoneOlder
    <3>5. ReaderView(reader[q])'
      BY <1>1, <2>1, <3>1 DEF ReaderView
    <3> QED BY <3>3, <3>4, <3>5
  <2> QED BY <2>2, <2>3
<1>6. ReaderInv'
  BY <1>5 DEF ReaderInv
<1> QED BY <1>4, <1>6

\* mdb_reader_check clears the slots of dead processes only.
LEMMA StaleDoes ==
    ASSUME IInv, SInv, NEW p \in Procs, NEW q, Suspect(p, q) \/ ClearStale(p)
    PROVE  SInv'
<1>1. /\ UNCHANGED <<file, meta, history, mti_txnid, ownerDied, txn, before, reader>>
  BY DEF Suspect, ClearStale, fileVars, lockVars, ghostVars
<1>2. DOMAIN env = Procs /\ DOMAIN env[p] = {"open", "live", "pgoldest", "suspect"}
  BY DEF IInv, EnvInv
<1>3. PICK v : env' = [env EXCEPT ![p].suspect = v]
  BY DEF Suspect, ClearStale
<1>4. \A r \in Procs : /\ env'[r].pgoldest = env[r].pgoldest
                       /\ env'[r].open = env[r].open /\ env'[r].live = env[r].live
  BY <1>2, <1>3
<1>5. ASSUME NEW r \in Readers, reader[r].pc \notin {"idle", "claim"}
      PROVE  /\ reader[r].slot \in DOMAIN slots'
             /\ slots'[reader[r].slot] = slots[reader[r].slot]
  <2>1. /\ reader[r].slot \in DOMAIN slots /\ slots[reader[r].slot].pid = r
        /\ env[r].live
    BY <1>5 DEF SInv, ReaderInv, ReaderSlot
  <2>2. \/ slots' = slots
        \/ slots' = Cleared(env[p].suspect) /\ ~env[env[p].suspect].live
    BY DEF Suspect, ClearStale, StillDead, lockVars
  <2>3. CASE slots' = Cleared(env[p].suspect) /\ ~env[env[p].suspect].live
    <3>1. r # env[p].suspect
      BY <2>1, <2>3
    <3> QED BY <2>1, <2>3, <3>1 DEF Cleared
  <2> QED BY <2>1, <2>2, <2>3
<1>6. \A r \in Readers : r \in Procs
  BY DEF Procs
<1>7. PublishedInv' /\ ReaderInv'
  BY <1>1, <1>4, <1>5, <1>6, ReadersRemain
<1>8. Last' = Last
  BY <1>1 DEF Last
<1>9. WriterInv' /\ WorkInv'
  BY <1>1, <1>8 DEF SInv, WriterInv, WorkInv
<1> QED BY <1>7, <1>9 DEF SInv

\* A process dies.
LEMMA DieDoes ==
    ASSUME IInv, SInv, NEW p \in Procs, Die(p)
    PROVE  /\ UNCHANGED <<file, meta, history, mti_txnid, metasync, durable>>
           /\ (txn' = txn /\ before' = before) \/ txn' = NoTxn
           /\ p \in Readers => reader'[p].pc = "idle"
           /\ \A q \in Readers : q # p => reader'[q] = reader[q]
           /\ SInv'
<1>1. /\ env' = [env EXCEPT ![p] = Closed] /\ reader' = DropReader(p)
      /\ wmutex = p => EndTxn /\ ownerDied'
      /\ wmutex # p => UNCHANGED <<txn, wmutex, before, ownerDied>>
      /\ UNCHANGED fileVars /\ UNCHANGED <<mti_txnid, slots, history, durable, metasync>>
  BY DEF Die
<1>2. DOMAIN env = Procs /\ DOMAIN reader = Readers
  BY DEF IInv, EnvInv
<1>3. UNCHANGED <<file, meta>> /\ Last' = Last
  BY <1>1 DEF fileVars, Last
<1>4. /\ p \in Readers => reader'[p].pc = "idle"
      /\ \A q \in Readers : q # p => reader'[q] = reader[q]
  BY <1>1, <1>2 DEF DropReader, NoRead
<1>5. env'[p].pgoldest = 0 /\ \A q \in Procs : q # p => env'[q] = env[q]
  BY <1>1, <1>2 DEF Closed
<1>6. (txn' = txn /\ before' = before /\ ownerDied' = ownerDied) \/ txn' = NoTxn
  BY <1>1 DEF EndTxn
<1>7. \A q \in Readers :
         \/ reader'[q].pc = "idle"
         \/ /\ reader'[q] = reader[q]
            /\ env'[q].open = env[q].open /\ env'[q].live = env[q].live
            /\ reader[q].pc \notin {"idle", "claim"} =>
                 /\ reader[q].slot \in DOMAIN slots'
                 /\ slots'[reader[q].slot] = slots[reader[q].slot]
  <2> SUFFICES ASSUME NEW q \in Readers, q # p
               PROVE  /\ reader'[q] = reader[q]
                      /\ env'[q].open = env[q].open /\ env'[q].live = env[q].live
                      /\ reader[q].pc \notin {"idle", "claim"} =>
                           /\ reader[q].slot \in DOMAIN slots'
                           /\ slots'[reader[q].slot] = slots[reader[q].slot]
    BY <1>4
  <2>1. q \in Procs
    BY DEF Procs
  <2>2. reader[q].pc \notin {"idle", "claim"} => reader[q].slot \in DOMAIN slots
    BY DEF SInv, ReaderInv, ReaderSlot
  <2> QED BY <1>1, <1>4, <1>5, <2>1, <2>2
<1>8. PublishedInv' /\ ReaderInv'
  BY <1>1, <1>3, <1>5, <1>6, <1>7, ReadersRemain
<1>9. WriterInv' /\ WorkInv'
  BY <1>3, <1>6 DEF SInv, WriterInv, WorkInv
<1> QED BY <1>1, <1>3, <1>4, <1>6, <1>8, <1>9 DEF SInv

\* A process opens the environment: the first one publishes the last commit.
LEMMA OpenDoes ==
    ASSUME IInv, SInv, IInv', NEW p \in Procs, Open(p)
    PROVE  /\ UNCHANGED <<file, meta, history, metasync, durable, reader, txn, before>>
           /\ mti_txnid' \in {mti_txnid, Last.id}
           /\ SInv'
<1>1. /\ env' = [env EXCEPT ![p].open = TRUE]
      /\ (\A q \in Procs : ~env[q].open) =>
           mti_txnid' = PickMeta(meta).id /\ slots' = <<>> /\ ~ownerDied'
      /\ ~(\A q \in Procs : ~env[q].open) => UNCHANGED <<mti_txnid, slots, ownerDied>>
      /\ UNCHANGED <<file, meta, history, metasync, durable, reader, txn, before, wmutex>>
  BY DEF Open, fileVars, ghostVars
<1>2. DOMAIN env = Procs /\ DOMAIN env[p] = {"open", "live", "pgoldest", "suspect"}
  BY DEF IInv, EnvInv
<1>3. Last' = Last
  BY <1>1 DEF Last
<1>4. CASE \A q \in Procs : ~env[q].open
  <2>1. AllPublished' /\ mti_txnid' = Last.id
    BY <1>1, <1>3, <1>4 DEF AllPublished, Last
  <2>2. txn' = NoTxn
    <3>1. LockInv /\ (wmutex # None => wmutex \in Procs)
      BY DEF IInv, LockInv, Procs
    <3> QED BY <1>1, <1>4, <3>1 DEF LockInv
  <2>3. \A q \in Readers : reader'[q].pc = "idle"
    BY <1>1, <1>4 DEF SInv, ReaderInv, ReaderSlot, Procs
  <2>4. Rest'
    BY <2>1, <2>2, <2>3 DEF Rest, NoReader
  <2>5. SInv'
    BY <2>4, AtRest, PTL
  <2> QED BY <1>1, <2>1, <2>5
<1>5. CASE ~(\A q \in Procs : ~env[q].open)
  <2>1. UNCHANGED <<mti_txnid, slots, ownerDied>>
    BY <1>1, <1>5
  <2>2. \A q \in Procs : env'[q].pgoldest = env[q].pgoldest
    BY <1>1, <1>2
  <2>3. \A q \in Readers :
           \/ reader'[q].pc = "idle"
           \/ /\ reader'[q] = reader[q]
              /\ env'[q].open = env[q].open /\ env'[q].live = env[q].live
              /\ reader[q].pc \notin {"idle", "claim"} =>
                   /\ reader[q].slot \in DOMAIN slots'
                   /\ slots'[reader[q].slot] = slots[reader[q].slot]
    <3> SUFFICES ASSUME NEW q \in Readers, reader[q].pc # "idle"
                 PROVE  /\ env'[q].open = env[q].open /\ env'[q].live = env[q].live
                        /\ reader[q].pc \notin {"idle", "claim"} => reader[q].slot \in DOMAIN slots
      BY <1>1, <2>1
    <3>1. ReaderSlot(q, reader[q]) /\ q \in Procs
      BY DEF SInv, ReaderInv, Procs
    <3>2. env[q].open /\ (reader[q].pc \notin {"idle", "claim"} => reader[q].slot \in DOMAIN slots)
      BY <3>1 DEF ReaderSlot
    <3>3. ~env[p].open
      BY DEF Open
    <3> QED BY <1>1, <1>2, <3>1, <3>2, <3>3
  <2>4. PublishedInv' /\ ReaderInv'
    BY <1>1, <2>1, <2>2, <2>3, ReadersRemain
  <2>5. WriterInv' /\ WorkInv'
    BY <1>1, <1>3, <2>1 DEF SInv, WriterInv, WorkInv
  <2> QED BY <1>1, <2>1, <2>4, <2>5 DEF SInv
<1> QED BY <1>4, <1>5

\* The machine stops.
LEMMA CrashDoes ==
    ASSUME IInv, IInv', Crash
    PROVE  /\ txn' = NoTxn /\ mti_txnid' = Last'.id
           /\ \A q \in Readers : reader'[q].pc = "idle"
           /\ SInv'
<1>1. txn' = NoTxn /\ mti_txnid' = PickMeta(meta').id /\ reader' = [p \in Readers |-> NoRead]
  BY DEF Crash, EndTxn
<1>2. \A q \in Readers : reader'[q].pc = "idle"
  BY <1>1 DEF NoRead
<1>3. mti_txnid' = Last'.id
  BY <1>1 DEF Last
<1>4. Rest'
  BY <1>1, <1>2, <1>3 DEF Rest, NoReader, AllPublished
<1>5. SInv'
  BY <1>4, AtRest, PTL
<1> QED BY <1>1, <1>2, <1>3, <1>5

-----------------------------------------------------------------------------
(* The store that the transactions implement.                              *)

\* What each variable of the store is, of the history h, of the file f, and of
\* the write transaction w whose operation began with the contents b.
VersionsOf(h) == [i \in 1..Cardinality(DOMAIN h) |-> h[i - 1]]
Lows == [p \in Procs |-> Since(p)]
Views == [p \in Procs |-> Seen(p)]
WorkOf(f, w, b) ==
    IF w.pc = "idle" THEN << >>
    ELSE IF w.pc \in {"work", "alloc", "scan", "failed"} /\ ~ForList(w) THEN <<b>>
    ELSE <<Tells(f, w)>>
OuterOf(f, w) ==
    IF w.pc # "idle" /\ w.depth > 0 THEN <<Tells(f, w.parent)>> ELSE << >>

Stored ==
    <<Versions, mti_txnid + 1, durable + 1, metasync, Lows, Views, Working, Outer>>

\* The mapping in these terms.
LEMMA MapIs ==
    /\ Versions = VersionsOf(history)
    /\ Working = WorkOf(file, txn, before)
    /\ Outer = OuterOf(file, txn)
BY DEF Versions, VersionsOf, Working, WorkOf, Outer, OuterOf, OpUnderWay, Saving, ForList, Tells

\* The same in the next state.
LEMMA MapIsNext ==
    /\ Versions' = VersionsOf(history')
    /\ Working' = WorkOf(file', txn', before')
    /\ Outer' = OuterOf(file', txn')
BY DEF Versions, VersionsOf, Working, WorkOf, Outer, OuterOf, OpUnderWay, Saving, ForList, Tells

\* The versions are numbered from 1.
LEMMA VersionsAre ==
    ASSUME NEW h, NEW n \in Nat, DOMAIN h = 0..n
    PROVE  /\ VersionsOf(h) \in Seq({h[k] : k \in 0..n})
           /\ Len(VersionsOf(h)) = n + 1
           /\ \A i \in 1..(n + 1) : VersionsOf(h)[i] = h[i - 1]
<1>1. Cardinality(0..n) = n + 1
  BY FS_Interval
<1>2. VersionsOf(h) = [i \in 1..(n + 1) |-> h[i - 1]]
  BY <1>1 DEF VersionsOf
<1>3. \A i \in 1..(n + 1) : i - 1 \in 0..n
  OBVIOUS
<1>4. VersionsOf(h) \in [1..(n + 1) -> {h[k] : k \in 0..n}] /\ n + 1 \in Nat
  BY <1>2, <1>3
<1>5. VersionsOf(h) \in Seq({h[k] : k \in 0..n})
  <2> DEFINE S == {h[k] : k \in 0..n}
             s == VersionsOf(h)
  <2>1. s \in [1..(n + 1) -> S] /\ n + 1 \in Nat
    BY <1>4
  <2> HIDE DEF S, s
  <2>2. s \in Seq(S)
    BY <2>1, SeqDef
  <2> QED BY <2>2 DEF S, s
<1>6. Len(VersionsOf(h)) = n + 1
  BY <1>4, <1>5
<1> QED BY <1>2, <1>5, <1>6

\* Two sequences with the same elements.
LEMMA SameSeq ==
    ASSUME NEW S, NEW T, NEW s \in Seq(S), NEW t \in Seq(T), Len(s) = Len(t),
           \A i \in 1..Len(s) : s[i] = t[i]
    PROVE  s = t
OBVIOUS

\* A commit appends a version.
LEMMA VersionsAppend ==
    ASSUME NEW m, NEW n, NEW h, NEW i, Committed(m, n, h, i)
    PROVE  VersionsOf(i) = Append(VersionsOf(h), i[n.id])
<1> DEFINE S == {h[k] : k \in 0..m.id} \cup {i[n.id]}
<1>1. /\ m.id \in Nat /\ n.id = m.id + 1 /\ n.id \in Nat
      /\ DOMAIN h = 0..m.id /\ DOMAIN i = 0..n.id
      /\ \A k \in 0..m.id : i[k] = h[k]
  BY DEF Committed
<1>2. /\ VersionsOf(h) \in Seq({h[k] : k \in 0..m.id}) /\ Len(VersionsOf(h)) = m.id + 1
      /\ \A k \in 1..(m.id + 1) : VersionsOf(h)[k] = h[k - 1]
  BY <1>1, VersionsAre
<1>3. /\ VersionsOf(i) \in Seq({i[k] : k \in 0..n.id}) /\ Len(VersionsOf(i)) = n.id + 1
      /\ \A k \in 1..(n.id + 1) : VersionsOf(i)[k] = i[k - 1]
  BY <1>1, VersionsAre
<1>4. VersionsOf(h) \in Seq(S) /\ i[n.id] \in S
  BY <1>2
<1> HIDE DEF S
<1> DEFINE a == Append(VersionsOf(h), i[n.id])
<1>5. /\ a \in Seq(S) /\ Len(a) = m.id + 2
      /\ \A k \in 1..(m.id + 1) : a[k] = VersionsOf(h)[k]
      /\ a[m.id + 2] = i[n.id]
  BY <1>1, <1>2, <1>4, AppendProperties
<1> HIDE DEF a
<1>6. ASSUME NEW k \in 1..(m.id + 2)
      PROVE  VersionsOf(i)[k] = a[k]
  <2>1. CASE k = m.id + 2
    BY <1>1, <1>3, <1>5, <2>1
  <2>2. CASE k # m.id + 2
    <3>1. k \in 1..(m.id + 1) /\ k - 1 \in 0..m.id /\ k \in 1..(n.id + 1)
      BY <1>1, <2>2
    <3> QED BY <1>1, <1>2, <1>3, <1>5, <3>1
  <2> QED BY <2>1, <2>2
<1>7. Len(VersionsOf(i)) = m.id + 2
  BY <1>1, <1>3
<1>8. VersionsOf(i) = a
  BY <1>3, <1>5, <1>6, <1>7, SameSeq
<1> QED BY <1>8 DEF a

\* A stop loses the last ones.
LEMMA VersionsCut ==
    ASSUME NEW h, NEW i, NEW m \in Nat, NEW n \in 0..m, DOMAIN h = 0..m, DOMAIN i = 0..n,
           \A k \in 0..n : i[k] = h[k]
    PROVE  VersionsOf(i) = SubSeq(VersionsOf(h), 1, n + 1)
<1>1. /\ VersionsOf(h) \in Seq({h[k] : k \in 0..m}) /\ Len(VersionsOf(h)) = m + 1
      /\ \A k \in 1..(m + 1) : VersionsOf(h)[k] = h[k - 1]
  BY VersionsAre
<1>2. /\ VersionsOf(i) \in Seq({i[k] : k \in 0..n}) /\ Len(VersionsOf(i)) = n + 1
      /\ \A k \in 1..(n + 1) : VersionsOf(i)[k] = i[k - 1]
  <2>1. n \in Nat
    OBVIOUS
  <2> QED BY <2>1, VersionsAre
<1> DEFINE s == SubSeq(VersionsOf(h), 1, n + 1)
<1>3. /\ s \in Seq({h[k] : k \in 0..m}) /\ Len(s) = n + 1
      /\ \A k \in 1..(n + 1) : s[k] = VersionsOf(h)[k]
  BY <1>1, SubSeqProperties
<1> HIDE DEF s
<1>4. ASSUME NEW k \in 1..(n + 1)
      PROVE  VersionsOf(i)[k] = s[k]
  <2>1. k - 1 \in 0..n /\ k \in 1..(m + 1)
    OBVIOUS
  <2> QED BY <1>1, <1>2, <1>3, <2>1
<1>5. VersionsOf(i) = s
  BY <1>2, <1>3, <1>4, SameSeq
<1> QED BY <1>5 DEF s

-----------------------------------------------------------------------------
(* The steps of readers, in the store.                                     *)

\* The versions of the store are the commits up to the last.
LEMMA StoreVersions ==
    ASSUME IInv
    PROVE  /\ Len(Versions) = Last.id + 1 /\ Last.id \in Nat
           /\ \A i \in 1..(Last.id + 1) : Versions[i] = history[i - 1]
           /\ mti_txnid \in 0..Last.id /\ durable \in 0..Last.id
<1>1. Last.id \in Nat /\ DOMAIN history = 0..Last.id
  BY TwoMetas DEF IInv, MetaInv
<1>2. /\ Len(VersionsOf(history)) = Last.id + 1
      /\ \A i \in 1..(Last.id + 1) : VersionsOf(history)[i] = history[i - 1]
  BY <1>1, VersionsAre
<1>3. mti_txnid \in 0..Last.id /\ durable \in 0..Last.id
  BY DEF IInv, LockInv, MetaInv
<1> QED BY <1>1, <1>2, <1>3, MapIs

\* What a step that writes nothing leaves alone.
LEMMA WritesNothing ==
    ASSUME UNCHANGED <<history, file, txn, before>>
    PROVE  UNCHANGED <<Versions, Working, Outer>>
BY MapIs, MapIsNext

\* What a step of the process p leaves alone.
LEMMA OthersSee ==
    ASSUME NEW p, file' = file, \A q \in Readers : q # p => reader'[q] = reader[q]
    PROVE  \A q \in Procs : q # p => Since(q)' = Since(q) /\ Seen(q)' = Seen(q)
BY DEF Since, Seen

\* A step of a reader that the store does not see.
LEMMA ReaderUnseen ==
    ASSUME NEW p \in Readers,
           UNCHANGED <<history, file, txn, before, mti_txnid, durable, metasync>>,
           \A q \in Readers : q # p => reader'[q] = reader[q],
           reader[p].pc \notin {"idle", "active"}, reader'[p].pc \notin {"idle", "active"},
           reader'[p].since = reader[p].since
    PROVE  UNCHANGED Stored
<1>1. Since(p)' = Since(p) /\ Seen(p)' = Seen(p)
  BY DEF Since, Seen
<1>2. \A q \in Procs : Since(q)' = Since(q) /\ Seen(q)' = Seen(q)
  BY <1>1, OthersSee
<1>3. UNCHANGED <<Lows, Views>>
  BY <1>2 DEF Lows, Views
<1> QED BY <1>3, WritesNothing DEF Stored

\* mdb_txn_begin, a read transaction.
LEMMA MarkLiveRefines ==
    ASSUME IInv, NEW p \in Readers, MarkLive(p)
    PROVE  Store!BeginRead(p)
<1>1. /\ reader[p].pc = "idle"
      /\ reader' = [reader EXCEPT ![p] = [NoRead EXCEPT !.pc = "claim", !.since = mti_txnid]]
      /\ UNCHANGED <<history, file, txn, before, mti_txnid, durable, metasync>>
  BY DEF MarkLive, fileVars, lockVars, ghostVars
<1>2. DOMAIN reader = Readers /\ p \in Procs
  BY DEF IInv, EnvInv, Procs
<1>3. /\ reader'[p].pc = "claim" /\ reader'[p].since = mti_txnid
      /\ \A q \in Readers : q # p => reader'[q] = reader[q]
  BY <1>1, <1>2 DEF NoRead
<1>4. /\ Since(p) = 0 /\ Seen(p) = << >>
      /\ Since(p)' = mti_txnid + 1 /\ Seen(p)' = << >>
  BY <1>1, <1>3 DEF Since, Seen
<1>5. \A q \in Procs : q # p => Since(q)' = Since(q) /\ Seen(q)' = Seen(q)
  BY <1>1, <1>3, OthersSee
<1>6. Lows[p] = 0 /\ Views[p] = << >>
  BY <1>2, <1>4 DEF Lows, Views
<1>7. Lows' = [Lows EXCEPT ![p] = mti_txnid + 1] /\ Views' = Views
  BY <1>2, <1>4, <1>5 DEF Lows, Views
<1>8. UNCHANGED <<Versions, mti_txnid + 1, durable + 1, metasync, Working, Outer>>
  BY <1>1, WritesNothing
<1> QED BY <1>6, <1>7, <1>8 DEF Store!BeginRead, Store!NoTxn, Lows, Views

\* Its snapshot.
LEMMA CopySizeRefines ==
    ASSUME IInv, SInv, NEW p \in Readers, CopySize(p)
    PROVE  Store!Snapshot(p)
<1>1. UNCHANGED <<history, file, txn, before, mti_txnid, durable, metasync>>
  BY DEF CopySize, fileVars, lockVars, ghostVars
<1>2. /\ reader[p].pc = "size" /\ reader'[p].pc = "active"
      /\ reader'[p].root = reader[p].root
      /\ \A q \in Readers : q # p => reader'[q] = reader[q]
      /\ SInv'
  BY CopySizeDoes
<1>3. p \in Procs
  BY DEF Procs
<1>4. reader[p].since \in 0..mti_txnid
  BY <1>2 DEF SInv, ReaderInv, ReaderSlot
<1>5. PICK j \in reader[p].since..Last.id : Contents(file, reader[p].root) = history[j]
  BY <1>2 DEF SInv, ReaderInv, ReaderView
<1>6. PagesOf(file, reader'[p].root) \subseteq FirstPage..(reader'[p].next - 1)
  <2>1. ReaderView(reader[p])'
    BY <1>2 DEF SInv, ReaderInv
  <2> QED BY <1>1, <1>2, <2>1 DEF ReaderView
<1>7. /\ Since(p) = reader[p].since + 1 /\ Since(p)' = 0
      /\ Seen(p)' = <<history[j]>>
  BY <1>1, <1>2, <1>5, <1>6 DEF Since, Seen
<1>8. \A q \in Procs : q # p => Since(q)' = Since(q) /\ Seen(q)' = Seen(q)
  BY <1>1, <1>2, OthersSee
<1>9. /\ Len(Versions) = Last.id + 1 /\ Last.id \in Nat /\ mti_txnid \in 0..Last.id
      /\ \A i \in 1..(Last.id + 1) : Versions[i] = history[i - 1]
  BY StoreVersions
<1>10. /\ Lows[p] # 0 /\ j + 1 \in Lows[p]..Len(Versions) /\ Versions[j + 1] = history[j]
  <2>1. Lows[p] = reader[p].since + 1
    BY <1>3, <1>7 DEF Lows
  <2> QED BY <1>4, <1>9, <2>1
<1>11. Lows' = [Lows EXCEPT ![p] = 0] /\ Views' = [Views EXCEPT ![p] = <<Versions[j + 1]>>]
  BY <1>3, <1>7, <1>8, <1>10 DEF Lows, Views
<1>12. UNCHANGED <<Versions, mti_txnid + 1, durable + 1, metasync, Working, Outer>>
  BY <1>1, WritesNothing
<1> QED BY <1>10, <1>11, <1>12 DEF Store!Snapshot, Lows, Views

\* The end of a read transaction, or of one that could not begin.
LEMMA ReadEnds ==
    ASSUME NEW p \in Readers,
           UNCHANGED <<history, file, txn, before, mti_txnid, durable, metasync>>,
           \A q \in Readers : q # p => reader'[q] = reader[q],
           reader'[p].pc = "idle",
           \/ reader[p].pc = "active"
           \/ reader[p].pc = "claim" /\ reader[p].since \in Nat
    PROVE  Store!EndRead(p)
<1>1. p \in Procs
  BY DEF Procs
<1>2. Since(p) # 0 \/ Seen(p) # << >>
  <2>1. CASE reader[p].pc = "active"
    <3>1. \/ Seen(p) = <<Contents(file, reader[p].root)>>
          \/ Seen(p) = <<Garbage>>
      BY <2>1 DEF Seen
    <3>2. \A x : <<x>> # << >>
      OBVIOUS
    <3> QED BY <3>1, <3>2
  <2>2. CASE reader[p].pc = "claim" /\ reader[p].since \in Nat
    <3>1. Since(p) = reader[p].since + 1
      BY <2>2 DEF Since
    <3> QED BY <2>2, <3>1
  <2> QED BY <2>1, <2>2
<1>3. Since(p)' = 0 /\ Seen(p)' = << >>
  BY DEF Since, Seen
<1>4. \A q \in Procs : q # p => Since(q)' = Since(q) /\ Seen(q)' = Seen(q)
  BY OthersSee
<1>5. Lows[p] # 0 \/ Views[p] # << >>
  BY <1>1, <1>2 DEF Lows, Views
<1>6. Lows' = [Lows EXCEPT ![p] = 0] /\ Views' = [Views EXCEPT ![p] = << >>]
  BY <1>1, <1>3, <1>4 DEF Lows, Views
<1>7. UNCHANGED <<Versions, mti_txnid + 1, durable + 1, metasync, Working, Outer>>
  BY WritesNothing
<1> QED BY <1>5, <1>6, <1>7 DEF Store!EndRead, Store!NoTxn, Lows, Views

\* Each step of a reader is one of the store, or none.
LEMMA ReadStepRefines ==
    ASSUME IInv, SInv, NEW p \in Readers, ReadStep(p)
    PROVE  /\ \/ Store!BeginRead(p) \/ Store!Snapshot(p) \/ Store!EndRead(p)
              \/ UNCHANGED Stored
           /\ SInv'
<1>1. /\ DOMAIN reader = Readers
      /\ DOMAIN reader[p] = {"pc", "slot", "txnid", "root", "next", "since"}
  BY DEF IInv, EnvInv
<1>2. CASE MarkLive(p)
  BY <1>2, MarkLiveDoes, MarkLiveRefines
<1>3. CASE CopySize(p)
  BY <1>3, CopySizeDoes, CopySizeRefines
<1>4. CASE ClaimSlot(p)
  <2>1. SInv'
    BY <1>4, ClaimSlotDoes
  <2>2. /\ reader[p].pc = "claim"
        /\ \/ reader' = [reader EXCEPT ![p] = NoRead]
           \/ \E i : reader' = [reader EXCEPT ![p].pc = "load", ![p].slot = i]
        /\ UNCHANGED <<history, file, txn, before, mti_txnid, durable, metasync>>
    BY <1>4 DEF ClaimSlot, fileVars, ghostVars
  <2>3. CASE reader' = [reader EXCEPT ![p] = NoRead]
    <3>1. reader'[p].pc = "idle" /\ \A q \in Readers : q # p => reader'[q] = reader[q]
      BY <1>1, <2>3 DEF NoRead
    <3>2. reader[p].since \in Nat
      <4>1. reader[p].since \in 0..mti_txnid
        BY <2>2 DEF SInv, ReaderInv, ReaderSlot
      <4> QED BY <4>1
    <3> QED BY <2>1, <2>2, <3>1, <3>2, ReadEnds
  <2>4. CASE \E i : reader' = [reader EXCEPT ![p].pc = "load", ![p].slot = i]
    <3>1. /\ reader'[p].pc = "load" /\ reader'[p].since = reader[p].since
          /\ \A q \in Readers : q # p => reader'[q] = reader[q]
      BY <1>1, <2>4
    <3> QED BY <2>1, <2>2, <3>1, ReaderUnseen
  <2> QED BY <2>2, <2>3, <2>4
<1>5. CASE LoadTxnid(p) \/ StoreTxnid(p) \/ CheckTxnid(p) \/ CopyRoots(p)
  <2>1. SInv'
    BY <1>5, LoadTxnidDoes, StoreTxnidDoes, CheckTxnidDoes, CopyRootsDoes
  <2>2. UNCHANGED <<history, file, txn, before, mti_txnid, durable, metasync>>
    BY <1>5 DEF LoadTxnid, StoreTxnid, CheckTxnid, CopyRoots, fileVars, lockVars, ghostVars
  <2>3. /\ reader[p].pc \in {"load", "store", "check", "copy"}
        /\ \/ reader' = [reader EXCEPT ![p].pc = "store", ![p].txnid = mti_txnid]
           \/ \E c \in {"check", "copy", "load"} : reader' = [reader EXCEPT ![p].pc = c]
           \/ \E r : reader' = [reader EXCEPT ![p].pc = "size", ![p].root = r]
    <3>1. CASE LoadTxnid(p)
      BY <3>1 DEF LoadTxnid
    <3>2. CASE StoreTxnid(p)
      BY <3>2 DEF StoreTxnid
    <3>3. CASE CheckTxnid(p)
      BY <3>3 DEF CheckTxnid
    <3>4. CASE CopyRoots(p)
      BY <3>4 DEF CopyRoots
    <3> QED BY <1>5, <3>1, <3>2, <3>3, <3>4
  <2>4. /\ reader'[p].pc \notin {"idle", "active"} /\ reader'[p].since = reader[p].since
        /\ \A q \in Readers : q # p => reader'[q] = reader[q]
    BY <1>1, <2>3
  <2>5. reader[p].pc \notin {"idle", "active"}
    BY <2>3
  <2> QED BY <2>1, <2>2, <2>4, <2>5, ReaderUnseen
<1>6. CASE EndRead(p)
  <2>1. /\ reader[p].pc = "active"
        /\ reader' = [reader EXCEPT ![p] = NoRead]
        /\ UNCHANGED <<history, file, txn, before, mti_txnid, durable, metasync>>
    BY <1>6 DEF EndRead, fileVars, ghostVars
  <2>2. reader'[p].pc = "idle" /\ \A q \in Readers : q # p => reader'[q] = reader[q]
    BY <1>1, <2>1 DEF NoRead
  <2> QED BY <1>6, <2>1, <2>2, EndReadDoes, ReadEnds
<1> QED BY <1>2, <1>3, <1>4, <1>5, <1>6 DEF ReadStep

-----------------------------------------------------------------------------
(* The steps of the writer, in the store.                                  *)

\* Readers see the same while only pages that they do not read are written.
LEMMA ReadersSee ==
    ASSUME reader' = reader, file' = file \/ SeenSame
    PROVE  UNCHANGED <<Lows, Views>>
<1>1. ASSUME NEW q \in Readers, reader[q].pc = "active"
      PROVE  /\ PagesOf(file', reader[q].root) = PagesOf(file, reader[q].root)
             /\ Contents(file', reader[q].root) = Contents(file, reader[q].root)
  BY <1>1 DEF SeenSame
<1>2. \A q \in Procs : Seen(q)' = Seen(q)
  BY <1>1 DEF Seen
<1>3. \A q \in Procs : Since(q)' = Since(q)
  BY DEF Since
<1> QED BY <1>2, <1>3 DEF Lows, Views

\* A step of the writer before its commit.
LEMMA BeforeCommit ==
    ASSUME UNCHANGED <<history, mti_txnid, durable, metasync, reader>>,
           file' = file \/ SeenSame
    PROVE  UNCHANGED <<Versions, mti_txnid + 1, durable + 1, metasync, Lows, Views>>
BY ReadersSee, MapIs, MapIsNext

\* The phases of a write transaction.
LEMMA PhaseOf ==
    ASSUME IInv, txn # NoTxn
    PROVE  txn.pc \in Phases /\ txn.pc # "idle"
<1>1. txn.pc \in Phases
  <2>1. CASE txn.pc = "publish"
    BY <2>1 DEF Phases
  <2>2. CASE txn.pc # "publish"
    BY <2>2 DEF IInv, TxnInv, Alive
  <2> QED BY <2>1, <2>2
<1> QED BY <1>1 DEF Phases

\* What a private step leaves alone.
LEMMA PrivateStore ==
    ASSUME PrivateStep
    PROVE  /\ file' = file
           /\ UNCHANGED <<Versions, mti_txnid + 1, durable + 1, metasync, Lows, Views>>
<1>1. UNCHANGED <<history, mti_txnid, durable, metasync, reader, file>>
  BY DEF PrivateStep, fileVars, lockVars
<1> QED BY <1>1, BeforeCommit

\* An operation begins.
LEMMA StartOpRefines ==
    ASSUME IInv, SInv, NEW p, NEW k \in Keys, NEW op \in {"put", "del"}, StartOp(p, k, op)
    PROVE  UNCHANGED Stored /\ SInv'
<1>1. /\ txn.pc = "ready" /\ before' = Tells(file, txn)
      /\ txn'.depth = txn.depth /\ txn'.parent = txn.parent
      /\ txn'.pc \in {"work", "alloc"} /\ ~ForList(txn') /\ SInv'
  BY StartOpDoes
<1>2. PrivateStep
  BY DEF StartOp
<1>3. /\ file' = file
      /\ UNCHANGED <<Versions, mti_txnid + 1, durable + 1, metasync, Lows, Views>>
  BY <1>2, PrivateStore
<1>4. WorkOf(file, txn, before) = <<Tells(file, txn)>>
  BY <1>1 DEF WorkOf
<1>5. WorkOf(file, txn', before') = <<before'>>
  BY <1>1 DEF WorkOf
<1>6. OuterOf(file, txn') = OuterOf(file, txn)
  BY <1>1 DEF OuterOf
<1> QED BY <1>1, <1>3, <1>4, <1>5, <1>6, MapIs, MapIsNext DEF Stored

\* An operation that goes on or returns.
LEMMA OpRefines ==
    ASSUME IInv, SInv, PrivateStep, before' = before, txn.pc \in {"work", "alloc"}, ~ForList(txn),
           OpDoes(txn, txn', before)
    PROVE  (\E k \in Keys : Store!Write(k)) \/ UNCHANGED Stored
<1>1. /\ txn'.depth = txn.depth /\ txn'.parent = txn.parent /\ txn.key \in Keys
      /\ txn'.pc \in {"ready", "work", "alloc", "scan", "failed"}
      /\ txn'.pc = "ready" => Wrote(file, txn', before, txn.key)
      /\ txn'.pc # "ready" => ~ForList(txn')
  BY DEF OpDoes
<1>2. /\ file' = file
      /\ UNCHANGED <<Versions, mti_txnid + 1, durable + 1, metasync, Lows, Views>>
  BY PrivateStore
<1>3. WorkOf(file, txn, before) = <<before>>
  BY DEF WorkOf
<1>4. OuterOf(file, txn') = OuterOf(file, txn)
  BY <1>1 DEF OuterOf
<1>5. Working = <<before>> /\ Outer' = Outer
  BY <1>2, <1>3, <1>4, MapIs, MapIsNext
<1>6. CASE txn'.pc = "ready"
  <2>1. Working' = <<Tells(file, txn')>>
    <3>1. WorkOf(file, txn', before') = <<Tells(file, txn')>>
      BY <1>6 DEF WorkOf
    <3> QED BY <1>2, <3>1, MapIsNext
  <2>2. Working # << >> /\ Working[1] = before
    BY <1>5
  <2>3. CASE Tells(file, txn') = Without(before, txn.key)
    <3>1. Working' = <<Store!Without(Working[1], txn.key)>>
      BY <2>1, <2>2, <2>3 DEF Without, Store!Without
    <3> QED BY <1>1, <1>2, <1>5, <2>2, <3>1 DEF Store!Write, Store!NoTxn, Lows, Views
  <2>4. CASE \E v \in Stamps : Tells(file, txn') = With(before, txn.key, v)
    <3>1. PICK v \in 1..(2 * MaxTxn) : Tells(file, txn') = With(before, txn.key, v)
      BY <2>4 DEF Stamps
    <3>2. Working' = <<Store!With(Working[1], txn.key, v)>>
      BY <2>1, <2>2, <3>1 DEF With, Store!With
    <3> QED BY <1>1, <1>2, <1>5, <2>2, <3>2 DEF Store!Write, Store!NoTxn, Lows, Views
  <2> QED BY <1>1, <1>6, <2>3, <2>4 DEF Wrote
<1>7. CASE txn'.pc # "ready"
  <2>1. WorkOf(file, txn', before') = <<before>>
    BY <1>1, <1>7 DEF WorkOf
  <2> QED BY <1>2, <1>5, <2>1, MapIsNext DEF Stored
<1> QED BY <1>6, <1>7

\* A round of the save of the free list.
LEMMA SaveRefines ==
    ASSUME file' = file, before' = before, SaveDoes(file, txn, txn'),
           txn.pc \in {"ready", "save"} \/ (txn.pc = "alloc" /\ ForList(txn)),
           UNCHANGED <<history, mti_txnid, durable, metasync, reader>>
    PROVE  UNCHANGED Stored
<1>1. UNCHANGED <<Versions, mti_txnid + 1, durable + 1, metasync, Lows, Views>>
  BY BeforeCommit
<1>2. WorkOf(file, txn, before) = <<Tells(file, txn)>>
  BY DEF WorkOf
<1>3. WorkOf(file, txn', before) = <<Tells(file, txn)>>
  BY DEF WorkOf, SaveDoes
<1>4. OuterOf(file, txn') = << >> /\ OuterOf(file, txn) = << >>
  BY DEF OuterOf, SaveDoes
<1> QED BY <1>1, <1>2, <1>3, <1>4, MapIs, MapIsNext DEF Stored

\* The search for the oldest reader.
LEMMA ScanRefines ==
    ASSUME IInv, SInv, NEW p, ScanSlot(p) \/ EndScan(p)
    PROVE  UNCHANGED Stored /\ SInv'
<1>1. /\ before' = before /\ txn.pc = "scan" /\ txn'.pc \in {"alloc", "scan"}
      /\ Tells(file, txn') = Tells(file, txn)
      /\ txn'.at = txn.at /\ txn'.depth = txn.depth /\ txn'.parent = txn.parent
      /\ SInv'
  <2>1. CASE ScanSlot(p)
    BY <2>1, ScanSlotDoes
  <2>2. CASE EndScan(p)
    BY <2>2, EndScanDoes
  <2> QED BY <2>1, <2>2
<1>2. UNCHANGED <<history, mti_txnid, durable, metasync, reader, file>>
  BY DEF ScanSlot, EndScan, PrivateStep, fileVars, lockVars, ghostVars
<1>3. UNCHANGED <<Versions, mti_txnid + 1, durable + 1, metasync, Lows, Views>>
  BY <1>2, BeforeCommit
<1>4. ForList(txn') <=> ForList(txn)
  BY <1>1 DEF ForList
<1>5. WorkOf(file, txn', before') = WorkOf(file, txn, before)
  BY <1>1, <1>4 DEF WorkOf
<1>6. OuterOf(file, txn') = OuterOf(file, txn)
  BY <1>1 DEF OuterOf
<1> QED BY <1>1, <1>2, <1>3, <1>5, <1>6, MapIs, MapIsNext DEF Stored

\* A nested transaction begins.
LEMMA BeginChildRefines ==
    ASSUME IInv, SInv, NEW p, BeginChild(p)
    PROVE  Store!Nest /\ SInv'
<1>1. /\ before' = before /\ txn.pc = "ready" /\ txn'.pc = "ready"
      /\ txn.depth = 0 /\ txn'.depth = 1
      /\ Tells(file, txn') = Tells(file, txn) /\ Tells(file, txn'.parent) = Tells(file, txn)
      /\ SInv'
  BY BeginChildDoes
<1>2. PrivateStep
  BY DEF BeginChild
<1>3. /\ file' = file
      /\ UNCHANGED <<Versions, mti_txnid + 1, durable + 1, metasync, Lows, Views>>
  BY <1>2, PrivateStore
<1>4. WorkOf(file, txn, before) = <<Tells(file, txn)>> /\ OuterOf(file, txn) = << >>
  BY <1>1 DEF WorkOf, OuterOf
<1>5. WorkOf(file, txn', before') = <<Tells(file, txn)>> /\ OuterOf(file, txn') = <<Tells(file, txn)>>
  BY <1>1 DEF WorkOf, OuterOf
<1>6. Working = <<Tells(file, txn)>> /\ Outer = << >> /\ Working' = Working /\ Outer' = Working
  BY <1>3, <1>4, <1>5, MapIs, MapIsNext
<1>7. Working # << >>
  BY <1>6
<1> QED BY <1>1, <1>3, <1>6, <1>7 DEF Store!Nest, Store!NoTxn, Lows, Views

\* It ends.
LEMMA ChildEndRefines ==
    ASSUME IInv, SInv, NEW p, CommitChild(p) \/ AbortChild(p)
    PROVE  (Store!Keep \/ Store!Undo) /\ SInv'
<1>1. /\ txn.depth = 1 /\ txn.pc \in {"ready", "failed"} /\ txn'.depth = 0
      /\ txn'.pc \in {"ready", "failed"} /\ ~ForList(txn')
      /\ before' = Tells(file, txn')
      /\ \/ Tells(file, txn') = Tells(file, txn) /\ txn.pc = "ready"
         \/ Tells(file, txn') = Tells(file, txn.parent)
      /\ SInv'
  BY ChildEndDoes
<1>2. PrivateStep
  BY DEF CommitChild, AbortChild
<1>3. /\ file' = file
      /\ UNCHANGED <<Versions, mti_txnid + 1, durable + 1, metasync, Lows, Views>>
  BY <1>2, PrivateStore
<1>4. OuterOf(file, txn) = <<Tells(file, txn.parent)>>
  BY <1>1 DEF OuterOf
<1>5. WorkOf(file, txn', before') = <<Tells(file, txn')>> /\ OuterOf(file, txn') = << >>
  BY <1>1 DEF WorkOf, OuterOf
<1>6. /\ Outer = <<Tells(file, txn.parent)>>
      /\ Working' = <<Tells(file, txn')>> /\ Outer' = << >>
  BY <1>3, <1>4, <1>5, MapIs, MapIsNext
<1>7. Outer # << >>
  BY <1>6
<1>8. CASE Tells(file, txn') = Tells(file, txn) /\ txn.pc = "ready"
  <2>1. WorkOf(file, txn, before) = <<Tells(file, txn)>>
    BY <1>8 DEF WorkOf
  <2>2. Working' = Working
    BY <1>6, <1>8, <2>1, MapIs
  <2> QED BY <1>1, <1>3, <1>6, <1>7, <2>2 DEF Store!Keep, Store!NoTxn, Lows, Views
<1>9. CASE Tells(file, txn') = Tells(file, txn.parent)
  BY <1>1, <1>3, <1>6, <1>7, <1>9 DEF Store!Undo, Store!NoTxn, Lows, Views
<1> QED BY <1>1, <1>8, <1>9

\* The write transaction ends without a commit.
LEMMA EndRefines ==
    ASSUME IInv, SInv, NEW p,
           \/ Abort(p) \/ SaveError(p) \/ WriteError(p)
           \/ StartCommit(p) /\ EndTxn
    PROVE  Store!Abort /\ SInv'
<1>1. /\ txn # NoTxn /\ txn.pc # "idle" /\ txn' = NoTxn
      /\ UNCHANGED <<file, meta, history, env, reader, metasync, durable, mti_txnid>>
      /\ SInv'
  BY EndDoes
<1>2. UNCHANGED <<Versions, mti_txnid + 1, durable + 1, metasync, Lows, Views>>
  BY <1>1, BeforeCommit
<1>3. Working' = << >> /\ Outer' = << >>
  BY <1>1, MapIsNext DEF WorkOf, OuterOf, NoTxn
<1>4. Working # << >>
  <2>1. \A x : <<x>> # << >>
    OBVIOUS
  <2>2. WorkOf(file, txn, before) = <<before>> \/ WorkOf(file, txn, before) = <<Tells(file, txn)>>
    BY <1>1 DEF WorkOf
  <2> QED BY <2>1, <2>2, MapIs
<1> QED BY <1>1, <1>2, <1>3, <1>4 DEF Store!Abort, Store!NoTxn, Lows, Views

\* The pages of the commit are written, and synced.
LEMMA FlushRefines ==
    ASSUME IInv, SInv, NEW p, FlushPage(p) \/ Sync(p)
    PROVE  UNCHANGED Stored /\ SInv'
<1>1. /\ before' = before /\ txn.pc \in {"flush", "sync"} /\ txn'.pc \in {"flush", "sync", "meta"}
      /\ txn.depth = 0 /\ txn'.depth = 0
      /\ Tells(file', txn') = Tells(file, txn) /\ (file' = file \/ SeenSame)
      /\ SInv'
  <2>1. CASE FlushPage(p)
    BY <2>1, FlushPageDoes
  <2>2. CASE Sync(p)
    BY <2>2, SyncDoes
  <2> QED BY <2>1, <2>2
<1>2. UNCHANGED <<history, mti_txnid, durable, metasync, reader>>
  BY DEF FlushPage, Sync, lockVars, ghostVars
<1>3. UNCHANGED <<Versions, mti_txnid + 1, durable + 1, metasync, Lows, Views>>
  BY <1>1, <1>2, BeforeCommit
<1>4. WorkOf(file, txn, before) = <<Tells(file, txn)>> /\ OuterOf(file, txn) = << >>
  BY <1>1 DEF WorkOf, OuterOf
<1>5. WorkOf(file', txn', before') = <<Tells(file, txn)>> /\ OuterOf(file', txn') = << >>
  BY <1>1 DEF WorkOf, OuterOf
<1> QED BY <1>1, <1>3, <1>4, <1>5, MapIs, MapIsNext DEF Stored

\* The meta page is written: the version is there.
LEMMA WriteMetaRefines ==
    ASSUME IInv, SInv, IInv', NEW p, WriteMeta(p)
    PROVE  Store!Commit /\ SInv'
<1>1. /\ before' = before /\ file' = file /\ txn.pc = "meta" /\ txn'.pc = "publish"
      /\ txn.depth = 0 /\ txn'.depth = 0 /\ Tells(file, txn') = Tells(file, txn)
      /\ Committed(Last, Last', history, history')
      /\ history'[Last'.id] = Tells(file, txn) /\ mti_txnid = Last.id
      /\ SInv'
  BY WriteMetaDoes
<1>2. UNCHANGED <<mti_txnid, durable, metasync, reader>>
  BY DEF WriteMeta, lockVars
<1>3. UNCHANGED <<Lows, Views>>
  BY <1>1, <1>2, ReadersSee
<1>4. WorkOf(file, txn, before) = <<Tells(file, txn)>> /\ OuterOf(file, txn) = << >>
  BY <1>1 DEF WorkOf, OuterOf
<1>5. WorkOf(file, txn', before') = <<Tells(file, txn)>> /\ OuterOf(file, txn') = << >>
  BY <1>1 DEF WorkOf, OuterOf
<1>6. /\ Working = <<Tells(file, txn)>> /\ Outer = << >> /\ Working' = Working /\ Outer' = Outer
  BY <1>1, <1>4, <1>5, MapIs, MapIsNext
<1>7. VersionsOf(history') = Append(VersionsOf(history), Tells(file, txn))
  BY <1>1, VersionsAppend
<1>8. Working # << >> /\ Working[1] = Tells(file, txn)
  BY <1>6
<1>9. Versions' = Append(Versions, Working[1])
  BY <1>7, <1>8, MapIs, MapIsNext
<1>10. mti_txnid + 1 = Len(Versions)
  BY <1>1, StoreVersions
<1> QED BY <1>1, <1>2, <1>3, <1>6, <1>8, <1>9, <1>10 DEF Store!Commit, Store!NoTxn, Lows, Views

\* Its number is published: the commit returns.
LEMMA PublishRefines ==
    ASSUME IInv, SInv, NEW p, Publish(p)
    PROVE  Store!Publish /\ SInv'
<1>1. /\ txn.pc = "publish" /\ txn.depth = 0 /\ txn' = NoTxn /\ mti_txnid' = Last.id
      /\ UNCHANGED <<file, meta, history, env, reader, metasync>>
      /\ durable' = (IF metasync THEN Last.id ELSE durable)
      /\ SInv'
  BY PublishDoes
<1>2. UNCHANGED <<Versions, Lows, Views>>
  BY <1>1, ReadersSee, MapIs, MapIsNext
<1>3. Working' = << >> /\ Outer' = << >>
  BY <1>1, MapIsNext DEF WorkOf, OuterOf, NoTxn
<1>4. Outer = << >>
  BY <1>1, MapIs DEF OuterOf
<1>5. Len(Versions) = Last.id + 1
  BY StoreVersions
<1>6. durable' + 1 = IF metasync THEN Len(Versions) ELSE durable + 1
  BY <1>1, <1>5
<1> QED BY <1>1, <1>2, <1>3, <1>4, <1>5, <1>6 DEF Store!Publish, Store!NoTxn, Lows, Views

\* mdb_txn_begin, a write transaction.
LEMMA BeginWriteRefines ==
    ASSUME IInv, SInv, NEW p \in Writers, BeginWrite(p)
    PROVE  Store!BeginWrite /\ SInv'
<1>1. /\ txn = NoTxn /\ txn'.pc = "ready" /\ txn'.depth = 0 /\ mti_txnid' = Last.id
      /\ UNCHANGED <<file, meta, history, env, reader, metasync, durable>>
      /\ Tells(file, txn') = history[Last.id]
      /\ SInv'
  BY BeginWriteDoes
<1>2. UNCHANGED <<Versions, Lows, Views>>
  BY <1>1, ReadersSee, MapIs, MapIsNext
<1>3. Working = << >> /\ Outer = << >>
  BY <1>1, MapIs DEF WorkOf, OuterOf, NoTxn
<1>4. WorkOf(file, txn', before') = <<history[Last.id]>> /\ OuterOf(file, txn') = << >>
  BY <1>1 DEF WorkOf, OuterOf
<1>5. Working' = <<history[Last.id]>> /\ Outer' = << >>
  BY <1>1, <1>4, MapIsNext
<1>6. Len(Versions) = Last.id + 1 /\ Versions[Last.id + 1] = history[Last.id]
  <2>1. /\ Len(Versions) = Last.id + 1 /\ Last.id \in Nat
        /\ \A i \in 1..(Last.id + 1) : Versions[i] = history[i - 1]
    BY StoreVersions
  <2>2. Last.id + 1 \in 1..(Last.id + 1) /\ (Last.id + 1) - 1 = Last.id
    BY <2>1
  <2> QED BY <2>1, <2>2
<1> QED BY <1>1, <1>2, <1>3, <1>5, <1>6 DEF Store!BeginWrite, Store!NoTxn, Lows, Views

-----------------------------------------------------------------------------
(* The steps of processes and of the machine, in the store.                *)

\* A process suspects another, and clears its slots.
LEMMA StaleRefines ==
    ASSUME IInv, SInv, NEW p \in Procs, NEW q, Suspect(p, q) \/ ClearStale(p)
    PROVE  UNCHANGED Stored /\ SInv'
<1>1. UNCHANGED <<history, mti_txnid, durable, metasync, reader, file, txn, before>>
  BY DEF Suspect, ClearStale, fileVars, lockVars, ghostVars
<1> QED BY <1>1, BeforeCommit, WritesNothing, StaleDoes DEF Stored

\* A process dies.
LEMMA DieRefines ==
    ASSUME IInv, SInv, NEW p \in Procs, Die(p)
    PROVE  Store!Die(p) /\ SInv'
<1>1. /\ UNCHANGED <<file, meta, history, mti_txnid, metasync, durable>>
      /\ (txn' = txn /\ before' = before) \/ txn' = NoTxn
      /\ p \in Readers => reader'[p].pc = "idle"
      /\ \A q \in Readers : q # p => reader'[q] = reader[q]
      /\ SInv'
  BY DieDoes
<1>2. Since(p)' = 0 /\ Seen(p)' = << >>
  BY <1>1 DEF Since, Seen
<1>3. \A q \in Procs : q # p => Since(q)' = Since(q) /\ Seen(q)' = Seen(q)
  BY <1>1, OthersSee
<1>4. Lows' = [Lows EXCEPT ![p] = 0] /\ Views' = [Views EXCEPT ![p] = << >>]
  BY <1>2, <1>3 DEF Lows, Views
<1>5. UNCHANGED <<Working, Outer>> \/ (Working' = << >> /\ Outer' = << >>)
  <2>1. CASE txn' = txn /\ before' = before
    BY <1>1, <2>1, MapIs, MapIsNext
  <2>2. CASE txn' = NoTxn
    BY <2>2, MapIsNext DEF WorkOf, OuterOf, NoTxn
  <2> QED BY <1>1, <2>1, <2>2
<1>6. UNCHANGED Versions
  BY <1>1, MapIs, MapIsNext
<1> QED BY <1>1, <1>4, <1>5, <1>6 DEF Store!Die, Store!NoTxn, Lows, Views

\* mdb_env_open.
LEMMA OpenRefines ==
    ASSUME IInv, SInv, IInv', NEW p \in Procs, Open(p)
    PROVE  (Store!Repair \/ UNCHANGED Stored) /\ SInv'
<1>1. /\ UNCHANGED <<file, meta, history, metasync, durable, reader, txn, before>>
      /\ mti_txnid' \in {mti_txnid, Last.id}
      /\ SInv'
  BY OpenDoes
<1>2. UNCHANGED <<Versions, durable + 1, metasync, Lows, Views, Working, Outer>>
  BY <1>1, ReadersSee, WritesNothing
<1>3. Len(Versions) = Last.id + 1
  BY StoreVersions
<1>4. CASE mti_txnid' = mti_txnid
  BY <1>1, <1>2, <1>4 DEF Stored
<1>5. CASE mti_txnid' = Last.id
  BY <1>1, <1>2, <1>3, <1>5 DEF Store!Repair, Lows, Views
<1> QED BY <1>1, <1>4, <1>5

\* The machine stops.
LEMMA CrashRefines ==
    ASSUME IInv, IInv', Crash
    PROVE  Store!Crash /\ SInv'
<1>1. /\ txn' = NoTxn /\ mti_txnid' = Last'.id
      /\ \A q \in Readers : reader'[q].pc = "idle"
      /\ SInv'
  BY CrashDoes
<1>2. UNCHANGED <<metasync, durable>>
  BY DEF Crash
<1>3. Lows' = [p \in Procs |-> 0] /\ Views' = [p \in Procs |-> << >>]
  BY <1>1 DEF Lows, Views, Since, Seen
<1>4. Working' = << >> /\ Outer' = << >>
  BY <1>1, MapIsNext DEF WorkOf, OuterOf, NoTxn
<1>5. PICK m \in AfterStop(metaDisk) :
         /\ meta' = m
         /\ history' = [t \in {h \in DOMAIN history : h <= PickMeta(m).id} |-> history[t]]
  BY DEF Crash
<1>6. Last' = PickMeta(m)
  BY <1>5 DEF Last
<1>7. /\ Last.id \in Nat /\ DOMAIN history = 0..Last.id
      /\ Last'.id \in {Last.id, Last.id - 1} /\ Last'.id \in Nat
  <2>1. \/ PickMeta(m) = Last
        \/ PickMeta(m) = Other /\ Last.id > 0
    BY StopMetas DEF IInv
  <2>2. /\ Last.id \in Nat /\ DOMAIN history = 0..Last.id
        /\ Last.id # 0 => Other.id = Last.id - 1
    BY TwoMetas DEF IInv, MetaInv
  <2>3. Last'.id \in {Last.id, Last.id - 1} /\ Last'.id \in Nat
    BY <1>6, <2>1, <2>2
  <2> QED BY <2>2, <2>3
<1>8. durable <= Last'.id /\ durable \in Int
  <2>1. durable' \in 0..Last'.id
    BY DEF IInv, MetaInv
  <2> QED BY <1>2, <2>1
<1> DEFINE n == Last'.id
<1>9. n \in 0..Last.id
  BY <1>7
<1>10. DOMAIN history' = 0..n /\ \A k \in 0..n : history'[k] = history[k]
  <2>1. DOMAIN history' = {h \in 0..Last.id : h <= n}
    BY <1>5, <1>6, <1>7
  <2>2. {h \in 0..Last.id : h <= n} = 0..n
    BY <1>7, <1>9
  <2> QED BY <1>5, <1>6, <2>1, <2>2
<1> HIDE DEF n
<1>11. VersionsOf(history') = SubSeq(VersionsOf(history), 1, n + 1)
  BY <1>7, <1>9, <1>10, VersionsCut
<1>12. Versions' = SubSeq(Versions, 1, n + 1)
  BY <1>11, MapIs, MapIsNext
<1>13. Len(Versions) = Last.id + 1
  BY StoreVersions
<1>14. /\ n + 1 \in {Len(Versions) - 1, Len(Versions)} /\ n + 1 >= 1 /\ n + 1 >= durable + 1
       /\ mti_txnid' + 1 = n + 1
  BY <1>1, <1>7, <1>8, <1>13 DEF n
<1> QED BY <1>1, <1>2, <1>3, <1>4, <1>12, <1>14 DEF Store!Crash, Store!NoTxn, Lows, Views

-----------------------------------------------------------------------------
(* Results.                                                                *)

\* The environment when it is created is an empty store.
LEMMA InitRefines == Init => Store!Init
<1> SUFFICES ASSUME Init
             PROVE  Store!Init
  OBVIOUS
<1>1. /\ mti_txnid = 0 /\ durable = 0 /\ metasync \in BOOLEAN /\ txn = NoTxn
      /\ history = With(EmptyMap, 0, EmptyMap)
      /\ \A q \in Readers : reader[q].pc = "idle"
  BY DEF Init, NoRead
<1>2. DOMAIN history = 0..0 /\ history[0] = EmptyMap
  <2>1. DOMAIN history = {0} /\ history[0] = EmptyMap
    BY <1>1 DEF With, EmptyMap
  <2>2. 0..0 = {0}
    OBVIOUS
  <2> QED BY <2>1, <2>2
<1>3. Versions = <<EmptyMap>>
  <2>1. /\ VersionsOf(history) \in Seq({history[k] : k \in 0..0}) /\ Len(VersionsOf(history)) = 0 + 1
        /\ \A i \in 1..(0 + 1) : VersionsOf(history)[i] = history[i - 1]
    BY <1>2, VersionsAre
  <2>2. VersionsOf(history)[1] = EmptyMap /\ Len(VersionsOf(history)) = 1
    BY <1>2, <2>1
  <2>3. VersionsOf(history) = <<EmptyMap>>
    BY <2>1, <2>2
  <2> QED BY <2>3, MapIs
<1>4. EmptyMap = Store!Nothing
  BY DEF EmptyMap, Store!Nothing
<1>5. Lows = [p \in Procs |-> 0] /\ Views = [p \in Procs |-> << >>]
  BY <1>1 DEF Lows, Views, Since, Seen
<1>6. Working = << >> /\ Outer = << >>
  BY <1>1, MapIs DEF WorkOf, OuterOf, NoTxn
<1> QED BY <1>1, <1>3, <1>4, <1>5, <1>6 DEF Store!Init, Store!NoTxn, Lows, Views

\* Each step of the writer is one of the store, or none.
LEMMA WriterRefines ==
    ASSUME IInv, SInv, IInv', NEW p \in Writers,
           \/ BeginWrite(p)
           \/ \E k \in bound.keys, op \in {"put", "del"} : StartOp(p, k, op)
           \/ BeginChild(p) \/ CommitChild(p) \/ AbortChild(p)
           \/ StartCommit(p)
           \/ Abort(p)
           \/ WriteError(p)
           \/ WriteStep(p)
    PROVE  (Store!Next \/ UNCHANGED Stored) /\ SInv'
<1>1. CASE BeginWrite(p)
  BY <1>1, BeginWriteRefines DEF Store!Next
<1>2. CASE \E k \in bound.keys, op \in {"put", "del"} : StartOp(p, k, op)
  <2>1. PICK k \in bound.keys, op \in {"put", "del"} : StartOp(p, k, op)
    BY <1>2
  <2>2. k \in Keys
    BY LmdbAssumption DEF IInv, EnvInv
  <2> QED BY <2>1, <2>2, StartOpRefines
<1>3. CASE BeginChild(p)
  BY <1>3, BeginChildRefines DEF Store!Next
<1>4. CASE CommitChild(p) \/ AbortChild(p)
  BY <1>4, ChildEndRefines DEF Store!Next
<1>5. CASE \/ Abort(p) \/ SaveError(p) \/ WriteError(p)
           \/ StartCommit(p) /\ EndTxn
  BY <1>5, EndRefines DEF Store!Next
<1>6. CASE (StartCommit(p) /\ ~EndTxn) \/ SaveFreelist(p)
  <2>1. /\ before' = before /\ txn.pc \in {"ready", "save"} /\ SaveDoes(file, txn, txn') /\ SInv'
    BY <1>6, SaveRoundDoes
  <2>2. UNCHANGED <<history, mti_txnid, durable, metasync, reader, file>>
    BY <1>6 DEF StartCommit, SaveFreelist, PrivateStep, fileVars, lockVars
  <2> QED BY <2>1, <2>2, SaveRefines
<1>7. CASE DoOp(p)
  <2>1. /\ txn.pc = "work" /\ ~ForList(txn) /\ before' = before
        /\ OpDoes(txn, txn', before) /\ SInv'
    BY <1>7, DoOpDoes
  <2>2. PrivateStep
    BY <1>7 DEF DoOp
  <2> QED BY <2>1, <2>2, OpRefines DEF Store!Next
<1>8. CASE AllocStep(p)
  <2>1. PrivateStep /\ before' = before /\ txn.pc = "alloc"
    BY <1>8 DEF AllocStep
  <2>2. CASE ForList(txn)
    <3>1. SaveDoes(file, txn, txn') /\ SInv'
      BY <1>8, <2>2, AllocSaveDoes
    <3>2. UNCHANGED <<history, mti_txnid, durable, metasync, reader, file>>
      BY <2>1 DEF PrivateStep, fileVars, lockVars
    <3> QED BY <2>1, <2>2, <3>1, <3>2, SaveRefines
  <2>3. CASE ~ForList(txn)
    <3>1. OpDoes(txn, txn', before) /\ SInv'
      BY <1>8, <2>3, AllocOpDoes
    <3> QED BY <2>1, <2>3, <3>1, OpRefines DEF Store!Next
  <2> QED BY <2>2, <2>3
<1>9. CASE ScanSlot(p) \/ EndScan(p)
  BY <1>9, ScanRefines
<1>10. CASE FlushPage(p) \/ Sync(p)
  BY <1>10, FlushRefines
<1>11. CASE WriteMeta(p)
  BY <1>11, WriteMetaRefines DEF Store!Next
<1>12. CASE Publish(p)
  BY <1>12, PublishRefines DEF Store!Next
<1> QED
  BY <1>1, <1>2, <1>3, <1>4, <1>5, <1>6, <1>7, <1>8, <1>9, <1>10, <1>11, <1>12 DEF WriteStep

\* Each step is one of the store, or none.
LEMMA StepRefines ==
    IInv /\ IInv' /\ SInv /\ [Next]_vars => [Store!Next]_Stored /\ SInv'
<1> SUFFICES ASSUME IInv, IInv', SInv, [Next]_vars
             PROVE  (Store!Next \/ UNCHANGED Stored) /\ SInv'
  OBVIOUS
<1>1. CASE \E p \in bound.readers : ReadStep(p)
  <2>1. PICK p \in bound.readers : ReadStep(p)
    BY <1>1
  <2>2. p \in Readers /\ p \in Procs
    <3>1. bound.readers \subseteq Readers
      BY LmdbAssumption DEF IInv, EnvInv
    <3> QED BY <3>1 DEF Procs
  <2> QED BY <2>1, <2>2, ReadStepRefines DEF Store!Next
<1>2. CASE \E p, q \in Procs : Suspect(p, q)
  BY <1>2, StaleRefines
<1>3. CASE \E p \in Procs : ClearStale(p) \/ Die(p) \/ Open(p)
  BY <1>3, StaleRefines, DieRefines, OpenRefines DEF Store!Next
<1>4. CASE Crash
  BY <1>4, CrashRefines DEF Store!Next
<1>5. CASE UNCHANGED vars
  <2>1. /\ UNCHANGED <<history, mti_txnid, durable, metasync, reader, file, txn, before>>
        /\ UNCHANGED <<meta, slots, env, ownerDied>>
    BY <1>5 DEF vars, fileVars, lockVars, ghostVars
  <2>2. UNCHANGED Stored
    BY <2>1, BeforeCommit, WritesNothing DEF Stored
  <2>3. SInv'
    <3>1. Last' = Last
      BY <2>1 DEF Last
    <3>2. ReaderInv'
      BY <2>1, <3>1 DEF SInv, ReaderInv, ReaderSlot, ReaderPins, ReaderView, NoneOlder
    <3>3. PublishedInv' /\ WriterInv' /\ WorkInv'
      BY <2>1, <3>1 DEF SInv, PublishedInv, NoneOlder, WriterInv, WorkInv
    <3> QED BY <3>2, <3>3 DEF SInv
  <2> QED BY <2>2, <2>3
<1>6. CASE \E p \in Writers :
              \/ BeginWrite(p)
              \/ \E k \in bound.keys, op \in {"put", "del"} : StartOp(p, k, op)
              \/ BeginChild(p) \/ CommitChild(p) \/ AbortChild(p)
              \/ StartCommit(p)
              \/ Abort(p)
              \/ WriteError(p)
              \/ WriteStep(p)
  BY <1>6, WriterRefines
<1> QED BY <1>1, <1>2, <1>3, <1>4, <1>5, <1>6 DEF Next

\* The transactions of mdb.c implement a store of versions: a reader sees one
\* version, whole and unchanging, not older than the last that was published when
\* it began; a writer starts from the last version, also after the death of one
\* that had not published it; what a nested transaction did is kept or undone as
\* a whole; and a stop loses the last version at most, and none that was synced.
THEOREM StoreImplemented == Spec => ImplementsStore
<1>1. Spec => [](IInv /\ SInv)
  BY InvariantHolds, InitSInv, StepRefines, PTL DEF Spec
<1>2. IInv /\ IInv' /\ SInv /\ [Next]_vars => [Store!Next]_(Store!vars)
  BY StepRefines DEF Store!vars, Stored, Lows, Views
<1> QED
  BY InitRefines, <1>1, <1>2, PTL
     DEF Spec, ImplementsStore, Store!Spec
=============================================================================

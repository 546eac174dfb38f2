------------------------------ MODULE LmdbTxn ------------------------------
(***************************************************************************)
(* The transactions of an LMDB environment (ocaml-lmdb/src/mdb.c): one     *)
(* file with two meta pages, a lock file shared by the processes that have *)
(* the environment open, read transactions that take no lock once they     *)
(* have a slot of the readers' table, and one write transaction at a time, *)
(* under a robust mutex.  Writers never overwrite a page a reader can see: *)
(* they copy pages and reuse old ones once no reader is old enough.        *)
(*                                                                         *)
(* A step of a writer that touches shared memory or the file is an action; *)
(* what it does to its own pages is in LmdbPages.  A process may die at    *)
(* any point, and the machine may stop: then each page of the file is any  *)
(* of its versions written since the last time it was known to be on disk. *)
(***************************************************************************)
EXTENDS LmdbPages, Sequences

CONSTANTS
    Readers,     \* processes with read transactions, one at a time each
    Writers,     \* processes with write transactions
    Keys,
    None,        \* no process, no transaction
    MaxPg,       \* me_maxpg, the size of the map in pages
    MaxTxn,      \* bound: the last transaction to begin
    Bounds       \* bounds of a behaviour, one of which is chosen for each:
                 \* readers, size of their table (slots, me_maxreaders), keys,
                 \* operations of a write transaction (ops), transactions
                 \* nested in it (nests), and faults, that is failures to write
                 \* or sync the pages of a commit, deaths of processes and
                 \* stops of the machine

Procs == Readers \cup Writers

ASSUME LmdbAssumption ==
    /\ MaxPg \in Nat
    /\ MaxPg > FirstPage
    /\ MaxTxn \in Nat
    /\ Bounds \subseteq [readers : SUBSET Readers, slots : Nat,
                         keys : SUBSET Keys, ops : Nat, nests : Nat,
                         faults : Nat]
    /\ None \notin Procs

VARIABLES
    file,       \* page -> what the page cache holds
    meta,       \* the two meta pages in the page cache
    disk,       \* page -> what the disk may hold after a stop
    metaDisk,   \* the same for the two meta pages
    mti_txnid,  \* the last transaction published in the lock file
    slots,      \* the readers' table, mti_numreaders long
    wmutex,     \* who holds the writers' mutex
    ownerDied,  \* its holder died
    env,        \* process -> its MDB_env
    reader,     \* process -> its read transaction
    txn,        \* the write transaction of wmutex
    metasync,   \* the environment is not opened with MDB_NOMETASYNC
    history,    \* ghost: transaction -> the contents it committed
    durable,    \* ghost: the last transaction whose commit was synchronous
    before,     \* ghost: contents at the beginning of the operation under way
    bound,      \* ghost: the bounds of this behaviour
    faults      \* ghost: how many faults happened

fileVars == <<file, meta, disk, metaDisk>>
lockVars == <<mti_txnid, slots, wmutex, ownerDied>>
ghostVars == <<history, durable, before, bound>>
vars == <<fileVars, lockVars, env, reader, txn, metasync, ghostVars, faults>>

Pages == FirstPage..(MaxPg - 1)

\* mr_txnid of a slot without transaction, (txnid_t)-1: above every other.
Idle == MaxTxn + 1

(***************************************************************************)
(* Meta pages.                                                             *)
(***************************************************************************)
EmptyMeta == [id |-> 0, root |-> NoPage, froot |-> NoPage, last |-> FirstPage - 1]

\* mdb_env_pick_meta: the meta page of the larger transaction.
PickMeta(m) == IF m[0].id < m[1].id THEN m[1] ELSE m[0]

Closed == [open |-> FALSE, live |-> FALSE, pgoldest |-> 0, suspect |-> None]
NoRead == [pc |-> "idle", slot |-> 0, txnid |-> 0, root |-> NoPage, next |-> 0,
           since |-> 0]
NoTxn == [pc |-> "idle"]

Init ==
    /\ file = [pg \in Pages |-> Unwritten]
    /\ disk = [pg \in Pages |-> {Unwritten}]
    /\ meta = [i \in 0..1 |-> EmptyMeta]
    /\ metaDisk = [i \in 0..1 |-> {EmptyMeta}]
    /\ mti_txnid = 0
    /\ slots = <<>>
    /\ wmutex = None
    /\ ownerDied = FALSE
    /\ env = [p \in Procs |-> [Closed EXCEPT !.open = TRUE]]
    /\ reader = [p \in Readers |-> NoRead]
    /\ txn = NoTxn
    /\ metasync \in BOOLEAN
    /\ history = With(EmptyMap, 0, EmptyMap)
    /\ durable = 0
    /\ before = EmptyMap
    /\ bound \in Bounds
    /\ faults = 0

(***************************************************************************)
(* mdb_txn_renew0, a read transaction.  The process first marks itself     *)
(* alive (mdb_reader_pid), once; then it claims a slot under the readers'  *)
(* mutex; then it stores the last transaction in its slot, and does so     *)
(* again until that is still the last one afterwards (ITS#7970); then it   *)
(* copies the roots and the size of the file from the meta page, which two *)
(* later transactions may have rewritten by then.                          *)
(***************************************************************************)
MarkLive(p) ==
    /\ env[p].open
    /\ reader[p].pc = "idle"
    /\ env' = [env EXCEPT ![p].live = TRUE]
    /\ reader' = [reader EXCEPT ![p] = [NoRead EXCEPT !.pc = "claim",
                                                      !.since = mti_txnid]]
    /\ UNCHANGED <<fileVars, lockVars, txn, metasync, ghostVars, faults>>

\* A mistake: one slot too many.
FullByOne(i) == i > bound.slots + 1

Full(i) == i > bound.slots

FreeSlots == {i \in DOMAIN slots : slots[i].pid = None}

ClaimSlot(p) ==
    LET i == IF FreeSlots # {} THEN Min(FreeSlots) ELSE Len(slots) + 1
        claimed == [pid |-> p, txnid |-> Idle]
    IN /\ reader[p].pc = "claim"
       /\ IF Full(i)  \* MDB_READERS_FULL
          THEN /\ reader' = [reader EXCEPT ![p] = NoRead]
               /\ UNCHANGED slots
          ELSE /\ reader' = [reader EXCEPT ![p].pc = "load", ![p].slot = i]
               /\ slots' = IF i > Len(slots) THEN Append(slots, claimed)
                           ELSE [slots EXCEPT ![i] = claimed]
       /\ UNCHANGED <<fileVars, mti_txnid, wmutex, ownerDied, env, txn, metasync,
                      ghostVars, faults>>

LoadTxnid(p) ==
    /\ reader[p].pc = "load"
    /\ reader' = [reader EXCEPT ![p].pc = "store", ![p].txnid = mti_txnid]
    /\ UNCHANGED <<fileVars, lockVars, env, txn, metasync, ghostVars, faults>>

StoreTxnid(p) ==
    /\ reader[p].pc = "store"
    /\ slots' = [slots EXCEPT ![reader[p].slot].txnid = reader[p].txnid]
    /\ reader' = [reader EXCEPT ![p].pc = "check"]
    /\ UNCHANGED <<fileVars, mti_txnid, wmutex, ownerDied, env, txn, metasync,
                   ghostVars, faults>>

CheckTxnid(p) ==
    /\ reader[p].pc = "check"
    /\ reader' = [reader EXCEPT ![p].pc =
                    IF slots[reader[p].slot].txnid = mti_txnid THEN "copy" ELSE "load"]
    /\ UNCHANGED <<fileVars, lockVars, env, txn, metasync, ghostVars, faults>>

CopyRoots(p) ==
    /\ reader[p].pc = "copy"
    /\ reader' = [reader EXCEPT ![p].pc = "size",
                                ![p].root = meta[reader[p].txnid % 2].root]
    /\ UNCHANGED <<fileVars, lockVars, env, txn, metasync, ghostVars, faults>>

CopySize(p) ==
    /\ reader[p].pc = "size"
    /\ reader' = [reader EXCEPT ![p].pc = "active", ![p].since = 0,
                                ![p].next = meta[reader[p].txnid % 2].last + 1]
    /\ UNCHANGED <<fileVars, lockVars, env, txn, metasync, ghostVars, faults>>

(***************************************************************************)
(* mdb_txn_end of a read transaction.  With MDB_NOTLS, the flag of the     *)
(* stores of tezos-modded, the slot is given back with the transaction.    *)
(***************************************************************************)
EndRead(p) ==
    /\ reader[p].pc = "active"
    /\ slots' = [slots EXCEPT ![reader[p].slot] = [pid |-> None, txnid |-> Idle]]
    /\ reader' = [reader EXCEPT ![p] = NoRead]
    /\ UNCHANGED <<fileVars, mti_txnid, wmutex, ownerDied, env, txn, metasync,
                   ghostVars, faults>>

(***************************************************************************)
(* mdb_reader_check: a process that finds a slot of another process whose  *)
(* mark of life is gone (suspect) takes the readers' mutex, asks again     *)
(* since a new process may have the same pid, and clears its slots.        *)
(***************************************************************************)
Holding(q) == {i \in DOMAIN slots : slots[i].pid = q}

Cleared(q) == [i \in DOMAIN slots |->
                 IF slots[i].pid = q THEN [slots[i] EXCEPT !.pid = None]
                 ELSE slots[i]]

Suspect(p, q) ==
    /\ env[p].open
    /\ env[p].suspect = None
    /\ p # q
    /\ Holding(q) # {}
    /\ ~env[q].live
    /\ env' = [env EXCEPT ![p].suspect = q]
    /\ UNCHANGED <<fileVars, lockVars, reader, txn, metasync, ghostVars, faults>>

\* A mistake: the process is not asked again under the mutex.
DeadBefore(q) == TRUE

StillDead(q) == ~env[q].live

ClearStale(p) ==
    LET victim == env[p].suspect
    IN /\ victim # None
       /\ slots' = IF StillDead(victim) THEN Cleared(victim) ELSE slots
       /\ env' = [env EXCEPT ![p].suspect = None]
       /\ UNCHANGED <<fileVars, mti_txnid, wmutex, ownerDied, reader, txn,
                      metasync, ghostVars, faults>>

(***************************************************************************)
(* mdb_txn_renew0, a write transaction: the next number, and the roots of  *)
(* the meta page of the one before.  If the holder of the mutex died,      *)
(* mdb_mutex_failed first brings mti_txnid up to date with the meta pages, *)
(* and clears the slots of dead readers.                                   *)
(***************************************************************************)
NewTxn(id) ==
    LET m == meta[(id - 1) % 2]
    IN  [pc |-> "ready", at |-> "", id |-> id, depth |-> 0, parent |-> NoTxn,
         under |-> EmptyMap, stamp |-> id, root |-> m.root, froot |-> m.froot,
         next |-> m.last + 1, dirty |-> EmptyMap, freed |-> {},
         hasHead |-> FALSE, head |-> {}, last |-> 0,
         found |-> FALSE, oldest |-> 0, slot |-> 0, key |-> None, op |-> "", ops |-> 0, nests |-> 0,
         step |-> "", done |-> 0, count |-> 0, headId |-> 0, room |-> 0, more |-> 0,
         left |-> {}]

\* A mistake: the lock file is left as the dead writer left it.
UnrepairedTxnid == mti_txnid

RepairedTxnid == PickMeta(meta).id

BeginWrite(p) ==
    LET id == (IF ownerDied THEN RepairedTxnid ELSE mti_txnid) + 1
    IN /\ env[p].open
       /\ wmutex = None
       /\ id <= MaxTxn
       /\ wmutex' = p
       /\ ownerDied' = FALSE
       /\ mti_txnid' = id - 1
       /\ slots' = IF ownerDied
                   THEN [i \in DOMAIN slots |->
                           LET owner == slots[i].pid
                           IN  IF owner # None /\ owner # p /\ ~env[owner].live
                               THEN [slots[i] EXCEPT !.pid = None] ELSE slots[i]]
                   ELSE slots
       /\ txn' = NewTxn(id)
       /\ before' = Contents(file, txn'.root)
       /\ UNCHANGED <<fileVars, env, reader, metasync, history, durable, bound, faults>>

(***************************************************************************)
(* Operations of the write transaction.  Each starts by making the root of *)
(* the main database writable.                                             *)
(***************************************************************************)
MyTxn(p) == wmutex = p /\ txn.pc # "idle"

\* The page wanted is for the free list.
Saving == txn.at \in {"freedb", "new freedb"}

PrivateStep == UNCHANGED <<fileVars, lockVars, env, reader, metasync, history,
                           durable, bound, faults>>

StartOp(p, k, op) ==
    /\ MyTxn(p)
    /\ txn.pc = "ready"
    /\ txn.ops < bound.ops
    /\ op = "del" => /\ txn.root # NoPage
                     /\ k \in DOMAIN Own(txn, file)[txn.root].ov
    /\ txn' = TouchRoot([txn EXCEPT !.key = k, !.op = op, !.ops = @ + 1, !.pc = "work"])
    /\ before' = Contents(Own(txn, file), txn.root)
    /\ PrivateStep

DoOp(p) ==
    /\ MyTxn(p)
    /\ txn.pc = "work"
    /\ txn' = IF txn.op = "put" THEN PutValue(txn) ELSE DelValue(txn)
    /\ UNCHANGED before
    /\ PrivateStep

AllocStep(p) ==
    /\ MyTxn(p)
    /\ txn.pc = "alloc"
    /\ txn' = Alloc(txn, file, env[p].pgoldest, MaxPg, Len(slots))
    /\ UNCHANGED before
    /\ PrivateStep

(***************************************************************************)
(* mdb_find_oldest: without the mutex, slot by slot, from the last one the *)
(* table had when the search began.                                        *)
(***************************************************************************)
\* A mistake: readers are not looked at.
NotOlder(oldest, s) == oldest

Older(oldest, s) == IF s.pid # None THEN Min({oldest, s.txnid}) ELSE oldest

ScanSlot(p) ==
    /\ MyTxn(p)
    /\ txn.pc = "scan"
    /\ txn.slot > 0
    /\ txn' = [txn EXCEPT !.oldest = Older(@, slots[txn.slot]), !.slot = @ - 1]
    /\ UNCHANGED before
    /\ PrivateStep

EndScan(p) ==
    /\ MyTxn(p)
    /\ txn.pc = "scan"
    /\ txn.slot = 0
    /\ env' = [env EXCEPT ![p].pgoldest = txn.oldest]
    /\ txn' = [txn EXCEPT !.pc = "alloc", !.found = TRUE]
    /\ UNCHANGED <<fileVars, lockVars, reader, metasync, ghostVars, faults>>

(***************************************************************************)
(* Nested transactions, at most one at a time here.  A child that could    *)
(* not get a page fails its parent as well if it is committed.             *)
(***************************************************************************)
BeginChild(p) ==
    /\ MyTxn(p)
    /\ txn.pc = "ready"
    /\ txn.depth = 0
    /\ txn.nests < bound.nests
    /\ txn' = Child([txn EXCEPT !.nests = @ + 1], MaxTxn + txn.id)
    /\ UNCHANGED before
    /\ PrivateStep

CommitChild(p) ==
    /\ MyTxn(p)
    /\ txn.depth > 0
    /\ txn.pc \in {"ready", "failed"}
    /\ txn' = IF txn.pc = "ready" THEN ChildCommitted(txn)
              ELSE ChildAborted(txn, "failed")
    /\ before' = Contents(Own(txn', file), txn'.root)
    /\ PrivateStep

AbortChild(p) ==
    /\ MyTxn(p)
    /\ txn.depth > 0
    /\ txn.pc \in {"ready", "failed"}
    /\ txn' = ChildAborted(txn, "ready")
    /\ before' = Contents(Own(txn', file), txn'.root)
    /\ PrivateStep

(***************************************************************************)
(* mdb_txn_end of a write transaction.                                     *)
(***************************************************************************)
EndTxn ==
    /\ txn' = NoTxn
    /\ wmutex' = None
    /\ before' = EmptyMap

\* mdb_txn_abort, by the program, or by mdb_txn_commit if an operation of the
\* program could not get a page (MDB_TXN_ERROR).
Abort(p) ==
    /\ MyTxn(p)
    /\ \/ txn.pc = "ready"
       \/ txn.pc = "failed" /\ ~Saving
    /\ EndTxn
    /\ UNCHANGED <<fileVars, mti_txnid, slots, ownerDied, env, reader, metasync,
                   history, durable, bound, faults>>

\* mdb_freelist_save fails, and mdb_txn_commit aborts.
SaveError(p) ==
    /\ MyTxn(p)
    /\ txn.pc = "failed"
    /\ Saving
    /\ EndTxn
    /\ UNCHANGED <<fileVars, mti_txnid, slots, ownerDied, env, reader, metasync,
                   history, durable, bound, faults>>

\* mdb_page_flush or mdb_env_sync0 fails, and mdb_txn_commit aborts.
WriteError(p) ==
    /\ MyTxn(p)
    /\ txn.pc \in {"flush", "sync"}
    /\ faults < bound.faults
    /\ faults' = faults + 1
    /\ EndTxn
    /\ UNCHANGED <<fileVars, mti_txnid, slots, ownerDied, env, reader, metasync,
                   history, durable, bound>>

(***************************************************************************)
(* mdb_txn_commit.  Nothing is written if nothing changed.  Otherwise the  *)
(* free list is saved, the dirty pages written, the file synced, and the   *)
(* meta page written.                                                      *)
(***************************************************************************)
StartCommit(p) ==
    /\ MyTxn(p)
    /\ txn.pc = "ready"
    /\ txn.depth = 0
    /\ \/ /\ txn.dirty = EmptyMap
          /\ EndTxn
       \/ /\ txn.dirty # EmptyMap
          /\ txn' = Save(txn)
          /\ UNCHANGED <<wmutex, before>>
    /\ UNCHANGED <<fileVars, mti_txnid, slots, ownerDied, env, reader, metasync,
                   history, durable, bound, faults>>

SaveFreelist(p) ==
    /\ MyTxn(p)
    /\ txn.pc = "save"
    /\ LET w == FreelistSave(txn)
       IN  txn' = IF w.pc = "flush" THEN [w EXCEPT !.left = DOMAIN w.dirty] ELSE w
    /\ UNCHANGED before
    /\ PrivateStep

\* mdb_page_flush, page by page in their order.
FlushPage(p) ==
    /\ MyTxn(p)
    /\ txn.pc = "flush"
    /\ LET pg == Min(txn.left)
           rest == txn.left \ {pg}
       IN /\ file' = [file EXCEPT ![pg] = txn.dirty[pg]]
          /\ disk' = [disk EXCEPT ![pg] = @ \cup {txn.dirty[pg]}]
          /\ txn' = [txn EXCEPT !.left = rest,
                                !.pc = IF rest = {} THEN "sync" ELSE "flush"]
    /\ UNCHANGED <<meta, metaDisk, lockVars, env, reader, metasync, ghostVars, faults>>

\* A mistake: no fdatasync before the meta page is written.
NotSynced == disk

\* mdb_env_sync0: everything written so far is on disk.
Synced == [pg \in Pages |-> {file[pg]}]

Sync(p) ==
    /\ MyTxn(p)
    /\ txn.pc = "sync"
    /\ disk' = Synced
    /\ metaDisk' = [i \in 0..1 |-> {meta[i]}]
    /\ txn' = [txn EXCEPT !.pc = "meta"]
    /\ UNCHANGED <<file, meta, lockVars, env, reader, metasync, ghostVars, faults>>

(***************************************************************************)
(* mdb_env_write_meta: the meta page is written in the page cache, and is  *)
(* on disk when the write returns if its file descriptor is synchronous;   *)
(* then the transaction is published.                                      *)
(***************************************************************************)
\* A mistake: always the same meta page.
NoToggle == 0

Toggle == txn.id % 2

WriteMeta(p) ==
    /\ MyTxn(p)
    /\ txn.pc = "meta"
    /\ LET m == [id |-> txn.id, root |-> txn.root, froot |-> txn.froot,
                 last |-> txn.next - 1]
       IN /\ meta' = [meta EXCEPT ![Toggle] = m]
          /\ metaDisk' = [metaDisk EXCEPT ![Toggle] = @ \cup {m}]
          /\ history' = With(history, txn.id, Contents(file, txn.root))
    /\ txn' = [txn EXCEPT !.pc = "publish"]
    /\ UNCHANGED <<file, disk, lockVars, env, reader, metasync, durable, before, bound, faults>>

Publish(p) ==
    /\ MyTxn(p)
    /\ txn.pc = "publish"
    /\ metaDisk' = IF metasync THEN [metaDisk EXCEPT ![Toggle] = {meta[Toggle]}]
                   ELSE metaDisk
    /\ durable' = IF metasync THEN txn.id ELSE durable
    /\ mti_txnid' = txn.id
    /\ EndTxn
    /\ UNCHANGED <<file, disk, meta, slots, ownerDied, env, reader, metasync,
                   history, bound, faults>>

(***************************************************************************)
(* Processes.  The death of one leaves its slots as they are, and the      *)
(* mutex, if it held it, marked.  A process that opens the environment     *)
(* when no other has it open initialises the lock file (mdb_env_setup_locks*)
(* and mdb_env_share_locks).                                               *)
(***************************************************************************)
DropReader(p) == IF p \in Readers THEN [reader EXCEPT ![p] = NoRead] ELSE reader

Die(p) ==
    /\ env[p].open
    /\ faults < bound.faults
    /\ faults' = faults + 1
    /\ env' = [env EXCEPT ![p] = Closed]
    /\ reader' = DropReader(p)
    /\ IF wmutex = p
       THEN EndTxn /\ ownerDied' = TRUE
       ELSE UNCHANGED <<txn, wmutex, before, ownerDied>>
    /\ UNCHANGED <<fileVars, mti_txnid, slots, metasync, history, durable, bound>>

Open(p) ==
    /\ ~env[p].open
    /\ env' = [env EXCEPT ![p].open = TRUE]
    /\ IF \A q \in Procs : ~env[q].open
       THEN /\ mti_txnid' = PickMeta(meta).id
            /\ slots' = <<>>
            /\ ownerDied' = FALSE
       ELSE UNCHANGED <<mti_txnid, slots, ownerDied>>
    /\ UNCHANGED <<fileVars, wmutex, reader, txn, metasync, ghostVars, faults>>

(***************************************************************************)
(* The machine stops, and starts again with what the disk holds: for each  *)
(* page one of the versions written since the last sync.                   *)
(***************************************************************************)
AfterStop(d) ==
    LET unsure == {x \in DOMAIN d : Cardinality(d[x]) > 1}
        sure == [x \in DOMAIN d \ unsure |-> CHOOSE v \in d[x] : TRUE]
        all == UNION {d[x] : x \in unsure}
    IN  {Over(f, sure) : f \in {g \in [unsure -> all] : \A x \in unsure : g[x] \in d[x]}}

Crash ==
    /\ faults < bound.faults
    /\ faults' = faults + 1
    /\ \E m \in AfterStop(metaDisk) :
          /\ meta' = m
          /\ metaDisk' = [i \in 0..1 |-> {m[i]}]
          /\ mti_txnid' = PickMeta(m).id
          /\ history' = [t \in {h \in DOMAIN history : h <= PickMeta(m).id} |-> history[t]]
    /\ \E f \in AfterStop(disk) :
          /\ file' = f
          /\ disk' = [pg \in Pages |-> {f[pg]}]
    /\ slots' = <<>>
    /\ ownerDied' = FALSE
    /\ env' = [p \in Procs |-> [Closed EXCEPT !.open = TRUE]]
    /\ reader' = [p \in Readers |-> NoRead]
    /\ EndTxn
    /\ UNCHANGED <<metasync, durable, bound>>

ReadStep(p) ==
    \/ MarkLive(p) \/ ClaimSlot(p) \/ LoadTxnid(p) \/ StoreTxnid(p)
    \/ CheckTxnid(p) \/ CopyRoots(p) \/ CopySize(p) \/ EndRead(p)

\* The steps of a writer that its program does not choose.
WriteStep(p) ==
    \/ DoOp(p) \/ AllocStep(p) \/ ScanSlot(p) \/ EndScan(p)
    \/ SaveFreelist(p) \/ SaveError(p) \/ FlushPage(p) \/ Sync(p) \/ WriteMeta(p) \/ Publish(p)

Next ==
    \/ \E p \in bound.readers : ReadStep(p)
    \/ \E p, q \in Procs : Suspect(p, q)
    \/ \E p \in Procs : ClearStale(p) \/ Die(p) \/ Open(p)
    \/ \E p \in Writers :
          \/ BeginWrite(p)
          \/ \E k \in bound.keys, op \in {"put", "del"} : StartOp(p, k, op)
          \/ BeginChild(p) \/ CommitChild(p) \/ AbortChild(p)
          \/ StartCommit(p)
          \/ Abort(p)
          \/ WriteError(p)
          \/ WriteStep(p)
    \/ Crash

(***************************************************************************)
(* A thread inside a call of the library goes on until the call returns;   *)
(* when to make the next call, and whether to die, is not ours to say.     *)
(***************************************************************************)
Spec == /\ Init
        /\ [][Next]_vars
        /\ \A p \in Writers : WF_vars(WriteStep(p))

(***************************************************************************)
(* Types.                                                                  *)
(***************************************************************************)
TypeOK ==
    /\ \A pg \in Pages : file[pg] \in disk[pg]
    /\ \A i \in 0..1 : meta[i] \in metaDisk[i] /\ meta[i].id \in 0..MaxTxn
    /\ mti_txnid \in 0..MaxTxn
    /\ Len(slots) <= bound.slots
    /\ \A i \in DOMAIN slots : /\ slots[i].pid \in Procs \cup {None}
                              /\ slots[i].txnid \in 0..Idle
    /\ wmutex \in Writers \cup {None}
    /\ wmutex = None <=> txn = NoTxn
    /\ \A p \in Procs : env[p].live => env[p].open

(***************************************************************************)
(* Whenever the machine stops, and whatever part of the pages written      *)
(* since the last sync reached the disk, the meta page that is picked when *)
(* the environment is opened again names a committed tree, whole.  This is *)
(* the order of mdb_txn_commit (pages, sync, meta page), the alternation   *)
(* of the two meta pages, and the rule that a writer reuses only pages     *)
(* that both the last snapshot and the one before can do without.          *)
(***************************************************************************)
Recoverable ==
    \A m \in AfterStop(metaDisk) :
        LET pick == PickMeta(m)
        IN /\ pick.id \in DOMAIN history
           /\ pick.id >= durable
           /\ pick.root = NoPage => history[pick.id] = EmptyMap
           /\ pick.root # NoPage =>
                 \A root \in disk[pick.root] :
                    /\ root.kind = "leaf"
                    /\ DOMAIN root.ov = DOMAIN history[pick.id]
                    /\ \A k \in DOMAIN root.ov :
                          disk[root.ov[k]] = {Value(history[pick.id][k])}

(***************************************************************************)
(* Every page below the end of the file is either used by the last         *)
(* committed trees or in exactly one record of the free list: no page is   *)
(* lost, and none is both free and used.  mdb_audit counts the same under  *)
(* MDB_DEBUG.                                                              *)
(***************************************************************************)
EveryPageAccountedFor ==
    LET m == PickMeta(meta)
        used == PagesOf(file, m.root) \cup (IF m.froot = NoPage THEN {} ELSE {m.froot})
        rec == Records(file, m.froot)
    IN (txn.pc \in {"idle", "publish"}) =>
         /\ used \cup UNION {rec[r] : r \in DOMAIN rec} = FirstPage..m.last
         /\ \A r \in DOMAIN rec :
               /\ rec[r] \cap used = {}
               /\ \A s \in DOMAIN rec \ {r} : rec[r] \cap rec[s] = {}

(***************************************************************************)
(* The loop of mdb_freelist_save frees pages and consumes records while it *)
(* writes the free list, and yet each of its rounds brings the end nearer: *)
(* it deletes a record, asks for a page because it has no writable one or  *)
(* writes what it had asked the page for, writes more freed pages down, or *)
(* reserves exactly the room needed now, which is not what it had.         *)
(***************************************************************************)
Rank(w) == <<w.last, w.done, Cardinality(DOMAIN w.dirty), w.count, 0 - w.more>>

SaveAdvances ==
    txn.pc = "save" =>
        LET next == FreelistSave(txn)
            old  == Rank(txn)
            new  == Rank(next)
        IN  \/ next.pc = "flush"
            \/ next.pc = "alloc" /\ ~Writable(txn)
            \/ txn.step # "loop" /\ next.step = "loop"
            \/ next.room # txn.room /\ next.room = Cardinality(next.head)
            \/ \E i \in DOMAIN old : /\ new[i] > old[i]
                                     /\ \A j \in 1..(i - 1) : new[j] = old[j]

(***************************************************************************)
(* The transactions of LMDB implement a store of versions.                 *)
(***************************************************************************)
Versions == [i \in 1..Cardinality(DOMAIN history) |-> history[i - 1]]

\* A reader that has not begun to read is sure to see this version.
Since(p) ==
    IF p \in Readers /\ reader[p].pc \notin {"idle", "active"}
    THEN reader[p].since + 1 ELSE 0

Seen(p) ==
    IF p \in Readers /\ reader[p].pc = "active"
    THEN IF PagesOf(file, reader[p].root) \subseteq FirstPage..(reader[p].next - 1)
         THEN <<Contents(file, reader[p].root)>> ELSE <<Garbage>>
    ELSE << >>

\* The operation has not returned; it may have unlinked a value already.
OpUnderWay ==
    /\ txn.pc \in {"work", "alloc", "scan", "failed"}
    /\ ~Saving

Working ==
    IF txn.pc = "idle" THEN << >>
    ELSE IF OpUnderWay THEN <<before>>
    ELSE <<Contents(Own(txn, file), txn.root)>>

Outer ==
    IF txn.pc # "idle" /\ txn.depth > 0
    THEN <<Contents(Own(txn.parent, file), txn.parent.root)>>
    ELSE << >>

Store == INSTANCE MvccStore WITH
    Values <- 1..(2 * MaxTxn),
    versions <- Versions,
    published <- mti_txnid + 1,
    durable <- durable + 1,
    strict <- metasync,
    low <- [p \in Procs |-> Since(p)],
    view <- [p \in Procs |-> Seen(p)],
    work <- Working,
    saved <- Outer

ImplementsStore == Store!Spec
=============================================================================

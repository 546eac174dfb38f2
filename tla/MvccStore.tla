----------------------------- MODULE MvccStore -----------------------------
(***************************************************************************)
(* What LMDB promises its callers, without pages: a store of versions.     *)
(* Write transactions follow one another, each starting from the latest    *)
(* version and adding one when it commits.  A read transaction sees one    *)
(* version, never changing, committed no earlier than the last one that    *)
(* had been published when the transaction began.  After a crash of the    *)
(* machine the store is at one of the last two versions, and at no version *)
(* older than the last whose commit was synchronous.                       *)
(***************************************************************************)
EXTENDS Integers, Sequences

CONSTANTS
    Procs,      \* the processes that have the environment open
    Keys,
    Values

VARIABLES
    versions,   \* every committed version, a map from some keys to values
    published,  \* how many of them a new transaction is sure to see
    durable,    \* how many of them no crash can undo
    strict,     \* commits are synchronous
    low,        \* process -> published when its read transaction began, until
                \* it has settled on a version, or 0
    view,       \* process -> <<what its read transaction sees>>, or NoTxn
    work,       \* <<what the write transaction would commit>>, or NoTxn
    saved       \* <<what it would without the one nested in it>>, or NoTxn

vars == <<versions, published, durable, strict, low, view, work, saved>>

\* No transaction.
NoTxn == << >>

\* The empty map.
Nothing == [k \in {} |-> k]

\* A map without the key k, and with the value v for it.
Without(map, k) == [x \in DOMAIN map \ {k} |-> map[x]]
With(map, k, v) == [x \in DOMAIN map \cup {k} |-> IF x = k THEN v ELSE map[x]]

Init ==
    /\ versions = <<Nothing>>
    /\ published = 1
    /\ durable = 1
    /\ strict \in BOOLEAN
    /\ low = [p \in Procs |-> 0]
    /\ view = [p \in Procs |-> NoTxn]
    /\ work = NoTxn
    /\ saved = NoTxn

BeginRead(p) ==
    /\ low[p] = 0
    /\ view[p] = NoTxn
    /\ low' = [low EXCEPT ![p] = published]
    /\ UNCHANGED <<versions, published, durable, strict, view, work, saved>>

\* The transaction settles on a version, somewhat later than it began.
Snapshot(p) ==
    /\ low[p] # 0
    /\ \E i \in low[p]..Len(versions) :
          view' = [view EXCEPT ![p] = <<versions[i]>>]
    /\ low' = [low EXCEPT ![p] = 0]
    /\ UNCHANGED <<versions, published, durable, strict, work, saved>>

\* The transaction ends, or could not begin.
EndRead(p) ==
    /\ low[p] # 0 \/ view[p] # NoTxn
    /\ low' = [low EXCEPT ![p] = 0]
    /\ view' = [view EXCEPT ![p] = NoTxn]
    /\ UNCHANGED <<versions, published, durable, strict, work, saved>>

\* A version whose writer died before it could publish it becomes visible.
Repair ==
    /\ published' = Len(versions)
    /\ UNCHANGED <<versions, durable, strict, low, view, work, saved>>

BeginWrite ==
    /\ work = NoTxn
    /\ published' = Len(versions)
    /\ work' = <<versions[Len(versions)]>>
    /\ UNCHANGED <<versions, durable, strict, low, view, saved>>

Write(k) ==
    /\ work # NoTxn
    /\ \/ work' = <<Without(work[1], k)>>
       \/ \E v \in Values : work' = <<With(work[1], k, v)>>
    /\ UNCHANGED <<versions, published, durable, strict, low, view, saved>>

Abort ==
    /\ work # NoTxn
    /\ work' = NoTxn
    /\ saved' = NoTxn
    /\ UNCHANGED <<versions, published, durable, strict, low, view>>

\* A transaction inside the write transaction begins, ends, or never was.
Nest ==
    /\ work # NoTxn
    /\ saved = NoTxn
    /\ saved' = work
    /\ UNCHANGED <<versions, published, durable, strict, low, view, work>>

Keep ==
    /\ saved # NoTxn
    /\ saved' = NoTxn
    /\ UNCHANGED <<versions, published, durable, strict, low, view, work>>

Undo ==
    /\ saved # NoTxn
    /\ work' = saved
    /\ saved' = NoTxn
    /\ UNCHANGED <<versions, published, durable, strict, low, view>>

Commit ==
    /\ work # NoTxn
    /\ saved = NoTxn
    /\ published = Len(versions)
    /\ versions' = Append(versions, work[1])
    /\ UNCHANGED <<published, durable, strict, low, view, work, saved>>

\* The commit returns.
Publish ==
    /\ published' = Len(versions)
    /\ durable' = IF strict THEN Len(versions) ELSE durable
    /\ work' = NoTxn
    /\ UNCHANGED <<versions, strict, low, view, saved>>

\* A process dies, and with it its transactions.
Die(p) ==
    /\ low' = [low EXCEPT ![p] = 0]
    /\ view' = [view EXCEPT ![p] = NoTxn]
    /\ \/ UNCHANGED <<work, saved>>
       \/ work' = NoTxn /\ saved' = NoTxn
    /\ UNCHANGED <<versions, published, durable, strict>>

\* The machine stops and starts again.
Crash ==
    /\ \E n \in {Len(versions) - 1, Len(versions)} :
          /\ n >= 1
          /\ n >= durable
          /\ versions' = SubSeq(versions, 1, n)
          /\ published' = n
    /\ low' = [p \in Procs |-> 0]
    /\ view' = [p \in Procs |-> NoTxn]
    /\ work' = NoTxn
    /\ saved' = NoTxn
    /\ UNCHANGED <<durable, strict>>

Next ==
    \/ \E p \in Procs : BeginRead(p) \/ Snapshot(p) \/ EndRead(p) \/ Die(p)
    \/ Repair
    \/ BeginWrite
    \/ \E k \in Keys : Write(k)
    \/ Abort
    \/ Nest \/ Keep \/ Undo
    \/ Commit
    \/ Publish
    \/ Crash

Spec == Init /\ [][Next]_vars
=============================================================================

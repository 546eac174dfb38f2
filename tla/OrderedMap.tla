----------------------------- MODULE OrderedMap -----------------------------
(***************************************************************************)
(* What the cursors of LMDB promise inside a write transaction, without    *)
(* pages: a map from keys in order, and positions in it that survive every *)
(* change.  A cursor is nowhere, at a key, in the gap before a key because *)
(* the one it was at has been deleted, or behind the last key.  Only a     *)
(* cursor that has been told of the end may be told of it once more, after *)
(* other keys have been put behind its own.                                *)
(***************************************************************************)
EXTENDS Integers, FiniteSets

CONSTANTS
    Cursors,
    Keys,       \* positive integers
    Sizes,      \* what a key is mapped to
    Dirs        \* directories: sets of keys in a row

VARIABLES
    data,       \* the map, a set of items [key, size]
    pos,        \* cursor -> [key, gap]
    ended,      \* cursor -> it has been told of the end
    answer      \* what the last call returned: a key, or one of these

vars == <<data, pos, ended, answer>>

NotFound == 0
Invalid  == -1
Finished == -2
End      == 1000

Nowhere   == [key |-> 0, gap |-> FALSE]
At(k)     == [key |-> k, gap |-> FALSE]
Before(k) == [key |-> k, gap |-> TRUE]
Behind    == Before(End)

Least(S)    == CHOOSE x \in S : \A y \in S : x <= y
Greatest(S) == CHOOSE x \in S : \A y \in S : x >= y

NextKey(k, keys) == Least({x \in keys : x > k} \cup {End})
PrevKey(k, keys) == Greatest({x \in keys : x < k} \cup {0})

Init ==
    /\ data = {}
    /\ pos = [c \in Cursors |-> Nowhere]
    /\ ended = [c \in Cursors |-> FALSE]
    /\ answer = NotFound

Moved(c, p, told) ==
    /\ pos' = [pos EXCEPT ![c] = p]
    /\ ended' = [ended EXCEPT ![c] = told]

Stored == {x.key : x \in data}
Empty  == data = {}
First  == NextKey(0, Stored)
Final  == PrevKey(End, Stored)

Fail == answer' = NotFound /\ UNCHANGED <<pos, ended>>

SeekFirst(c) ==
    \/ Empty /\ Fail
    \/ ~Empty /\ answer' = First /\ Moved(c, At(First), FALSE)

SeekLast(c) ==
    \/ Empty /\ Fail
    \/ ~Empty /\ answer' = Final /\ Moved(c, At(Final), TRUE)

\* The first key from k on.
SeekRange(c, k) ==
    LET x == NextKey(k - 1, Stored)
    IN  \/ Empty /\ Fail
        \/ x # End /\ answer' = x /\ Moved(c, At(x), FALSE)
        \/ /\ ~Empty /\ x = End
           /\ answer' = NotFound
           /\ \E told \in {TRUE, ended[c]} : Moved(c, Behind, told)

MoveNext(c) ==
    LET x == IF pos[c].gap THEN pos[c].key ELSE NextKey(pos[c].key, Stored)
    IN  \/ pos[c] = Nowhere /\ SeekFirst(c)
        \/ /\ pos[c] # Nowhere /\ x # End
           /\ answer' = x
           /\ Moved(c, At(x), FALSE)
        \/ /\ pos[c] # Nowhere /\ (x = End \/ ended[c])
           /\ answer' = NotFound
           /\ Moved(c, IF pos[c] = Behind THEN Behind ELSE At(pos[c].key), TRUE)

MovePrev(c) ==
    LET x == PrevKey(pos[c].key, Stored)
    IN  \/ pos[c] = Nowhere /\ Empty /\ Fail
        \/ pos[c] = Nowhere /\ ~Empty /\ answer' = Final /\ Moved(c, At(Final), FALSE)
        \/ pos[c] # Nowhere /\ x # 0 /\ answer' = x /\ Moved(c, At(x), FALSE)
        \/ /\ pos[c] # Nowhere /\ x = 0
           /\ answer' = NotFound
           /\ Moved(c, At(pos[c].key), FALSE)

GetCurrent(c) ==
    \/ pos[c] = Nowhere /\ answer' = Invalid /\ UNCHANGED <<pos, ended>>
    \/ pos[c] = Behind /\ Fail
    \/ /\ pos[c] \notin {Nowhere, Behind}
       /\ answer' = pos[c].key
       /\ Moved(c, At(pos[c].key), ended[c])

Set(k, n) ==
    /\ answer' = k
    /\ data' = {x \in data : x.key # k} \cup {[key |-> k, size |-> n]}

\* Through a cursor, which is at the key afterwards, or through none.
PutAt(c, k, n) ==
    /\ Set(k, n)
    /\ pos' = [pos EXCEPT ![c] = At(k)]
    /\ \E told \in {FALSE, ended[c]} : ended' = [ended EXCEPT ![c] = told]

Put(k, n) == Set(k, n) /\ UNCHANGED <<pos, ended>>

\* Cursors at one of the keys, or in the gap before it, are in the gap after.
Removed(keys) ==
    LET left == Stored \ keys
    IN /\ data' = {x \in data : x.key \notin keys}
       /\ pos' = [c \in Cursors |->
                    CASE pos[c] = Nowhere \/ left = {} -> Nowhere
                      [] pos[c].key \in keys /\ left # {} -> Before(NextKey(pos[c].key, left))
                      [] pos[c].key \notin keys \cup {0} /\ left # {} -> pos[c]]

MayBeTold(c, told) == told = ended[c] \/ (told /\ pos'[c] \in {Behind, Nowhere})

DelAt(c) ==
    \/ pos[c] = Nowhere /\ answer' = Invalid /\ UNCHANGED <<data, pos, ended>>
    \/ pos[c] = Behind /\ Fail /\ UNCHANGED data
    \/ /\ pos[c] \notin {Nowhere, Behind}
       /\ answer' = pos[c].key
       /\ Removed({pos[c].key})
       /\ ended' \in {e \in [Cursors -> BOOLEAN] :
                        \A o \in Cursors : MayBeTold(o, e[o]) \/ (o = c /\ ~e[o])}

Del(k) ==
    \/ k \notin Stored /\ Fail /\ UNCHANGED data
    \/ /\ k \in Stored
       /\ answer' = k
       /\ Removed({k})
       /\ ended' \in {e \in [Cursors -> BOOLEAN] : \A o \in Cursors : MayBeTold(o, e[o])}

\* All of a directory, or nothing.
RemoveDir(dir) ==
    /\ answer' = Finished
    /\ \/ UNCHANGED <<data, pos, ended>>
       \/ /\ Stored # {}
          /\ Removed(dir \cap Stored)
          /\ ended' \in {e \in [Cursors -> BOOLEAN] : \A o \in Cursors : MayBeTold(o, e[o])}

Read(c) ==
    \/ SeekFirst(c) \/ SeekLast(c) \/ MoveNext(c) \/ MovePrev(c) \/ GetCurrent(c)
    \/ \E k \in Keys : SeekRange(c, k)

Write ==
    \/ \E c \in Cursors : DelAt(c)
    \/ \E k \in Keys : Del(k)
    \/ \E dir \in Dirs : RemoveDir(dir)
    \/ \E k \in Keys : \E n \in Sizes : Put(k, n) \/ \E c \in Cursors : PutAt(c, k, n)

Next ==
    \/ UNCHANGED data /\ \E c \in Cursors : Read(c)
    \/ Write

Spec == Init /\ [][Next]_vars
=============================================================================

-------------------------------- MODULE Midl --------------------------------
(***************************************************************************)
(* The lists of page numbers of LMDB (midl.c): free pages, spilled pages   *)
(* and, with a pointer beside each number, dirty pages.  Any sequence of   *)
(* calls on a list; `held' counts what it is meant to hold.                *)
(***************************************************************************)
EXTENDS Integers, Sequences, SequencesExt

CONSTANTS Ids,          \* page numbers
          Small,        \* lists of this length are sorted by insertion (SMALL)
          UmMax,        \* MDB_IDL_UM_MAX
          Block,        \* allocations are multiples of it (256)
          Started,      \* lists to start from
          MaxCalls

VARIABLES ids, alloc,   \* the list, and ids[-1]
          held, sorted, \* what was put on it; whether it was left in order
          pairs, stored,  \* an ID2L, and the pairs put on it
          calls

vars == <<ids, alloc, held, sorted, pairs, stored, calls>>

----------------------------------------------------------------------------
(* Binary search among descending numbers: where id is, or the first       *)
(* position of a smaller one.  after(x) says that id comes behind x.       *)
RECURSIVE Searched(_, _, _, _, _)
Searched(after(_), is(_), base, n, at) ==
    LET pivot == n \div 2
        cursor == base + pivot + 1
    IN IF n = 0 THEN at
       ELSE IF after(cursor) THEN Searched(after, is, cursor, n - pivot - 1, cursor + 1)
       ELSE IF is(cursor) THEN cursor
       ELSE Searched(after, is, base, pivot, cursor)

MidlSearch(s, id) ==
    Searched(LAMBDA x : s[x] > id, LAMBDA x : s[x] = id, 0, Len(s), 1)
Mid2lSearch(s, id) ==
    Searched(LAMBDA x : s[x].mid < id, LAMBDA x : s[x].mid = id, 0, Len(s), 1)

\* Mutant: the second list is only put behind the first.
XmergeBehind(s, merge) == s \o merge

(* Two descending lists, merged from their ends. *)
Xmerge(s, merge) ==
    LET total == Len(s) + Len(merge)
        from[k \in 1 .. total + 1] ==   \* what is left of each before position k is filled
            IF k = total + 1 THEN [i |-> Len(merge), j |-> Len(s), out |-> << >>]
            ELSE LET at == from[k + 1] IN
                 IF at.i = 0 THEN [at EXCEPT !.j = @ - 1, !.out = <<s[at.j]>> \o @]
                 ELSE IF at.j > 0 /\ s[at.j] < merge[at.i]
                 THEN [at EXCEPT !.j = @ - 1, !.out = <<s[at.j]>> \o @]
                 ELSE [at EXCEPT !.i = @ - 1, !.out = <<merge[at.i]>> \o @]
    IN from[1].out

Swapped(s, x, y) == [s EXCEPT ![x] = s[y], ![y] = s[x]]
SwappedUp(s, x, y) == IF s[x] < s[y] THEN Swapped(s, x, y) ELSE s

(* Each number goes behind the last that is not smaller, from the start of *)
(* the list on.                                                            *)
InsertionSort(s, l, ir) ==
    LET inserted(t, j) ==
            LET i == CHOOSE x \in 0 .. j - 1 :
                        (x = 0 \/ t[x] >= t[j]) /\ \A y \in x + 1 .. j - 1 : t[y] < t[j]
            IN SubSeq(t, 1, i) \o <<t[j]>> \o SubSeq(t, i + 1, j - 1) \o SubSeq(t, j + 1, Len(t))
    IN FoldLeft(inserted, s, [k \in 1 .. ir - l |-> l + k])

(* The median of three numbers, at l + 1, parts the others.                *)
Median(s, l, ir) ==
    SwappedUp(SwappedUp(SwappedUp(Swapped(s, (l + ir) \div 2, l + 1), l, ir), l + 1, ir), l, l + 1)
RECURSIVE Parted(_, _, _, _)
Parted(s, i, j, a) ==
    LET up == CHOOSE x \in i + 1 .. Len(s) : s[x] <= a /\ \A y \in i + 1 .. x - 1 : s[y] > a
        down == CHOOSE x \in 1 .. j - 1 : s[x] >= a /\ \A y \in x + 1 .. j - 1 : s[y] < a
    IN IF down < up THEN [s |-> s, i |-> up, j |-> down]
       ELSE Parted(Swapped(s, up, down), up, down, a)

(* The longer part waits on the stack. *)
RECURSIVE SortFrom(_, _, _, _)
SortFrom(s, l, ir, stack) ==
    LET done == InsertionSort(s, l, ir)
        m == Median(s, l, ir)
        a == m[l + 1]
        p == Parted(m, l + 1, ir, a)
        t == [p.s EXCEPT ![l + 1] = p.s[p.j], ![p.j] = a]
    IN IF ir - l < Small
       THEN IF stack = << >> THEN done ELSE SortFrom(done, Last(stack)[1], Last(stack)[2], Front(stack))
       ELSE IF ir - p.i + 1 >= p.j - l
       THEN SortFrom(t, l, p.j - 1, Append(stack, <<p.i, ir>>))
       ELSE SortFrom(t, p.i, ir, Append(stack, <<l, p.j - 1>>))
MidlSort(s) == SortFrom(s, 1, Len(s), << >>)

----------------------------------------------------------------------------
CountIn(s, id) == Len(SelectSeq(s, LAMBDA x : x = id))
Descending(s) == \A i \in 1 .. Len(s) - 1 : s[i] >= s[i + 1]

Init ==
    /\ \E s \in Started : ids = s /\ alloc = (IF Len(s) > UmMax THEN Len(s) ELSE UmMax) /\ held = [id \in Ids |-> CountIn(s, id)]
    /\ sorted = FALSE /\ pairs = << >> /\ stored = {} /\ calls = 0

Call == calls < MaxCalls /\ calls' = calls + 1 /\ UNCHANGED <<pairs, stored>>
PairCall == calls < MaxCalls /\ calls' = calls + 1 /\ UNCHANGED <<ids, alloc, held, sorted>>
Held(s) == held' = [id \in Ids |-> held[id] + CountIn(s, id)]

(* A list without room is grown, which fails when there is no memory.      *)
Extend(s, full, more) ==
    \/ /\ alloc' = IF full THEN alloc + more ELSE alloc
       /\ ids' = ids \o s /\ Held(s) /\ sorted' = (s = << >> /\ sorted)
    \/ full /\ UNCHANGED <<ids, alloc, held, sorted>>

MidlAppend == \E id \in Ids : Call /\ Extend(<<id>>, Len(ids) >= alloc, UmMax)
MidlAppendList == \E s \in Started : Call /\ Extend(s, Len(ids) + Len(s) >= alloc, Len(s))
MidlAppendRange == \E id \in Ids, n \in 1 .. 3 :
    /\ Call /\ id + n - 1 \in Ids
    /\ Extend([k \in 1 .. n |-> id + n - k], Len(ids) + n > alloc, IF n > UmMax THEN n ELSE UmMax)

(* Room for more numbers, then numbers without a test for room. *)
MidlNeed == \E s \in Started :
    LET num == Len(ids) + Len(s)
        room == ((num + num \div 4 + Block + 2) \div Block) * Block
    IN /\ Call
       /\ \/ /\ alloc' = IF num > alloc THEN room - 2 ELSE alloc
             /\ ids' = ids \o s /\ Held(s) /\ sorted' = (s = << >> /\ sorted)
          \/ num > alloc /\ UNCHANGED <<ids, alloc, held, sorted>>

Sort == Call /\ ids' = MidlSort(ids) /\ sorted' = TRUE /\ UNCHANGED <<alloc, held>>

(* Sorted numbers are merged into a sorted list that has room for them.    *)
Merge == \E s \in Started :
    LET num == Len(ids) + Len(s) IN
    /\ Call /\ sorted /\ Descending(s) /\ num <= alloc
    /\ ids' = Xmerge(ids, s) /\ Held(s) /\ UNCHANGED <<alloc, sorted>>

(* A list that is done with is emptied, and shrunk if it has grown.        *)
Shrink ==
    /\ Call /\ ids' = << >> /\ held' = [id \in Ids |-> 0] /\ sorted' = TRUE
    /\ alloc' = IF alloc > UmMax THEN UmMax ELSE alloc

Mid2lInsert == \E id \in Ids, ptr \in 1 .. 2 :
    LET x == Mid2lSearch(pairs, id)
        found == x <= Len(pairs) /\ pairs[x].mid = id
    IN /\ PairCall
       /\ IF found \/ Len(pairs) >= UmMax THEN UNCHANGED <<pairs, stored>>
          ELSE /\ pairs' = InsertAt(pairs, x, [mid |-> id, mptr |-> ptr])
               /\ stored' = stored \cup {[mid |-> id, mptr |-> ptr]}

(* Numbers that grow are appended.  (With MDB_WRITEMAP, where the list is  *)
(* never searched, they come in any order: that mode is left out.)         *)
Mid2lAppend == \E id \in Ids :
    /\ PairCall /\ \A p \in stored : p.mid < id
    /\ IF Len(pairs) >= UmMax THEN UNCHANGED <<pairs, stored>>
       ELSE /\ pairs' = Append(pairs, [mid |-> id, mptr |-> 1])
            /\ stored' = stored \cup {[mid |-> id, mptr |-> 1]}

Next == \/ MidlAppend \/ MidlAppendList \/ MidlAppendRange \/ MidlNeed \/ Sort \/ Merge \/ Shrink
        \/ Mid2lInsert \/ Mid2lAppend

Spec == Init /\ [][Next]_vars

----------------------------------------------------------------------------
(* No page number is lost, gained or written past the end of the list; a   *)
(* list that was sorted or merged is in order, and a search in it finds    *)
(* what is there or where it would go; pairs are in order and found.       *)
ListsExact ==
    /\ \A id \in Ids : CountIn(ids, id) = held[id]
    /\ Len(ids) <= alloc
    /\ sorted =>
        /\ Descending(ids)
        /\ \A id \in Ids :
            LET x == MidlSearch(ids, id) IN
            IF held[id] > 0 THEN ids[x] = id
            ELSE /\ \A y \in 1 .. x - 1 : ids[y] > id
                 /\ \A y \in x .. Len(ids) : ids[y] < id
    /\ ToSet(pairs) = stored
    /\ \A k \in 1 .. Len(pairs) - 1 : pairs[k].mid < pairs[k + 1].mid
    /\ \A p \in stored : pairs[Mid2lSearch(pairs, p.mid)] = p
=============================================================================

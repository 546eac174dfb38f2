------------------------------- MODULE BTree -------------------------------
(***************************************************************************)
(* The tree of one LMDB database inside a write transaction, mdb.c: its    *)
(* pages, the cursors open on it, and what the functions that search it,   *)
(* change it and keep it balanced do to both.  A cursor is a path of pages *)
(* with an index in each; a function that moves nodes between pages also   *)
(* rewrites the paths of every cursor that led through them.               *)
(*                                                                         *)
(* A tree s is a record:                                                   *)
(*   pages     page number -> [leaf, nodes], a node being [key, size,      *)
(*             child]; the first key of a branch page is Lowest            *)
(*   root, depth, leaves, branches, entries      the MDB_db of the tree    *)
(*   cur       cursor -> [stack, snum, init, eof, del, tracked]: the pages *)
(*             and indices mc_pg and mc_ki, how many of them count, three  *)
(*             flags, and whether the transaction knows the cursor         *)
(*   room      what a leaf and a branch page hold                          *)
(* Indices are those of the C code, from 0.  Pages are all dirty: copying  *)
(* them is in LmdbPages.                                                   *)
(***************************************************************************)
EXTENDS Integers, Sequences, FiniteSets

LOCAL INSTANCE SequencesExt
LOCAL INSTANCE FiniteSetsExt
LOCAL INSTANCE Functions

NoPage   == 0
Lowest   == 0        \* below every key: the key of the first branch node
Highest  == 1000     \* above every key

Item(key, size) == [key |-> key, size |-> size, child |-> NoPage]
Link(key, pg)   == [key |-> key, size |-> 1, child |-> pg]

Nodes(s, pg)   == s.pages[pg].nodes
IsLeaf(s, pg)  == s.pages[pg].leaf
NumKeys(s, pg) == Len(Nodes(s, pg))
NodeAt(s, pg, i) == Nodes(s, pg)[i + 1]

Used(nodes) == MapThenSumSet(LAMBDA i : nodes[i].size, DOMAIN nodes)
Room(s, pg) == IF IsLeaf(s, pg) THEN s.room.leaf ELSE s.room.branch
Fits(s, pg, node) == Used(Nodes(s, pg)) + node.size <= Room(s, pg)

SetNodes(s, pg, nodes) == [s EXCEPT !.pages[pg].nodes = nodes]
SetKey(s, pg, i, key)  == [s EXCEPT !.pages[pg].nodes[i + 1].key = key]
Insert(s, pg, i, node) == SetNodes(s, pg, InsertAt(Nodes(s, pg), i + 1, node))
Delete(s, pg, i)       == SetNodes(s, pg, RemoveAt(Nodes(s, pg), i + 1))

\* The key of the first node below a page, which its own node may not hold.
RECURSIVE LowestKey(_, _)
LowestKey(s, pg) ==
    IF IsLeaf(s, pg) THEN NodeAt(s, pg, 0).key
    ELSE LowestKey(s, NodeAt(s, pg, 0).child)

NewNumber(s, n) == CHOOSE pg \in 1..(Cardinality(DOMAIN s.pages) + n) :
                      /\ pg \notin DOMAIN s.pages
                      /\ Cardinality({q \in 1..pg : q \notin DOMAIN s.pages}) = n

NewPage(s, pg, leaf) ==
    [s EXCEPT !.pages    = [q \in DOMAIN @ \cup {pg} |->
                              IF q = pg THEN [leaf |-> leaf, nodes |-> <<>>] ELSE @[q]],
              !.leaves   = IF leaf THEN @ + 1 ELSE @,
              !.branches = IF leaf THEN @ ELSE @ + 1]

FreePage(s, pg) == [s EXCEPT !.pages = Restrict(@, DOMAIN @ \ {pg})]

----------------------------------------------------------------------------
(***************************************************************************)
(* Cursors.                                                                *)
(***************************************************************************)
NewCursor == [stack |-> <<>>, snum |-> 0, init |-> FALSE, eof |-> FALSE,
              del |-> FALSE, tracked |-> TRUE]

Top(cu)    == cu.stack[cu.snum]
Place(cu, i, pg, ki) == [cu EXCEPT !.stack[i] = [pg |-> pg, ki |-> ki]]
SetKi(cu, i, ki)    == [cu EXCEPT !.stack[i].ki = ki]
Under(cu, other, n) == \* the first n levels of cu replaced by those of other
    [cu EXCEPT !.stack = SubSeq(other.stack, 1, n) \o SubSeq(@, n + 1, Len(@))]

\* A temporary cursor gets a number that no other cursor has.
Fresh(s) == Cardinality(DOMAIN s.cur)
Open(s, name, cu) == [s EXCEPT !.cur = [c \in DOMAIN @ \cup {name} |->
                                          IF c = name THEN cu ELSE @[c]]]
Close(s, name)    == [s EXCEPT !.cur = Restrict(@, DOMAIN @ \ {name})]

\* The cursors a function called with cursor c looks for.
Others(s, c) == {m \in DOMAIN s.cur \ {c} : s.cur[m].tracked}

(***************************************************************************)
(* mdb_node_search and mdb_page_search_root.  MDB_PS_FIRST is the search   *)
(* of Lowest, MDB_PS_LAST that of Highest, which takes the pages it has    *)
(* if the cursor is on the last child already.                             *)
(***************************************************************************)
FirstNotBelow(nodes, low, key) ==
    Min({i \in low..(Len(nodes) - 1) : nodes[i + 1].key >= key} \cup {Len(nodes)})

ChildFor(nodes, key) ==
    LET i == FirstNotBelow(nodes, 1, key)
    IN  IF i < Len(nodes) /\ nodes[i + 1].key = key THEN i ELSE i - 1

RECURSIVE Descend(_, _, _, _)
Descend(s, old, stack, key) ==
    LET here  == Last(stack)
        i     == ChildFor(Nodes(s, here.pg), key)
        below == IF key = Highest /\ here.ki = i
                 THEN old[Len(stack) + 1]
                 ELSE [pg |-> NodeAt(s, here.pg, i).child, ki |-> 0]
    IN  IF IsLeaf(s, here.pg) THEN stack
        ELSE Descend(s, old, Append(Front(stack), [here EXCEPT !.ki = i]) \o <<below>>, key)

PageSearch(s, cu, key) ==
    LET first == [pg |-> s.root, ki |-> IF cu.init THEN cu.stack[1].ki ELSE 0]
        stack == Descend(s, cu.stack, <<first>>, key)
    IN  [cu EXCEPT !.stack = stack, !.snum = Len(stack), !.init = TRUE, !.eof = FALSE]

(***************************************************************************)
(* mdb_cursor_sibling: up to the first level where there is a next page,   *)
(* and down again along the first, or last, nodes.                         *)
(***************************************************************************)
Turns(s, cu, right) ==
    {i \in 1..(cu.snum - 1) :
        IF right THEN cu.stack[i].ki + 1 < NumKeys(s, cu.stack[i].pg)
        ELSE cu.stack[i].ki > 0}

HasSibling(s, cu, right) == Turns(s, cu, right) # {}

Sibling(s, cu, right) ==
    LET turn == Max(Turns(s, cu, right))
        level[i \in turn..cu.snum] ==
            IF i = turn
            THEN [cu.stack[i] EXCEPT !.ki = IF right THEN @ + 1 ELSE @ - 1]
            ELSE LET pg == NodeAt(s, level[i - 1].pg, level[i - 1].ki).child
                 IN  [pg |-> pg, ki |-> IF right THEN 0 ELSE NumKeys(s, pg) - 1]
    IN  [cu EXCEPT !.stack = SubSeq(@, 1, turn - 1) \o
                             [i \in 1..(cu.snum - turn + 1) |-> level[turn + i - 1]]]

(***************************************************************************)
(* mdb_cursor_set, for a key that must be there (MDB_SET) or for the first *)
(* key not below it (MDB_SET_RANGE).  The cursor's own page is tried first *)
(* and searched for again only if the key may be elsewhere.                *)
(***************************************************************************)
Hit(cu)  == [cu |-> [cu EXCEPT !.init = TRUE, !.eof = FALSE], found |-> TRUE]
Miss(cu) == [cu |-> cu, found |-> FALSE]
HitAt(cu, i)  == Hit(SetKi(cu, cu.snum, i))
MissAt(cu, i) == Miss(SetKi(cu, cu.snum, i))

HasKey(nodes, i, key) == i < Len(nodes) /\ nodes[i + 1].key = key

ToSibling(s, cu) ==
    IF HasSibling(s, cu, TRUE) THEN Hit(Sibling(s, cu, TRUE)) ELSE Miss([cu EXCEPT !.eof = TRUE])

LookInPage(s, cu, key, range) ==
    LET nodes == Nodes(s, Top(cu).pg)
        i     == FirstNotBelow(nodes, 0, key)
    IN CASE HasKey(nodes, i, key) \/ (range /\ i < Len(nodes)) -> HitAt(cu, i)
         [] ~range /\ ~HasKey(nodes, i, key) -> MissAt(cu, i)
         [] range /\ i = Len(nodes) -> ToSibling(s, SetKi(cu, cu.snum, i))

SetInPage(s, cu, key, range) ==
    LET nodes == Nodes(s, Top(cu).pg)
        n     == Len(nodes)
        low   == nodes[1].key
        high  == nodes[n].key
        next  == HasSibling(s, cu, TRUE)
    IN CASE key = low -> HitAt(cu, 0)
         [] key = high /\ n > 1 -> HitAt(cu, n - 1)
         [] low < key /\ key < high /\ HasKey(nodes, Top(cu).ki, key) -> Hit(cu)
         [] high < key /\ ~next -> MissAt(cu, n)
         [] key < low /\ cu.snum = 1 -> IF range THEN HitAt(cu, 0) ELSE MissAt(cu, 0)
         [] \/ low < key /\ key < high /\ ~HasKey(nodes, Top(cu).ki, key)
            \/ high < key /\ next
            \/ key < low /\ cu.snum > 1 ->
              LookInPage(s, IF low < key /\ key < high THEN [cu EXCEPT !.eof = FALSE]
                            ELSE PageSearch(s, cu, key), key, range)

CursorSet(s, cu, key, range) ==
    CASE cu.init -> SetInPage(s, cu, key, range)
      [] ~cu.init /\ s.root = NoPage -> Miss(cu)
      [] ~cu.init /\ s.root # NoPage -> LookInPage(s, PageSearch(s, cu, key), key, range)

(***************************************************************************)
(* mdb_cursor_get: MDB_FIRST, MDB_LAST, MDB_NEXT, MDB_PREV and             *)
(* MDB_GET_CURRENT.  Each gives the cursor and the key found, or NotFound. *)
(***************************************************************************)
NotFound == 0
Invalid  == -1       \* EINVAL

PastEnd(s, cu) == Top(cu).ki >= NumKeys(s, Top(cu).pg)

Found(s, cu) == [cu |-> cu, key |-> NodeAt(s, Top(cu).pg, Top(cu).ki).key]
Nothing(cu)  == [cu |-> cu, key |-> NotFound]

\* The cursor on the first page, or on the last one: not searched for if there
\* is only one.
Outermost(s, cu, key) == IF cu.init /\ cu.snum = 1 THEN cu ELSE PageSearch(s, cu, key)

AtStart(cu) == [SetKi(cu, cu.snum, 0) EXCEPT !.init = TRUE, !.eof = FALSE]
AtEnd(s, cu) == [SetKi(cu, cu.snum, NumKeys(s, Top(cu).pg) - 1) EXCEPT !.init = TRUE, !.eof = TRUE]

First(s, cu) ==
    IF s.root = NoPage THEN Nothing(cu) ELSE Found(s, AtStart(Outermost(s, cu, Lowest)))

Final(s, cu) ==
    IF s.root = NoPage THEN Nothing(cu) ELSE Found(s, AtEnd(s, Outermost(s, cu, Highest)))

\* Mutant: a cursor whose key was deleted goes on from where that was.
ForwardFromGap(s, cu) ==
    CASE Top(cu).ki + 1 < NumKeys(s, Top(cu).pg) -> Found(s, SetKi(cu, cu.snum, Top(cu).ki + 1))
      [] Top(cu).ki + 1 >= NumKeys(s, Top(cu).pg) ->
           IF HasSibling(s, cu, TRUE) THEN Found(s, Sibling(s, cu, TRUE))
           ELSE Nothing([cu EXCEPT !.eof = TRUE])

Forward(s, cu) == \* cu is not known to be at the end
    LET ki == Top(cu).ki
    IN CASE cu.del -> Found(s, cu)
         [] ~cu.del /\ ki + 1 < NumKeys(s, Top(cu).pg) -> Found(s, SetKi(cu, cu.snum, ki + 1))
         [] ~cu.del /\ ki + 1 >= NumKeys(s, Top(cu).pg) ->
              IF HasSibling(s, cu, TRUE) THEN Found(s, Sibling(s, cu, TRUE))
              ELSE Nothing([cu EXCEPT !.eof = TRUE])

Next(s, cu) ==
    CASE ~cu.init -> First(s, cu)
      [] cu.init /\ cu.eof /\ Top(cu).ki >= NumKeys(s, Top(cu).pg) - 1 -> Nothing(cu)
      [] cu.init /\ (cu.eof => Top(cu).ki < NumKeys(s, Top(cu).pg) - 1) ->
           Forward(s, [cu EXCEPT !.eof = FALSE])

Back(s, cu) ==
    CASE Top(cu).ki > 0 -> Found(s, SetKi(cu, cu.snum, Top(cu).ki - 1))
      [] Top(cu).ki = 0 ->
           IF HasSibling(s, cu, FALSE) THEN Found(s, Sibling(s, cu, FALSE)) ELSE Nothing(cu)

Behind(cu) == [SetKi(cu, cu.snum, Top(cu).ki + 1) EXCEPT !.eof = FALSE]

\* A cursor that is nowhere goes behind the last key first.
Prev(s, cu) ==
    CASE cu.init -> Back(s, [cu EXCEPT !.eof = FALSE])
      [] ~cu.init /\ s.root = NoPage -> Nothing(cu)
      [] ~cu.init /\ s.root # NoPage -> Back(s, Behind(Final(s, cu).cu))

Current(s, cu) ==
    CASE ~cu.init -> [cu |-> cu, key |-> Invalid]
      [] cu.init /\ PastEnd(s, cu) ->
           Nothing(SetKi(cu, cu.snum, NumKeys(s, Top(cu).pg)))
      [] cu.init /\ ~PastEnd(s, cu) -> Found(s, cu)

----------------------------------------------------------------------------
(***************************************************************************)
(* What changes the tree, mdb.c: putting and deleting a node, splitting a  *)
(* page that has no room for one, and mending pages that have become too   *)
(* empty by moving a node or merging two pages.  All keys have one length, *)
(* so that mdb_update_key never has to split a branch page.                *)
(***************************************************************************)
\* The cursors of the set C are changed by a function of their names.
Adjusted(s, C, new) ==
    [s EXCEPT !.cur = [c \in DOMAIN @ |-> IF c \in C THEN new[c] ELSE @[c]]]

Initialised(s, C) == {c \in C : s.cur[c].init}

Level(cu, t) == cu.stack[t]
On(cu, t, pg) == cu.snum >= t /\ cu.stack[t].pg = pg

\* The first key of a branch page stands for everything below the second.
Headless(leaf, nodes) ==
    IF leaf \/ nodes = <<>> THEN nodes ELSE [nodes EXCEPT ![1].key = Lowest]

----------------------------------------------------------------------------
(***************************************************************************)
(* mdb_page_split.  The split point is half of the nodes, moved so that    *)
(* both pages can hold theirs; a node at the very end goes to an almost    *)
(* empty page.                                                             *)
(***************************************************************************)
SizeOf(nodes, from, to) == MapThenSumSet(LAMBDA i : nodes[i + 1].size, from..to)

SplitIndex(all, newindx, leaf, room) ==
    LET nkeys == Len(all) - 1
        half  == (nkeys + 1) \div 2
        stop  == IF newindx >= nkeys THEN nkeys - 1 ELSE half + (IF leaf THEN 1 ELSE 0)
    IN  IF newindx <= half \/ newindx >= nkeys
        THEN Min({stop} \cup {i \in 0..stop : SizeOf(all, 0, i) > room})
        ELSE 1 + Max({half} \cup {i \in half..nkeys : SizeOf(all, i, nkeys) > room})

\* A new root above the page of cursor c, which is the old one.
GrowRoot(s, c, pp) ==
    LET cu == s.cur[c]
        s1 == NewPage(s, pp, FALSE)
    IN  [s1 EXCEPT !.pages[pp].nodes = <<Link(Lowest, s.root)>>,
                   !.root = pp,
                   !.depth = @ + 1,
                   !.cur[c] = [cu EXCEPT !.stack = <<[pg |-> pp, ki |-> 0]>> \o
                                                     SubSeq(@, 1, cu.snum),
                                         !.snum = @ + 1]]

\* The parent was split, and the left page may hang below its right half now:
\* m is the cursor on the new page.
FollowParent(s, c, m) ==
    LET cu == s.cur[c]
        p  == cu.snum - 1
    IN  IF Level(m, p).pg = Level(cu, p).pg \/ Level(cu, p).ki < NumKeys(s, Level(cu, p).pg)
        THEN s
        ELSE [s EXCEPT !.cur[c] =
                IF Level(m, p).ki > 0
                THEN SetKi(Under(cu, m, p), p, Level(m, p).ki - 1)
                ELSE Sibling(s, Under(cu, m, p), FALSE)]

\* A split x is a record: the page mp that is split and the new page rp, the
\* nodes all of both, the place newindx of the new node among them, the
\* first that goes right, whether the node replaces one, whether the root was
\* split and whether the parent was.

\* Where the cursor of the split ends up, on the new node.
AtNewNode(s, cu, m, x) ==
    LET t    == cu.snum
        p    == t - 1
        next == SetKi(Place(cu, t, x.rp, x.newindx - x.at), p, Level(cu, p).ki + 1)
    IN CASE x.newindx < x.at -> Place(cu, t, x.mp, x.newindx)
         [] x.newindx >= x.at ->
              IF Level(m, p).pg # Level(cu, p).pg /\ Level(cu, p).ki + 1 >= NumKeys(s, Level(cu, p).pg)
              THEN Under(next, m, p) ELSE next

\* Another cursor of the tree when the split was at cursor cu.
Grown(m3, cu, x) ==
    [m3 EXCEPT !.stack = <<[pg |-> Level(cu, 1).pg,
                            ki |-> IF Level(m3, 1).ki >= x.at THEN 1 ELSE 0]>> \o @,
               !.snum = @ + 1]

\* Mutant: a node put in the place of another counts as one more.
ShiftedByReplacement(m3, cu, m, x) ==
    LET t  == cu.snum
        ki == Level(m3, t).ki + (IF Level(m3, t).ki >= x.newindx THEN 1 ELSE 0)
    IN CASE On(m3, t, x.mp) ->
              IF ki >= x.at THEN Under(Place(m3, t, x.rp, ki - x.at), m, t - 1)
              ELSE SetKi(m3, t, ki)
         [] ~On(m3, t, x.mp) ->
              IF /\ ~x.didSplit
                 /\ On(m3, t - 1, Level(cu, t - 1).pg)
                 /\ Level(m3, t - 1).ki >= Level(cu, t - 1).ki
              THEN SetKi(m3, t - 1, Level(m3, t - 1).ki + 1) ELSE m3

Shifted(m3, cu, m, x) ==
    LET t  == cu.snum
        p  == t - 1
        ki == Level(m3, t).ki + (IF Level(m3, t).ki >= x.newindx /\ ~x.replace THEN 1 ELSE 0)
    IN CASE On(m3, t, x.mp) ->
              IF ki >= x.at THEN Under(Place(m3, t, x.rp, ki - x.at), m, p)
              ELSE SetKi(m3, t, ki)
         [] ~On(m3, t, x.mp) ->
              IF /\ ~x.didSplit
                 /\ On(m3, p, Level(cu, p).pg)
                 /\ Level(m3, p).ki >= Level(cu, p).ki
              THEN SetKi(m3, p, Level(m3, p).ki + 1) ELSE m3

AfterSplit(m3, cu, m, x) ==
    CASE ~x.newRoot -> Shifted(m3, cu, m, x)
      [] x.newRoot /\ Level(m3, 1).pg = x.mp -> Shifted(Grown(m3, cu, x), cu, m, x)
      [] x.newRoot /\ Level(m3, 1).pg # x.mp -> m3

\* The nodes are dealt to both pages, then the cursors follow them.
Deal(s, mp, rp, x) ==
    LET leaf == IsLeaf(s, mp)
    IN  SetNodes(SetNodes(s, mp, SubSeq(x.all, 1, x.at)),
                 rp, Headless(leaf, SubSeq(x.all, x.at + 1, Len(x.all))))

FollowSplit(s, c, m, x, cu) ==
    LET others == Initialised(s, Others(s, c))
    IN  Adjusted([s EXCEPT !.cur[c] = cu], others,
                 [o \in others |-> AfterSplit(s.cur[o], cu, m, x)])

Divided(s, c, m, x) ==
    FollowSplit(Deal(s, x.mp, x.rp, x), c, m, x, AtNewNode(s, s.cur[c], m, x))

\* mn is the cursor whose position is that of the new page.
Linked(s, c, mn, x) == Divided(Close(s, mn), c, s.cur[mn], x)

RECURSIVE Split(_, _, _, _)
LinkPage(s, c, mn, right, link, x) ==
    LET parent == Level(right, right.snum - 1)
    IN  IF Fits(s, parent.pg, link)
        THEN Linked(Insert(Open(s, mn, right), parent.pg, parent.ki, link), c, mn,
                    [x EXCEPT !.didSplit = FALSE])
        ELSE LET up == [right EXCEPT !.snum = @ - 1, !.tracked = TRUE]
                 Followed(s2) == FollowParent(s2, c, s2.cur[mn])
             IN  Linked(Followed(Split(Open(s, mn, up), mn, link, FALSE)), c, mn, x)

Halve(s, c, mn, x) ==
    LET cu == s.cur[c]
        t  == cu.snum
    IN  LinkPage(s, c, mn,
                 SetKi(Place(cu, t, x.rp, x.newindx), t - 1, Level(cu, t - 1).ki + 1),
                 Link(x.all[x.at + 1].key, x.rp), x)

Split(s, c, node, replace) ==
    LET mp      == Top(s.cur[c]).pg
        newindx == Top(s.cur[c]).ki
        leaf    == IsLeaf(s, mp)
        all     == InsertAt(Nodes(s, mp), newindx + 1, node)
        rp      == NewNumber(s, 1)
        x == [mp |-> mp, rp |-> rp, all |-> all, newindx |-> newindx,
              at |-> SplitIndex(all, newindx, leaf, Room(s, mp)),
              replace |-> replace, newRoot |-> s.cur[c].snum = 1, didSplit |-> TRUE]
    IN  Halve(IF s.cur[c].snum = 1 THEN GrowRoot(NewPage(s, rp, leaf), c, NewNumber(s, 2))
              ELSE NewPage(s, rp, leaf),
              c, Fresh(s), x)

----------------------------------------------------------------------------
(***************************************************************************)
(* mdb_node_move: one node from the page of cursor src, a neighbour, to    *)
(* the page of cursor dst.  A first branch node gets its key back from the *)
(* leaves below it, and the separators in the parent are written again.    *)
(***************************************************************************)
MovedRight(m3, t, mps, mpd, si, di) ==
    LET ki     == Level(m3, t).ki
        bumped == IF On(m3, t, mpd) /\ ki >= di THEN SetKi(m3, t, ki + 1) ELSE m3
    IN  IF On(m3, t, mps) /\ ki = si
        THEN SetKi(Place(bumped, t, mpd, di), t - 1, Level(m3, t - 1).ki + 1)
        ELSE bumped

\* Mutant: the cursor follows the node, its parent level does not.
MovedLeftInPlace(m3, t, mps, mpd, di) ==
    CASE ~On(m3, t, mps) -> m3
      [] On(m3, t, mps) /\ Level(m3, t).ki = 0 -> Place(m3, t, mpd, di)
      [] On(m3, t, mps) /\ Level(m3, t).ki > 0 -> SetKi(m3, t, Level(m3, t).ki - 1)

MovedLeft(m3, t, mps, mpd, di) ==
    LET ki == Level(m3, t).ki
    IN CASE ~On(m3, t, mps) -> m3
         [] On(m3, t, mps) /\ ki = 0 ->
              SetKi(Place(m3, t, mpd, di), t - 1, Level(m3, t - 1).ki - 1)
         [] On(m3, t, mps) /\ ki > 0 -> SetKi(m3, t, ki - 1)

\* Mutant: the parent keeps the separator it had.
SeparatedBefore(s, cu, pg) ==
    IF Top(cu).ki = 0 THEN SetNodes(s, pg, Headless(IsLeaf(s, pg), Nodes(s, pg))) ELSE s

Separated(s, cu, pg) == \* the separator of page pg, where cursor cu is, is written again
    LET up    == Level(cu, cu.snum - 1)
        nodes == Nodes(s, pg)
        s1    == IF Top(cu).ki = 0 /\ up.ki # 0 THEN SetKey(s, up.pg, up.ki, nodes[1].key) ELSE s
    IN  IF Top(cu).ki = 0 THEN SetNodes(s1, pg, Headless(IsLeaf(s, pg), nodes)) ELSE s1

NodeMove(s, src, dst, fromleft) ==
    LET cs   == s.cur[src]
        cd   == s.cur[dst]
        t    == cs.snum
        mps  == Top(cs).pg
        mpd  == Top(cd).pg
        si   == Top(cs).ki
        di   == Top(cd).ki
        key  == IF si = 0 THEN LowestKey(s, mps) ELSE NodeAt(s, mps, si).key
        node == [NodeAt(s, mps, si) EXCEPT !.key = key]
        s1   == IF di = 0 /\ ~IsLeaf(s, mpd) THEN SetKey(s, mpd, 0, LowestKey(s, mpd)) ELSE s
        s2   == Delete(Insert(s1, mpd, di, node), mps, si)
        others == {o \in Initialised(s, DOMAIN s.cur) : s.cur[o].tracked /\ s.cur[o].snum >= t}
        s3   == Adjusted(s2, others \ {src, dst},
                  [o \in others |-> IF fromleft THEN MovedRight(s.cur[o], t, mps, mpd, si, di)
                                    ELSE MovedLeft(s.cur[o], t, mps, mpd, di)])
    IN  Separated(Separated(s3, cs, mps), cd, mpd)

(***************************************************************************)
(* mdb_page_merge, the part before the parent is looked at: the nodes of   *)
(* the page of src go behind those of the page of dst, and the page of src *)
(* is taken out of the parent.                                             *)
(***************************************************************************)
\* Mutant: cursors behind the merged page keep their index in the parent.
AfterMergeHere(m3, cs, cd, nkeys) ==
    LET t == cs.snum
    IN  IF On(m3, t, Top(cs).pg)
        THEN SetKi(Place(m3, t, Top(cd).pg, Level(m3, t).ki + nkeys), t - 1, Level(cd, t - 1).ki)
        ELSE m3

AfterMerge(m3, cs, cd, nkeys) ==
    LET t == cs.snum
    IN CASE On(m3, t, Top(cs).pg) ->
              SetKi(Place(m3, t, Top(cd).pg, Level(m3, t).ki + nkeys), t - 1, Level(cd, t - 1).ki)
         [] ~On(m3, t, Top(cs).pg) ->
              IF /\ m3.snum >= t
                 /\ On(m3, t - 1, Level(cs, t - 1).pg)
                 /\ Level(m3, t - 1).ki > Level(cs, t - 1).ki
              THEN SetKi(m3, t - 1, Level(m3, t - 1).ki - 1) ELSE m3

Joined(s, src, dst) ==
    LET cs   == s.cur[src]
        cd   == s.cur[dst]
        psrc == Top(cs).pg
        pdst == Top(cd).pg
        up   == Level(cs, cs.snum - 1)
        s1   == SetNodes(s, pdst, Nodes(s, pdst) \o
                                  [Nodes(s, psrc) EXCEPT ![1].key = LowestKey(s, psrc)])
        s2   == Delete(IF Nodes(s, psrc) = <<>> THEN s ELSE s1, up.pg, up.ki)
        s3   == SetNodes(s2, up.pg, Headless(FALSE, Nodes(s2, up.pg)))
        s4   == [FreePage(s3, psrc) EXCEPT !.leaves   = IF IsLeaf(s, psrc) THEN @ - 1 ELSE @,
                                           !.branches = IF IsLeaf(s, psrc) THEN @ ELSE @ - 1]
        others == Others(s, src)
    IN  Adjusted(s4, others, [o \in others |-> AfterMerge(s.cur[o], cs, cd, NumKeys(s, pdst))])

(***************************************************************************)
(* mdb_rebalance, at the page of cursor c.                                 *)
(***************************************************************************)
FILL_THRESHOLD == 250

Full(s, pg) == \* not below the threshold
    LET fill == (1000 * Used(Nodes(s, pg))) \div Room(s, pg)
    IN  fill >= (IF IsLeaf(s, pg) THEN FILL_THRESHOLD ELSE 1)

MinKeys(s, pg) == IF IsLeaf(s, pg) THEN 1 ELSE 2

Emptied(s, c) ==
    LET mp     == Level(s.cur[c], 1).pg
        losers == {c} \cup {o \in Initialised(s, Others(s, c)) : Level(s.cur[o], 1).pg = mp}
    IN  Adjusted([FreePage(s, mp) EXCEPT !.root = NoPage, !.depth = 0, !.leaves = 0], losers,
                 [o \in losers |-> [s.cur[o] EXCEPT !.snum = 0, !.init = FALSE]])

\* Mutant: the other cursors keep the root that is gone.
CollapsedAlone(s, c) ==
    LET mp   == Level(s.cur[c], 1).pg
        root == NodeAt(s, mp, 0).child
    IN  [FreePage(s, mp) EXCEPT !.root = root, !.depth = @ - 1, !.branches = @ - 1,
                                !.cur[c].stack = [Tail(@) EXCEPT ![1].pg = root]]

Collapsed(s, c) ==
    LET mp     == Level(s.cur[c], 1).pg
        root   == NodeAt(s, mp, 0).child
        others == {o \in Initialised(s, Others(s, c)) : Level(s.cur[o], 1).pg = mp}
        s1     == Adjusted(s, others,
                    [o \in others |-> [s.cur[o] EXCEPT !.stack = Tail(@), !.snum = @ - 1]])
    IN  [FreePage(s1, mp) EXCEPT !.root = root, !.depth = @ - 1, !.branches = @ - 1,
                                 !.cur[c].stack = [Tail(@) EXCEPT ![1].pg = root]]

RECURSIVE Rebalance(_, _)

\* mdb_page_merge(src, dst), with the rebalancing of the parent through dst,
\* whose level t may come to another depth.
Releveled(s, dst, t, depth) == [s EXCEPT !.cur[dst].snum = t + (s.depth - depth)]
MergeInto(s, dst) ==
    Releveled(Rebalance([s EXCEPT !.cur[dst].snum = @ - 1], dst), dst, s.cur[dst].snum, s.depth)
Merge(s, src, dst) == MergeInto(Joined(s, src, dst), dst)

MergeRight(s, c, mn) == [Merge(s, mn, c) EXCEPT !.cur[c].eof = FALSE]

CopyBack(s, c, mn) == \* mdb_cursor_copy(mn, c)
    LET m == s.cur[mn]
    IN  [s EXCEPT !.cur[c] = [Under(@, m, m.snum) EXCEPT !.snum = m.snum, !.init = m.init,
                                                        !.del = m.del, !.eof = FALSE]]
MergeLeft(s, c, mn) ==
    CopyBack(Merge([s EXCEPT !.cur[mn] =
                       [SetKi(@, @.snum, NumKeys(s, Top(@).pg)) EXCEPT !.tracked = TRUE]], c, mn),
             c, mn)

\* The cursor is back on the node it was on.
Mended(s, c, mn, ki) == Close([s EXCEPT !.cur[c] = SetKi(@, @.snum, ki)], mn)

Mend(s, c, mn, ki) == \* with mn on the neighbour
    LET page     == Top(s.cur[c]).pg
        near     == Top(s.cur[mn]).pg
        fromleft == Level(s.cur[mn], s.cur[c].snum - 1).ki < Level(s.cur[c], s.cur[c].snum - 1).ki
        enough   == Full(s, near) /\ NumKeys(s, near) > MinKeys(s, page)
    IN CASE enough -> Mended(NodeMove(s, mn, c, fromleft), c, mn, IF fromleft THEN ki + 1 ELSE ki)
         [] ~enough /\ ~fromleft -> Mended(MergeRight(s, c, mn), c, mn, ki)
         [] ~enough /\ fromleft ->
              Mended(MergeLeft(s, c, mn), c, mn, ki + NumKeys(s, near))

Neighbour(s, c, mn) ==
    LET cu   == s.cur[c]
        t    == cu.snum
        up   == Level(cu, t - 1)
        next == IF up.ki > 0 THEN up.ki - 1 ELSE up.ki + 1
        near == NodeAt(s, up.pg, next).child
        m    == SetKi(Place(cu, t, near, IF up.ki > 0 THEN NumKeys(s, near) - 1 ELSE 0), t - 1, next)
    IN  Open([s EXCEPT !.cur[c] = SetKi(cu, t, IF up.ki > 0 THEN 0 ELSE NumKeys(s, Top(cu).pg))],
             mn, [m EXCEPT !.stack = SubSeq(@, 1, t), !.tracked = FALSE])

Rebalance(s, c) ==
    LET t  == s.cur[c].snum
        mp == Top(s.cur[c]).pg
        n  == NumKeys(s, mp)
        fine == \/ Full(s, mp) /\ n >= MinKeys(s, mp)
                \/ t = 1 /\ n > 0 /\ (n > 1 \/ IsLeaf(s, mp))
    IN CASE fine -> s
         [] ~fine /\ t = 1 /\ n = 0 -> Emptied(s, c)
         [] ~fine /\ t = 1 /\ n > 0 -> Collapsed(s, c)
         [] ~fine /\ t > 1 -> Mend(Neighbour(s, c, Fresh(s)), c, Fresh(s), Top(s.cur[c]).ki)

----------------------------------------------------------------------------
(***************************************************************************)
(* mdb_cursor_put without flags, and mdb_cursor_del.                       *)
(***************************************************************************)
FirstItem(s, c, item) ==
    LET pg == NewNumber(s, 1)
        s1 == NewPage(s, pg, TRUE)
    IN  [s1 EXCEPT !.pages[pg].nodes = <<item>>, !.root = pg, !.depth = @ + 1,
                   !.entries = @ + 1,
                   !.cur[c] = [@ EXCEPT !.stack = <<[pg |-> pg, ki |-> 0]>>, !.snum = 1,
                                        !.init = TRUE, !.del = FALSE]]

\* Cursors at or behind a node put into a page with room for it.
AfterInsert(m3, cu) ==
    LET t == cu.snum
    IN  IF On(m3, t, Top(cu).pg) /\ Level(m3, t).ki >= Top(cu).ki
        THEN SetKi(m3, t, Level(m3, t).ki + 1) ELSE m3

AddItem(s, c, item, pg, i) ==
    LET others == Others(s, c)
    IN  IF Fits(s, pg, item)
        THEN Adjusted(Insert(s, pg, i, item), others,
                      [o \in others |-> AfterInsert(s.cur[o], s.cur[c])])
        ELSE Split(s, c, item, FALSE)

Overwrite(s, c, item, pg, i) ==
    LET old == Delete(s, pg, i)
    IN CASE NodeAt(s, pg, i).size = item.size -> s
         [] NodeAt(s, pg, i).size # item.size ->
              IF Fits(old, pg, item) THEN Insert(old, pg, i, item) ELSE Split(old, c, item, TRUE)

Store(s, c, item, found) ==
    IF found THEN Overwrite(s, c, item, Top(s.cur[c]).pg, Top(s.cur[c]).ki)
    ELSE [AddItem(s, c, item, Top(s.cur[c]).pg, Top(s.cur[c]).ki)
            EXCEPT !.entries = @ + 1, !.cur[c].init = TRUE]

PutWhere(s, c, item, set) ==
    Store([s EXCEPT !.cur[c] = [set.cu EXCEPT !.del = FALSE]], c, item, set.found)

CursorPut(s, c, item) ==
    IF s.root = NoPage THEN FirstItem(s, c, item)
    ELSE PutWhere(s, c, item, CursorSet(s, s.cur[c], item.key, FALSE))

\* Mutant: cursors behind the node keep their index.
AfterDeleteInPlace(m3, cu) ==
    IF On(m3, cu.snum, Top(cu).pg) /\ Level(m3, cu.snum).ki = Top(cu).ki
    THEN [m3 EXCEPT !.del = TRUE] ELSE m3

\* mdb_cursor_del0, before the tree is rebalanced: the node goes.
AfterDelete(m3, cu) ==
    LET t == cu.snum
        k == Level(m3, t).ki
    IN CASE ~On(m3, t, Top(cu).pg) \/ k < Top(cu).ki -> m3
         [] On(m3, t, Top(cu).pg) /\ k = Top(cu).ki -> [m3 EXCEPT !.del = TRUE]
         [] On(m3, t, Top(cu).pg) /\ k > Top(cu).ki -> SetKi(m3, t, k - 1)

\* And after it: who is past the end of the page goes to the next one.
Forwarded(s, m3) ==
    CASE ~PastEnd(s, m3) -> m3
      [] PastEnd(s, m3) /\ HasSibling(s, m3, TRUE) -> Sibling(s, m3, TRUE)
      [] PastEnd(s, m3) /\ ~HasSibling(s, m3, TRUE) -> [m3 EXCEPT !.eof = TRUE]

Settled(s, c) ==
    LET t      == s.cur[c].snum
        onPage == {o \in Initialised(s, Others(s, c) \cup {c}) :
                     On(s.cur[o], t, Top(s.cur[c]).pg)}
    IN  IF t = 0 THEN s
        ELSE [Adjusted(s, onPage, [o \in onPage |-> Forwarded(s, s.cur[o])])
                EXCEPT !.cur[c].del = TRUE]

CursorDel0(s, c) ==
    LET cu     == s.cur[c]
        others == Initialised(s, Others(s, c))
        s1     == Adjusted([Delete(s, Top(cu).pg, Top(cu).ki) EXCEPT !.entries = @ - 1], others,
                           [o \in others |-> AfterDelete(s.cur[o], cu)])
    IN  Settled(Rebalance(s1, c), c)
=============================================================================

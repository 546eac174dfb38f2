----------------------------- MODULE AppendTree -----------------------------
(***************************************************************************)
(* The binary trees of simple-utils/tree.ml (Append) that lay out tuples,   *)
(* records and variants as nested pairs and unions.  Elements are appended  *)
(* on the right; size and full say when a subtree is complete, and are read *)
(* by append' only.                                                         *)
(***************************************************************************)
EXTENDS Naturals, SequencesExt

Leaf(x) == [leaf |-> x]
Node(a, b, size, full) == [a |-> a, b |-> b, size |-> size, full |-> full]
IsLeaf(t) == "leaf" \in DOMAIN t

RECURSIVE AppendTo(_, _), ToList(_), PathsTo(_, _), Depth(_)

\* Mutant: a node is full as soon as its right subtree is.
FullWhenRightFull(n, b) == [n EXCEPT !.b = b, !.full = b.full]

\* Mutant: the grown subtree replaces the left one.
WithLeft(n, b) ==
    [n EXCEPT !.a = b, !.full = b.full /\ b.size = n.a.size]

\* Node{n with b}, full when both subtrees are complete and of one size.
WithRight(n, b) ==
    [n EXCEPT !.b = b, !.full = b.full /\ b.size = n.a.size]

\* append': a new level on a full tree, the right subtree otherwise.
AppendTo(t, x) ==
    IF IsLeaf(t) THEN Node(t, Leaf(x), 1, TRUE)
    ELSE IF t.full THEN Node(t, Leaf(x), t.size + 1, FALSE)
    ELSE WithRight(t, AppendTo(t.b, x))

\* of_list, for a list that is not empty
OfList(s) == FoldLeft(AppendTo, Leaf(Head(s)), Tail(s))

ToList(t) == IF IsLeaf(t) THEN <<t.leaf>> ELSE ToList(t.a) \o ToList(t.b)

\* The paths that lead to a leaf x.
PathsTo(t, x) ==
    IF IsLeaf(t) THEN IF t.leaf = x THEN {<< >>} ELSE {}
    ELSE {<<"Left">> \o path : path \in PathsTo(t.a, x)}
           \union {<<"Right">> \o path : path \in PathsTo(t.b, x)}

\* Mutant: false and true are read as Right and Left.
MirrorPath(t, x) ==
    LET path == CHOOSE path \in PathsTo(t, x) : TRUE
    IN  [i \in DOMAIN path |-> IF path[i] = "Left" THEN "Right" ELSE "Left"]

\* exists_path: the elements of a layout are distinct.
ExistsPath(t, x) == CHOOSE path \in PathsTo(t, x) : TRUE

Depth(t) ==
    IF IsLeaf(t) THEN 0
    ELSE 1 + (IF Depth(t.a) > Depth(t.b) THEN Depth(t.a) ELSE Depth(t.b))
=============================================================================

------------------------------ MODULE TypedData ------------------------------
(***************************************************************************)
(* How data reach Michelson and come back: tuples, records and variants are *)
(* laid out on append trees (transpiler.ml), a typed value becomes a Mini_c *)
(* expression, and the Michelson value that a run leaves is uncompiled      *)
(* (uncompiler.ml) and untranspiled (transpiler.ml) along the type.         *)
(***************************************************************************)
EXTENDS CompilerProgram, AppendTree

-----------------------------------------------------------------------------
(* Types and values of the typed syntax tree.  The labels of a record or of *)
(* a variant are in the order of Map.String, those of a tuple are indices.  *)

IntType == [is |-> "int"]
Product(labels, parts) == [is |-> "product", labels |-> labels, parts |-> parts]
Sum(labels, parts) == [is |-> "sum", labels |-> labels, parts |-> parts]
OptionOf(t) == [is |-> "option", parts |-> <<t>>]
ListOf(t) == [is |-> "list", parts |-> <<t>>]

IntValue(n) == [is |-> "int", num |-> n]
Fields(vs) == [is |-> "fields", parts |-> vs]
Constructor(label, v) == [is |-> "constructor", label |-> label, arg |-> v]
Elements(vs) == [is |-> "elements", parts |-> vs]
SomeOf(v) == [is |-> "some", arg |-> v]
NoneOf == [is |-> "none"]

\* Where the label of a product or of a sum is.
IndexOf(t, label) == CHOOSE i \in DOMAIN t.labels : t.labels[i] = label
HasLabel(t, label) ==
    t.is \in {"product", "sum"} /\ label \in Range(t.labels)
PartOf(t, label) == t.parts[IndexOf(t, label)]

\* The tree a product or a sum is laid out on.
Layout(t) ==
    OfList([i \in DOMAIN t.labels |-> [label |-> t.labels[i], type |-> t.parts[i]]])

LeafOf(t, label) == [label |-> label, type |-> PartOf(t, label)]

-----------------------------------------------------------------------------
(* translate_annotated_expression, on data *)

RECURSIVE FoldPairs(_), Inject(_, _, _), ValueExpr(_, _), MatchTree(_, _, _)

\* E_tuple, E_record: the tree of the components folded with PAIR.
FoldPairs(tree) ==
    IF IsLeaf(tree) THEN tree.leaf
    ELSE Constant("PAIR", <<FoldPairs(tree.a), FoldPairs(tree.b)>>)

\* E_constructor: LEFT or RIGHT at each node above the constructor's leaf.
Inject(tree, leaf, e) ==
    IF IsLeaf(tree) THEN e
    ELSE IF leaf \in Range(ToList(tree.a))
    THEN Constant("LEFT", <<Inject(tree.a, leaf, e)>>)
    ELSE Constant("RIGHT", <<Inject(tree.b, leaf, e)>>)

\* Mutant: the list is consed in the order of its elements' evaluation.
ListInOrder(elems) ==
    FoldRight(LAMBDA cur, prev : Constant("CONS", <<cur, prev>>),
              elems, MakeEmptyList)

\* E_list: bind_fold_list conses the first element first.
ListExpr(elems) ==
    FoldLeft(LAMBDA prev, cur : Constant("CONS", <<cur, prev>>),
             MakeEmptyList, elems)

ValueExpr(v, t) ==
    LET components == [i \in DOMAIN t.parts |-> ValueExpr(v.parts[i], t.parts[i])]
        elems == [i \in DOMAIN v.parts |-> ValueExpr(v.parts[i], t.parts[1])]
    IN
    CASE t.is = "int" -> Literal(Number(v.num))
      [] t.is = "product" -> FoldPairs(OfList(components))
      [] t.is = "sum" -> Inject(Layout(t), LeafOf(t, v.label),
                                ValueExpr(v.arg, PartOf(t, v.label)))
      [] t.is = "list" -> ListExpr(elems)
      [] t.is = "option" ->
            IF v = NoneOf THEN MakeNone
            ELSE Constant("SOME", <<ValueExpr(v.arg, t.parts[1])>>)

\* tuple_access_to_lr, record_access_to_lr
AccessToLR(t, label) == ExistsPath(Layout(t), LeafOf(t, label))

\* Mutant: the components of a path are read from the innermost pair.
ProjectReversed(e, lr) ==
    FoldRight(LAMBDA side, pred :
                 Constant(IF side = "Left" THEN "CAR" ELSE "CDR", <<pred>>), lr, e)

Project(e, lr) ==
    FoldLeft(LAMBDA pred, side :
                Constant(IF side = "Left" THEN "CAR" ELSE "CDR", <<pred>>), e, lr)

\* Nested accessors, the outermost component first.
AccessExpr(e, t, path) ==
    FoldLeft(LAMBDA acc, label :
                [expr |-> Project(acc.expr, AccessToLR(acc.type, label)),
                 type |-> PartOf(acc.type, label)],
             [expr |-> e, type |-> t], path).expr

\* E_assign: the path is translated by a fold from its last access, each
\* against the type reached so far, and is refused where that type has no
\* such component.
AssignedPath(t, path) ==
    FoldRight(LAMBDA label, acc :
                 IF acc.refused \/ ~HasLabel(acc.type, label)
                 THEN [acc EXCEPT !.refused = TRUE]
                 ELSE [refused |-> FALSE, type |-> PartOf(acc.type, label),
                       lr |-> acc.lr \o AccessToLR(acc.type, label)],
              path, [refused |-> FALSE, type |-> t, lr |-> << >>])

\* The clause of a constructor, its parameter bound to what was unwrapped.
MatchLeaf(tree, top, clause) ==
    LET c == clause[tree.leaf.label] IN LetIn(c.binder, top, c.body)

\* E_matching on a variant: nested E_if_left, whose binders are left and right.
MatchTree(tree, top, clause) ==
    IF IsLeaf(tree) THEN MatchLeaf(tree, top, clause)
    ELSE MatchEither(top,
            "left", MatchTree(tree.a, Variable("left"), clause),
            "right", MatchTree(tree.b, Variable("right"), clause))

-----------------------------------------------------------------------------
(* The way back. *)

RECURSIVE Uncompile(_), Untranspile(_, _), Extract(_, _), ExtractConstructor(_, _)

\* uncompiler.ml translate_value.  List.fold_left is given the list as the
\* accumulator and no elements, so that List.rev reverses it.
Uncompile(m) ==
    CASE m.is = "pair" -> PairOf(Uncompile(m.fst), Uncompile(m.snd))
      [] m.is \in {"some", "left", "right"} -> Wrap(m.is, Uncompile(m.fst))
      [] m.is = "list" ->
            List(Reverse([i \in DOMAIN m.elems |-> Uncompile(m.elems[i])]))
      [] m.is \in {"int", "none"} -> m

\* extract_tuple, extract_record
Extract(m, tree) ==
    IF IsLeaf(tree) THEN <<Untranspile(m, tree.leaf.type)>>
    ELSE Extract(m.fst, tree.a) \o Extract(m.snd, tree.b)

ExtractConstructor(m, tree) ==
    IF IsLeaf(tree)
    THEN Constructor(tree.leaf.label, Untranspile(m, tree.leaf.type))
    ELSE ExtractConstructor(m.fst, IF m.is = "left" THEN tree.a ELSE tree.b)

Untranspile(m, t) ==
    CASE t.is = "int" -> IntValue(m.num)
      [] t.is = "product" -> Fields(Extract(m, Layout(t)))
      [] t.is = "sum" -> ExtractConstructor(m, Layout(t))
      [] t.is = "option" ->
            IF m = None THEN NoneOf ELSE SomeOf(Untranspile(m.fst, t.parts[1]))
      [] t.is = "list" ->
            Elements([i \in DOMAIN m.elems |-> Untranspile(m.elems[i], t.parts[1])])
==============================================================================

---------------------------- MODULE MCTranspiler ----------------------------
(***************************************************************************)
(* Tuples, records and variants of up to five components, one level of      *)
(* nesting, options and lists.  Every integer of a value is different, so   *)
(* that a component in another's place is noticed.                          *)
(***************************************************************************)
EXTENDS Transpiler

Labels(n) == [i \in 1..n |-> i]
Flat(n) == Product(Labels(n), [i \in 1..n |-> IntType])
Ints(first, n) == Fields([i \in 1..n |-> IntValue(first + i)])

\* A product of n components of which the i-th is the product Flat(k).
Nest(n, i, k) ==
    Product(Labels(n), [j \in 1..n |-> IF j = i THEN Flat(k) ELSE IntType])
NestValue(n, i, k) ==
    Fields([j \in 1..n |-> IF j = i THEN Ints(10, k) ELSE IntValue(j)])

\* A product of two products: every path of length two leads to an integer.
Square == Product(Labels(2), <<Flat(2), Flat(2)>>)
SquareValue == Fields(<<Ints(10, 2), Ints(20, 2)>>)

Choice(n, t) == Sum(Labels(n), [i \in 1..n |-> IF i = 2 THEN t ELSE IntType])
ChoiceValues(n, v) ==
    {Constructor(i, IF i = 2 THEN v ELSE IntValue(i)) : i \in 1..n}

Numbers(n) == Elements([i \in 1..n |-> IntValue(i)])

\* Pairs of a type and a value of it.
Samples ==
    {<<Flat(n), Ints(0, n)>> : n \in 1..5}
    \union {<<Nest(n, i, k), NestValue(n, i, k)>> : <<n, i, k>> \in
              {x \in (2..5) \X (1..5) \X (2..3) : x[2] <= x[1]}}
    \union {<<Square, SquareValue>>}
    \union UNION {{<<Choice(n, Flat(2)), v>> : v \in ChoiceValues(n, Ints(10, 2))} :
                     n \in 2..5}
    \union {<<OptionOf(Flat(2)), v>> : v \in {NoneOf, SomeOf(Ints(0, 2))}}

Lists == {<<ListOf(IntType), Numbers(n)>> : n \in 0..4}
         \union {<<ListOf(Flat(2)), Elements(<<Ints(0, 2), Ints(10, 2)>>)>>,
                 <<ListOf(ListOf(IntType)), Elements(<<Numbers(2), Numbers(3)>>)>>,
                 <<OptionOf(ListOf(IntType)), SomeOf(Numbers(3))>>}

Literals ==
    {[does |-> "literal", arg |-> IntType, in |-> IntValue(0),
      val |-> x[2], out |-> x[1]] : x \in Samples \union Lists}

Identities(samples) ==
    {[does |-> "identity", arg |-> x[1], in |-> x[2], out |-> x[1]] : x \in samples}

Products == {x \in Samples : x[1].is = "product"}
Steps(t) == {<<i>> : i \in Range(t.labels)}
TwoSteps(t) ==
    UNION {{<<i, j>> : j \in Range(PartOf(t, i).labels)} :
              i \in {k \in Range(t.labels) : PartOf(t, k).is = "product"}}

RECURSIVE TypeAt(_, _)
TypeAt(t, path) ==
    IF path = << >> THEN t ELSE TypeAt(PartOf(t, Head(path)), Tail(path))

Accesses ==
    UNION {{[does |-> "access", arg |-> x[1], in |-> x[2], path |-> path,
             out |-> TypeAt(x[1], path)] :
               path \in Steps(x[1]) \union TwoSteps(x[1])} : x \in Products}

AssignmentsAt(Paths(_)) ==
    UNION {{[does |-> "assign", arg |-> x[1], in |-> x[2], path |-> path,
             val |-> IntValue(99), out |-> x[1]] :
               path \in {p \in Paths(x[1]) : TypeAt(x[1], p) = IntType}} :
           x \in Products}

Variants == {x \in Samples : x[1].is = "sum" /\ x[2].arg.is = "int"}

\* A clause for each constructor, which returns its parameter or b.
Matches ==
    UNION {{[does |-> "match", arg |-> x[1], in |-> x[2], out |-> IntType,
             clause |-> [i \in Range(x[1].labels) |->
                            [binder |-> s, body |-> Variable(body)]]] :
               body \in {"b", s}} : x \in Variants, s \in {"x", "v"}}

-----------------------------------------------------------------------------
(* Functions of statements: of an integer a, with a local variable b, that   *)
(* return both.  Inner declarations may hide a or b.                         *)

Lowered(s) == Call("SUB", <<Name(s), Num(1)>>)
Positive(s) == Call("GT", <<Name(s), Num(0)>>)
Both == Tuple(<<Name("a"), Name("b")>>)

Function(block) ==
    FunDecl(<<Param("a", IntType)>>, <<Declare("b", Num(1))>> \o block, Both)

Values == {Lowered("a"), Call("SUB", <<Name("b"), Name("a")>>)}
Assigns == {Assign(s, IntType, << >>, e) : s \in {"a", "b"}, e \in Values}
Lowers == {Assign(s, IntType, << >>, Lowered(s)) : s \in {"a", "b"}}
Declares == {Declare(s, e) : s \in {"a", "b"}, e \in Values}

Blocks ==
    {<<x>> : x \in Lowers} \union {<<d, x>> : d \in Declares, x \in Lowers}
    \union {<<x, y>> : x \in Lowers, y \in Assigns}
    \union {<<x, d>> : d \in Declares, x \in Lowers}       \* missing return

Failures == {Fail(Name(s)) : s \in {"a", "b"}}

\* The arms of a case, in both orders.
Cases(b1, b2, x, y) == {<<Clause(b1, "x", x), Clause(b2, "x", y)>>,
                        <<Clause(b2, "x", y), Clause(b1, "x", x)>>}

Instructions ==
    {WhileDo(Positive(s), block) : s \in {"a", "b"}, block \in Blocks}
    \union {Cond(Positive(s), <<x>>, block) :
               s \in {"a", "b"}, x \in Failures \union Lowers, block \in Blocks}
    \union UNION {{CaseInstr(Positive("a"), << >>, c) :
                      c \in Cases("True", "False", <<x>>, <<y>>)} :
                  x \in Failures \union Lowers, y \in Lowers}
    \union UNION {{CaseInstr(Call("SOME", <<Lowered("a")>>), << >>, c) :
                      c \in Cases("Some", "None", <<x>>, <<Nop>>)} :
                  x \in {Assign(s, IntType, << >>, Name("x")) : s \in {"a", "b"}}}

\* A statement in a loop that lowers a, a statement before or after another.
StatementBlocks ==
    {<<i>> : i \in Instructions}
    \union {<<x, i>> : x \in Declares \union Assigns,
                       i \in {j \in Instructions : j.s \in {"while", "case"}}}
    \union {<<WhileDo(Positive("a"), <<i, Assign("a", IntType, << >>, Lowered("a"))>>)>> :
               i \in {j \in Instructions : j.s \in {"if", "case"}}}

OfInteger ==
    {[does |-> "function", fun |-> Function(block), arg |-> IntType,
      in |-> IntValue(n), out |-> Flat(2)] : block \in StatementBlocks, n \in {0, 2}}

\* Record patches whose fields read one another.
FieldOf(n, i) == Access("r", Flat(n), <<i>>)
FieldValues(n) ==
    {FieldOf(n, 1), Call("SUB", <<FieldOf(n, n), FieldOf(n, 1)>>), Num(5)}

Patches ==
    UNION {{[does |-> "function", arg |-> Flat(n), in |-> Ints(2, n), out |-> Flat(n),
             fun |-> FunDecl(<<Param("r", Flat(n))>>,
                <<PatchRecord("r", Flat(n), <<<<i, x>>, <<j, y>>>>)>>, Name("r"))] :
               i \in 1..n, j \in 1..n, x \in FieldValues(n), y \in FieldValues(n)} :
           n \in 2..3}

\* Several parameters, one of which may have the name of their tuple.
ParameterNames == {<<"a", "b">>, <<"b", "a", "c">>, <<"a", "b", "c", "d">>,
                   <<"a", "arguments">>, <<"c", "b", "arguments">>}

Params(names) == [i \in DOMAIN names |-> Param(names[i], IntType)]

Several ==
    {[does |-> "function", arg |-> Flat(Len(names)), in |-> Ints(2, Len(names)),
      out |-> Flat(Len(names)),
      fun |-> FunDecl(Params(names), <<Nop>>,
                      Tuple([i \in DOMAIN names |-> Name(names[i])]))] :
        names \in ParameterNames}

\* The same functions, declared in another one that calls them.
Calls ==
    {[does |-> "function", arg |-> IntType, in |-> IntValue(2), out |-> Flat(2),
      fun |-> Function(
        <<DeclareFunction("f", FunDecl(Params(names), <<Declare("b", Name(names[1]))>>,
                            Call("SUB", <<Name("b"), Name(names[Len(names)])>>))),
          Assign("b", IntType, << >>,
              Apply("f", [i \in DOMAIN names |-> IF i = 1 THEN Name("b") ELSE Lowered("a")]))>>)] :
        names \in ParameterNames \union {<<"a">>, <<"b">>}}

-----------------------------------------------------------------------------
(* Matches on variants.  The types declared, the most recent first; the     *)
(* value matched is of the first, whose constructors an older one may have.  *)

Variant(labels) == Sum(labels, [i \in DOMAIN labels |-> IntType])

TypeEnvironments ==
    {<<Variant(<<"A", "B">>)>>, <<Variant(<<"A", "B">>), Variant(<<"C", "D">>)>>,
     <<Variant(<<"A", "B", "C">>), Variant(<<"A", "B">>)>>}

CaseSequences(labels) ==
    UNION {[1..k -> Range(labels)] : k \in 1..(Len(labels) + 1)}

VariantCases ==
    UNION {{[does |-> "function", arg |-> types[1], in |-> Constructor(l, IntValue(5)),
             out |-> IntType,
             fun |-> FunDecl(<<Param("v", types[1])>>,
                <<Declare("r", Num(7)),
                  CaseInstr(Name("v"), types, [i \in DOMAIN labels |->
                      Clause(labels[i], "x",
                             <<IF labels[i] = "A" THEN Nop
                               ELSE Assign("r", IntType, << >>,
                                        Call("SUB", <<Name("x"), Num(i)>>))>>)])>>,
                Name("r"))] :
              labels \in CaseSequences(types[1].labels), l \in Range(types[1].labels)} :
           types \in TypeEnvironments}

StatementSources == OfInteger \union Patches \union Several \union Calls \union VariantCases

\* Variables with the names the compiler gives to its own.
Clash(names, types, in, block, return) ==
    [does |-> "function", in |-> in, out |-> IntType,
     arg |-> IF Len(types) = 1 THEN types[1] ELSE Product(<<1, 2>>, types),
     fun |-> FunDecl([i \in DOMAIN names |-> Param(names[i], types[i])], block,
                     Name(return))]

NameClashes ==
    {Clash(<<"arguments", "b">>, <<Flat(2), IntType>>,
           Fields(<<Ints(0, 2), IntValue(9)>>), <<Nop>>, "b")}
    \union {Clash(<<"v">>, <<Variant(<<"A", "B">>)>>, Constructor(l, IntValue(5)),
                  <<Declare(s, Num(7)), Declare("r", Num(3)),
                    CaseInstr(Name("v"), <<Variant(<<"A", "B">>)>>,
                        <<Clause("A", "x", <<Assign("r", IntType, << >>, Name(s))>>),
                          Clause("B", "x", <<Assign("r", IntType, << >>, Name(s))>>)>>)>>,
                  "r") : s \in {"left", "right"}, l \in {"A", "B"}}

DataSources == Literals \union Identities(Samples) \union Accesses
                  \union AssignmentsAt(Steps) \union Matches
                  \union StatementSources
NestedAssignments == AssignmentsAt(TwoSteps)
ListArguments == Identities(Lists)
=============================================================================

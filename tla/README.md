# A TLA+ development of the LIGO repository

LIGO compiles small functional and imperative languages (PascaLIGO,
and two syntaxes in the style of OCaml) to Michelson, the stack language of Tezos contracts.
The repository also carries a modified Tezos node, `vendors/tezos-modded`,
with the C libraries below it: the storage engine LMDB and the signature
libraries secp256k1 and uECC. These modules model the parts of all this in which
a mistake is silent:

* in the compiler, the generation of stack code from named expressions, the layout
  of data, the meaning of statements, the way back from Michelson values to values
  of the source language and, at the other end, the token stream a parser reads;
* in the storage, transactions, the reuse of pages, recovery, and trees that change
  under open cursors;
* in the signature libraries, numbers in limbs that are reduced late, and
  curves, keys and signatures computed with them.

Paths below are relative to the repository root; `src/` is its source directory,
`vendors/ligo-utils` its own utility libraries. C files without a directory are under
`vendors/tezos-modded/vendors/ocaml-{lmdb,secp256k1,uecc}/src`.

Contents: 1 the system, 2 modules and code, 3 runs, 4 fairness and deadlock,
5 proofs, 6 findings and remarks, 7 limits (not modelled), 8 plan.

## 1. The system

### The compiler

One run of the driver goes through these stages, each a pure function that
returns a result or a trace of errors:

    file -> lexer, parser -> Simplify -> Typer -> Transpiler -> Compiler -> Michelson
                                                                              |
                     value <- untype <- untranspile <- Uncompiler <- interpreter

There are no threads and no storage in it. What makes it hard is not
concurrency but *correspondence*: two pieces of code computed apart from each
other that must agree (names and stack positions, packing and unpacking, the
tree a value is built on and the one it is read on, the environment a fragment
is generated for and the one it runs in), over sequences of operations and
nestings of scopes far longer than any test writes down. Michelson's type check
runs on each generated fragment and turns a disagreement of types into an
error; it cannot see one between two positions of the same type. That is the
case the models are about.

### The storage

`raw_store.ml` of tezos-modded's `lib_storage` keeps the node's state in one LMDB
environment through `lmdb.ml`. An environment is a file with two meta
pages and a lock file shared by the processes that have it open. Readers take a slot
of the readers' table and then no lock at all; one writer at a time, under a robust
mutex, copies the pages it changes and reuses old ones when no reader is old
enough to need them. Processes die, the machine stops, disks are full. Inside a
write transaction several cursors are open on one tree while puts and deletes
split, merge and collapse its pages. Here the hazards are interleavings, recovery and
state that another call has changed.

### The signature libraries

`ocaml-secp256k1` and `ocaml-uecc` compute on arrays of machine words whose contents
are bounded by conventions ("magnitude", carry-free room) that hold over
sequences of calls. They have no concurrency and no failure; their hazards are carries at
boundaries, and agreement between representations, tables and digits.

| component | state | operations | what makes it correct |
|---|---|---|---|
| Compiler environment (`src/compiler/compiler_environment.ml`, `src/mini_c/environment.ml`) | compile-time list of names; the Michelson stack at run time | `get`, `set`, `select`, `clear`, `pack`, `unpack` | position in the list = position on the stack; a name denotes its innermost binding; leaving a scope drops the bindings of that scope only |
| Expression compiler (`src/compiler/compiler_program.ml`) | environment before and after each subexpression | `translate_expression` by cases, `translate_quote_body`, `translate_entry` | generated code type-checks, leaves one value, and computes what the expression means |
| Closures (`transpiler.ml` `translate_lambda*`, `pack_select`, `unpack`, `E_application`) | captured environment, packed pair | select free variables, pack, apply, unpack, return | a body sees the values its variables had where the lambda was made |
| Transpiler (`src/transpiler/transpiler.ml`) | none | types to trees of pairs and unions; values, accessors, assignments, matches | every operation on one type uses one layout |
| Append trees (`vendors/ligo-utils/simple-utils/tree.ml`) | the tree with `size` and `full` | `append`, `of_list`, `exists_path`, folds | balanced, order-preserving, and of a shape that depends on the length only |
| Uncompiler, untranspiler (`src/compiler/uncompiler.ml`, `transpiler.ml`) | none | Michelson value to Mini_c value to typed value | inverse of the way in |
| Typer, operators (`src/typer/typer.ml`, `src/ast_typed`, `src/operators`) | environment of names, types and constructors | declarations, expressions, `type_match` | matches are exhaustive; a typed path leads to a component of that type |
| Simplifiers (`src/simplify`) | none | statements to nested lets, parameters to a tuple, patches to assignments | binding structure and order of effects are preserved |
| PascaLIGO lexer (`src/parser/pascaligo/Lexer.mll`, `FQueue.ml`) | queue of lexical units, saved buffer region, position | `read_token`, `check_right_context`, `scan` | each token once, in order, with its own region, whatever was looked ahead |
| LMDB transactions (`mdb.c`) | meta pages, readers' table, free list, dirty pages, mutexes | begin, read, write, commit, abort, nested transactions, clearing stale readers, opening, recovery | a reader sees one committed version throughout; a commit is whole or absent, and no synchronous one is lost; every page is in use or free, once |
| LMDB trees and cursors (`mdb.c`, `lmdb.ml`, `raw_store.ml`) | tree of pages, cursors as paths of pages and indices | search, moves, put with splits, delete with rebalancing, removal of a directory | the tree is an ordered map, and each cursor keeps its place in it whatever the others do |
| LMDB page-number lists (`midl.c`) | descending lists with their capacity | search, append, ranges, merge, sort, grow, shrink | nothing is lost, invented or doubled |
| secp256k1 (`field_*`, `scalar_*`, `group_impl.h`, `ecmult*`, `ecdsa_impl.h`, `secp256k1.c`) | limbs with magnitudes; tables; blinding | field and scalar arithmetic, group law, multiplications, sign, verify, recover, tweaks, encodings | limbs hold the number meant within the room that the next call relies on; multiples are those meant; signatures verify and give their keys back |
| uECC (`uECC.c`, `curve-specific.h`, `uecc.ml`) | words | multi-word and modular arithmetic, ladder, keys, compression, shared secrets, signatures | the same |
| Parsers, printers, result monad, Meta-Michelson, command line | generated automata; formatting | | not about order or state |
| Michelson interpreter and type checker (`vendors/tezos-modded`) | stack | parse, type-check, interpret | external to the repository's own code |

In the compiler, components interact by calls only. The Expression compiler calls the Compiler
environment for fragments and is told which environment describes the stack
afterwards; the Transpiler decides which lambda is a closure and hands the
captured environment to the Expression compiler inside types; the driver calls
the whole chain twice, once for the argument and once for the function
(`src/main/main.ml:29-40`, `:88-125`), so a value may cross the Uncompiler more
than once. In the storage, processes interact through the file, the lock file
and two robust mutexes; the operations of a write transaction on trees interact through the
pages they share and the list of open cursors (`mt_cursors`).

Errors (the `result` monad, `trace.ml`) end a compilation. In the models a
refused program is either a behaviour that reaches a `rejected` state (Closures)
or one that is not among the initial states (`Accepted` in Transpiler).

## 2. Modules and the code they model

### Compiler

| module | models | state |
|---|---|---|
| `NamedEnvironment` | what an environment promises: named bindings, innermost first; produce, bind, forget, look up, assign, leave a scope in one step | `bindings` |
| `Environments` | the two readings of a list of names that the code relies on: `List.assoc_i` and a selector read as a multiset | none |
| `CompilerEnvironment` | `get`, `set`, `select`, `select_env`, `clear`, one step per instruction, and the code around them | `env` (names), `stack` and `held` (values in reach, values set aside by DIPs), `pc`, the locals of a fragment (`target`, `selector`, `keep`, `floor`), `entry` (history) |
| `Closures` | the life of one lambda, from its free variables to its return | `leftNested` (which nesting of pairs), `env`, `uses`, `scan`, `selector`, `keep`, `stack`, `held`, `caller`, `original` (history), `pc` |
| `Michelson` | the machine generated code runs on; external | `code`, `stack` |
| `MiniC` | expressions and `Eval`, their meaning as evaluation with a store | none |
| `CompilerProgram` | `translate_expression`, `translate_quote_body`, `translate_entry` as the function `Compile` from expressions and environments to code and environments | none |
| `ProgramRun` | `run_mini_c.ml`: a compiled function runs on an input | the machine, `program`, `input` |
| `AppendTree` | `tree.ml`; `MCLibraries` lets a tree grow element by element | none |
| `TypedData` | layouts of tuples, records and variants; typed values on the way in and out | none |
| `Simplifier` | matches on variants (`typer.ml`: the type found by the names of its constructors, exhaustiveness); PascaLIGO statements and functions of several parameters as expressions, and a semantics of statements on a store as the reference | none |
| `Transpiler` | one function on one argument through all of these and back | the machine, `source` |
| `Lexer` | the pair of lists of `FQueue.ml`; the regular expressions of `Lexer.mll`, the order of the clauses of its rules, ocamllex's choice among them, positions; the scanning rules, one match per step, and the token stream over them (`read_token`, `check_right_context`, `scan`, the patching of the lexing buffer) | `text`, `at`, `buffer` (the `lexbuf`); `bufReg`, `firstCall`, `units`, `markup`, `last`, `pos` (the references of `open_token_stream`); `pc`, `caller`, `token`, `thread`, `frames` (the calls in progress); `log`, `delivered`, `error` (what the clients see) |
| `CompilerEnvironmentProofs`, `ClosuresProofs`, `LexerProofs` | theorems (section 5) | |

How names and steps correspond:

* A fragment of the compiler environment is Michelson code nested in DIPs,
  produced by a recursion on a position. `CompilerEnvironment` runs it without
  building it. Going down, `GetDip`, `SetSwapDip` and `SelectDip` enter one DIP
  each and move the value they set aside to `held`; `GetDup`, `SetDrop` and
  `SelectBottom` are the innermost code; going up, `GetSwap`, `SetUndip`,
  `SelectKeep` and `SelectDrop` are what follows each DIP. The recursion's argument
  is `target - Len(held)`.
* `ScanKeep` and `ScanSkip` are the compile-time fold of `select`
  (`compiler_environment.ml:94-99`), from the outermost binding inwards, with
  its selector as a count for each name.
* Client actions (`Push`, `Bind`, `Drop`, `CallGet`, `CallSet`, `RestrictTo`, `RestrictBlock`, `Clear`)
  are the ways `compiler_program.ml` calls the environment. They may come in
  any order: a superset of what any program compiles to, so what holds here
  holds of all of them.
* `Compile(e, env)` has one case for each kind of expression; the code that combines
  the parts is in one operator per expression (`LetCode`, `WhileCode`, ...),
  with the environments passed around as in the source, the stale ones
  included (`env` and not `env'` in `AssignmentCode`, see hazards).
* `TYPED(names)` in generated code is the type check that `return` performs after
  each expression (`compiler_program.ml:92-123`), reduced to the height of the
  stack; together with `Operands` it gives `Typechecks`.
* `Layout`, `FoldPairs`, `Inject`, `AccessToLR`, `MatchTree`, `Extract` and
  `ExtractConstructor` are the seven places of `transpiler.ml` that must agree
  on the tree of a type.
* In `Simplifier`, `Statements` and `Block` are the fold from the right of
  `simpl_statements` (a declaration is a let around what follows, an instruction a
  sequence before it); the reference runs the same statements one after another on a store.
* In `Lexer`, an action is one match of a rule with its semantic action, or one
  part of the token stream between two scans. `units`, `markup`, `last` and `pos`
  are the fields of the record `state` that the rules thread. A rule called in
  tail position replaces `pc`; `scan_block`, which is not, pushes the opening of
  its comment on `frames` and takes it back when the inner construct ends. An
  exception loses the state threaded so far; nothing reads it afterwards, since
  `LexerLog.trace` and the parser stop at the first error.
* The clauses of a rule overlap. `Longest` chooses as ocamllex does, the longest match and
  then the first clause, so a clause that is never chosen, like `'-'` at
  `Lexer.mll:574` (`symbol` matches a minus sign first), is in `Clauses` but has
  no action.

### Storage

| module | models | state |
|---|---|---|
| `MvccStore` | what LMDB promises without pages: a sequence of versions, snapshots, publication, crashes | `versions`, `published`, `durable`, each reader's version and the writer's draft |
| `LmdbPages` | the private steps of a write transaction on its pages: copying, allocating, freeing, saving the free list, nesting | none; a transaction is the record `w` |
| `LmdbTxn` | every step of `mdb.c`'s transactions on the file, the lock file and the mutexes; deaths, a stop of the machine, full maps and tables, failing writes | the file and its versions since the last sync, the lock file, the record of each process |
| `LmdbTxnProofs`, `LmdbStoreProofs` | theorems (section 5) | |
| `OrderedMap` | what cursors promise in a write transaction, without pages: a map in order, and a position for each cursor | `data`, `pos`, `ended`, `answer` |
| `BTree` | pages, search, the moves of a cursor; insertion with splits, deletion with moves and merges, the fix-ups of the other cursors | none; a tree is a record |
| `LmdbTree` | calls through the caller's cursors, `mdb_put`, `mdb_del` and `remove_dir` | `tree`, `answer`, `bound` |

* In `LmdbTxn` a step that touches what others see is an action: loading the last
  transaction, storing it in the slot and checking it again are three, as are the scan of
  each slot by `mdb_find_oldest`, the write of a page, the sync, the write of the meta page and
  its publication. What a writer does to its own pages between two such steps is in `LmdbPages`.
* After a stop of the machine each page of the file is any of its versions since the
  last sync (`AfterStop`; external: the page cache and the disk). A death leaves
  the file, the lock file and a mutex that the next process finds dead.
* In `BTree` a cursor is the path of pages from the root with an index in each, as
  `mc_pg` and `mc_ki` are; `snum`, `init`, `eof` and `del` are its fields and flags of the same
  names. Each loop of the code over `mt_cursors` is an operator named for what it does:
  `Shifted`, `MovedLeft`, `AfterMerge`, `Collapsed`, `AfterDelete`. Pages are
  renumbered in preorder between calls, since nothing depends on the numbers.
* `Put` and `Del` run on a temporary cursor that is tracked while they do, as
  `mdb_put` and `mdb_del0` track theirs. `RemoveDir` is `remove_dir` of `raw_store.ml` outside a
  transaction and `RemoveDirInside` that in a caller's transaction.

### Signature libraries and lists

| module | models |
|---|---|
| `Limbs` | arrays of words: residue, digits, columns of a product, cutting to a word |
| `Field10x26`, `Field5x52` | the two field representations of secp256k1 with their normalisations and reductions (5x52 in C and in assembly compute the same columns) |
| `Scalar`, `Scalar8x32` | scalars modulo the group order in 4 and 8 words, the splitting of a scalar included |
| `NumGmp` | `num_gmp_impl.h`, signed numbers |
| `ExponentChains` | the fixed chains of squarings for inverses and roots, of secp256k1 and of Hacl's Ed25519, at their real size |
| `EcMult` | field elements as the code above them sees them, with their magnitudes; points in affine and Jacobian form; digits, tables, the multiplications (Strauss, Pippenger, constant time, fixed base with blinding) |
| `Ecdsa` | signatures, DER, recovery, keys, tweaks; the calls of `secp256k1.c` a caller makes in any order |
| `Batches` | the batches in which `ecmult_multi_var` takes its points, at the real sizes of 64-bit builds |
| `Vli`, `Sqrt224` | the numbers of uECC, the fast reductions of its five curves, the calls on two registers, the root for secp224r1 |
| `Uecc` | co-Z ladder, Shamir's trick, keys, compression, signatures; the calls of `uecc.ml` |
| `Midl` | `midl.c` |
| `FieldRegisters`, `ScalarRegisters`, `PointRegisters` | machines with two registers `r` and `a` on which any legal call may be made, with `rv` and `av`, the numbers (or multiples of the base point) that the registers stand for |

A "register" machine takes the operators of a representation as constants, so that one
machine runs both fields and one both scalars. Its actions are the functions of
`field.h`, `scalar.h`, `uECC_vli.h` and `group.h`; their guards are what the comments and the
`VERIFY_CHECK`s of the code demand (magnitudes, normal form), so a property that
fails means that a caller who keeps to the rules gets a wrong number.

`CompilerEnvironment`, `Closures` and `ProgramRun`, which holds its programs itself, are checked as
they are, with the constants of their configurations. `MC*` modules give the
constants of the others their values: `MCTranspiler` and `MCLexer` define the sets of programs, data and source files; `MCLmdbTxn` and
`MCLmdbTree` the bounds of their behaviours; `MCLibraries` puts the machines of the libraries
side by side: the variable `unit` says which of them a behaviour runs, and the others rest.

## 3. Runs

| run | question | bounds |
|---|---|---|
| `environment` | Does any sequence of pushes, binders, reads, writes and scope exits, executed instruction by instruction, behave as a named environment? | 2 names and the temporary, 2 values, at most 4 bindings |
| `closures` | Does the body of every lambda find the right values, and does the call leave the caller's stack as it was? | environments of up to 4 variables with 2 names, each used up to twice; `closure_representation` nested as in the code and as the pairs are |
| `programs` | Do loops, conditionals, assignments and shadowing declarations, options, unions, calls and assignments inside nested pairs compute what they mean, and end? | functions of a parameter and a local, blocks of up to two statements, inputs 0 and 2, fewer than 4 iterations; arms that may shadow a variable, paths of up to two steps |
| `transpiler` | Do data and whole functions of statements go through simplification, typing, layout, compilation, the machine and back with their meaning? | up to 5 components or constructors, one level of nesting, lists of up to 4; functions of up to three parameters, two or three statements |
| `transpiler_nested` | Does an assignment write the component that was typed? (violated) | paths of two steps |
| `transpiler_lists` | Does a list that a function returns come back as it was? (violated) | lists of up to 4, lists of lists |
| `transpiler_names` | Does a name of the source mean its declaration in the source? (violated) | functions with a variable `arguments`, `left` or `right` |
| `lexer` | Is every source read token by token, with the right regions and breaks, the look-ahead hidden, comments nested, and every call answered? | files of up to 3 words out of 12, apart or touching; up to 4 of the 7 that need breaks; up to 4 pieces of comments, strings and line breaks; up to 6 of those that nest |
| `lmdb_txn` | Do readers, writers, deaths and stops of the machine, step by step on the shared file and lock file, behave as a store of versions? | 12 pages, transactions 1 to 4, and one of five kinds of behaviour (below) |
| `lmdb_tree` | Does a tree that is split, merged and collapsed under open cursors behave as an ordered map with positions? | one of four kinds of behaviour (below) |
| `raw_store_remove` | Does `remove_dir` remove a directory? (violated) | as `lmdb_tree` |
| `libraries` | Do numbers in limbs, points, keys, signatures, trees and lists hold what the calls on them mean, in any legal order? | words of 2 to 8 bits, groups of orders 199 and 149, one to three calls from boundary values (below) |

Properties of `CompilerEnvironment`. `ImplementsNamedEnvironment` is the
refinement: with `bindings` mapped to the zip of names and stack between
fragments, and to that on entry while a fragment runs, every return of a
fragment is one step of `NamedEnvironment`. It says that `get` copies and `set`
overwrites the binding the name denotes and nothing else, and that `select`
under DIP leaves exactly the outer scope. `StackMatchesEnvironment`: each value
has a name and each name a value. `OperandsPresent`: no instruction underflows.
`RestrictKeepsOuterScope`: although names repeat, what a restriction flags is a
suffix of the environment. `FragmentsEnd`: a walk that goes down comes up.
Four bindings with two names give every pattern of shadowing of depth up to
three around a variable and a temporary; two values tell copied from kept ones.

Properties of `Closures`. `UnshadowedCapture` (values of creation time, in
spite of assignments before the call), `BodyAligned` (packing and unpacking
agree), `PackingLeavesEnvironment`, `CallerIntact`, `CallReturns`. Four
variables allow a captured set with a gap on each side. The code as it is only
compiles lambdas of one captured variable (see the remarks); the constant
`Nestings` also lets the run choose the nesting that would let the rest pass, so that
packing and unpacking of several values is exercised. Each variable has a
value of its own, so that any confusion of positions shows.

Properties of `ProgramRun`. `MeaningPreserved` compares the machine's result
with `Eval`; `GeneratedCodeTypechecks` is `Typechecks` at every instruction that
is executed, and some input or program takes each branch of each construct;
`CompiledProgramEnds` says the compiled loop ends when
the source does. Inputs 0 and 2 make the condition false at once, and true
then false. Source programs with more iterations than the bound are left out of
the initial states by `Meaning.fuel > 0`, and nothing else is.

Properties of `Transpiler`. `PipelinePreservesMeaning` compares what comes back
with the source semantics, for data and for functions of statements: blocks that hide
names, loops, cases in any order, failures, record patches, several parameters, local
functions. `MatchHasOneClauseForEachConstructor`: a match that is accepted has one
clause for each constructor of the variant it is typed at, whatever other types own the
names. `PipelineEnds` asks that no stage gets stuck; `GeneratedCodeTypechecks` as above. Trees of
up to 5 elements have every shape an incomplete tree takes on two levels below the root;
integers are all different, so that a component that ends in another's place is noticed.

Properties of `Lexer`. `TextKept`: at every step, what has been logged, is
queued, is pending as markup or is being scanned makes up the text matched, in
order. `RegionsExact`: each token and piece of markup is, character for
character, line and column, where its region says. `ParserSeesReturnedToken`: between
calls the lexing buffer shows the token returned and not the one looked
ahead. `PositionsAgree`: the engine's position, which the stream overwrites
for the parser, is the lexer's own again whenever a rule runs. `OneTokenAhead`:
`check_right_context` compares a token with the unit next to it.
`BreaksEnforced`: over any number of calls, no two tokens that need a break come out
without one. `ReadReturns`: no call of `read_token` loops, however comments
nest. Four words reach a checked token
behind a checked token behind markup; six pieces nest a string in a comment in
a comment, closed or cut off by the end of the file. The characters are those
that the clauses tell apart: two digits, two capitals, a dozen small letters.

Properties of `LmdbTxn`. `ImplementsStore` is the refinement of `MvccStore`: the versions
are the contents committed, a reader sees one of them from its first step to its last, no
older than the last one published when it began, and a crash loses at most the last
version, and none that was committed synchronously. `Recoverable`: whatever part of the
pages reached the disk, opening the environment again finds a whole committed tree.
`EveryPageAccountedFor`: between transactions each page is in a tree or in exactly one
record of the free list. `SaveAdvances`: each round of `mdb_freelist_save`, which frees
pages while it writes which pages are free, brings its end nearer. A behaviour
is of one of five kinds: `FaultyBounds`, a reader, a writer and one death or stop, in a
table of two slots; `BusyBounds`, two operations per transaction on two keys; `StoppedBounds`,
two faults without readers, so that nobody holds the lock file; `FullBounds`, a
dead reader that fills the table; `NestedBounds`, transactions in transactions. Four
transactions are two more than there are meta pages, and let pages freed by the first
be reused by the fourth while a reader of any earlier one is still there. The run has
1.8 million distinct states.

Properties of `LmdbTree`. `ImplementsMap` is the refinement of `OrderedMap`; `WellFormed`
says keys are in order below their separators, leaves at one depth, pages neither too
full nor too empty, and the counts of `MDB_db` exact; `CursorsFollowTree` says that each
cursor's pages are a path of the tree. `Tall` has pages so small that five keys make three
levels; `Wide` has items of two sizes; `Shared` two cursors; `Bulk` no cursor and more
items. Simulation with 12 keys, pages of up to 9 items and two cursors over 1.7 million
states found no violation. Two oddities are part of `OrderedMap`, because the code
has them: a cursor that was told of the end may be told again though keys
were put behind its own, and a failed move forth or back settles a cursor in a gap.

Properties of `MCLibraries`. `ArithmeticExact`: registers in limbs stand for the
numbers that the calls compute in the integers, within the magnitudes the next call relies
on, and every test answers for that number; the chains of squarings end at the exponents of
inverse and root. `KeysExact`: points are the multiples of the base point that the calls mean, for
every way of adding and multiplying, and keys are pairs after any tweaks.
`SignaturesVerify`: a signature verifies for its key and message and for no other, also
normalised, recovered from and read back from both encodings; uECC accepts exactly what the
standard says. `NothingLost`: append trees keep order, balance and paths at every size up to
130 (a tree's shape depends on the number of its elements only, so these are all the trees of
those sizes), page-number lists hold what was put on them, and batches count every point
once. Words are a few bits wide and moduli keep the form that their reduction uses, so that
every carry and every boundary of the code occurs; calls start from zero, one, the modulus and
its neighbours and full limbs. The groups of order 199 and 149 are
enumerated, with the exceptional cases (infinity, equal and opposite points) among them. The run has 91 360
distinct states. Moduli that are not prime do with products as a prime would not; such
products and inverses are left out by a guard (`AsOfPrime`).

Each property is also checked to fail under a plausible mistake in a definition
it depends on (the operators whose comment begins with "Mutant" or "A mistake"): a missing
`List.remove_element`, one DIP too many, a lost SWAP, a path folded from the
wrong end, a subtree declared full too early, a meta page written before the sync, a cursor
that is not moved with its node, a carry that is dropped, and so on.

## 4. Fairness and deadlock

Compilation and interpretation are sequential: once code runs, nothing
preempts it, and it goes on to its end. That is weak fairness on the steps of
the machine: `WF_vars(Fragment)` in `CompilerEnvironment` (the client may stop
calling, a fragment may not stop half way), `WF_vars(Step)` in `Closures`
(assignments before the call may happen or not), `WF_vars(Next)` in `ProgramRun`
and `Transpiler`, `WF_vars(Stream \/ Scanning)` in `Lexer` (`Read`, the client's
call, is not fair). `LmdbTxn` has `WF_vars(WriteStep(p))` for each writer: a thread inside a
library call goes on until it returns, while its next call, deaths and stops
need not come. No liveness property is claimed of a client, and none of LMDB beyond what
`SaveAdvances` says by a decreasing rank; `LmdbTree` and the libraries are sequences of
whole calls and state no fairness.

Configurations of `MCLmdbTree` check for deadlock: some call is always possible. All others set
`CHECK_DEADLOCK FALSE`: behaviours end when a program
has ended, a lambda has been refused or has returned, the end of the file or an
error has been read, or a bound (`MaxTxn`, `MaxCalls`) is reached. A machine that gets stuck before that is not missed:
`CompiledProgramEnds`, `PipelineEnds`, `CallReturns`, `ReadReturns` and `FragmentsEnd` fail on it,
and `GeneratedCodeTypechecks` says at which instruction.

## 5. Proofs

`CompilerEnvironmentProofs` proves, for every set of names and values and every
bound, from `TmpAssumption` (the temporary is a name) and `MaxEnvAssumption`
(a natural number):

| theorem | property |
|---|---|
| `TypeCorrect` | `TypeOK` |
| `StackMatches` | `StackMatchesEnvironment` |
| `NoUnderflow` | `OperandsPresent` |
| `OuterScopeKept` | `RestrictKeepsOuterScope` |
| `EnvironmentImplemented` | `ImplementsNamedEnvironment` |

`StackMatchesEnvironment` says something between fragments only, and
`OperandsPresent` bounds the stack by nothing that a step preserves; neither is
inductive. The strengthening is `IInv == TypeOK /\ WalkInv`. `WalkInv` follows
`Depth == Len(held) + Len(stack)`, the number of values in reach or set aside:
it is constant while a walk goes down or up, differs from `Len(env)` by a
constant for each `pc`, and bounds how many DIPs can still be entered
(`Len(held) <= target < Len(env)` in `get`, one less in `set`, where the new
value is above the environment). `ClientStep` and `FragmentStep` prove that
each action preserves it; under each action, lemmas about sequences (`Pushed`,
`Popped`, `SetAside`, `TakenBack`, `SecondRemoved`, `OneRemoved`) give the new
lengths.

`OuterScopeKept` needs more than lengths. `ScopeInv` says that throughout the
scan of a restriction there is a position `b`, where the outer scope begins,
such that the selector counts exactly the names of positions `b..target`, and
exactly the positions of the scope beyond `target` are kept. Then a name can
only be matched while `target` is in the scope (`NameMet`), each match takes one
occurrence away and leaves all others (`NamePassed`), and inside `b` the
selector is empty, whatever the inner names are. `ScopeStep` carries this
through every action with the help of `IInv`.

`EnvironmentImplemented` is the refinement, and needs the values as well.
`ContentsInv` says where each of `entry`'s values is at every `pc`. In `get`
the values set aside and those in reach are the entry's, with the copy between
them on the way up. In `set` they are the entry's with the new value at its own
place (`Assigned`), on the way up with that value just below the ones set
aside. In `select` each position passed has been kept or dropped as the walk
down decided (`Inner`, `KeptFrom`, `Cut`). The refinement then goes action by
action. The return of `get` is `Lookup`, that of `set` is `Assign`, and that of
`select` is `Leave` or, for a block of restrictions, `Forget`; a client's own
`Push`, `Bind` and `Drop` are `Produce`, `Bind` and `Forget`; every step inside
a fragment is a stutter, because `entry` is what the mapping shows meanwhile.
The inductive invariant is `IInv /\ ScopeInv /\ ContentsInv`.

`ClosuresProofs` proves, for every set of names, every environment and every
body, from `BinderAssumption` (the parameter is not a captured name),
`BoundsAssumption` (the bounds are natural numbers) and `NestingAssumption` (a
nesting is to the left or to the right):

| theorem | property |
|---|---|
| `ClosureTypes` | `TypeOK` |
| `CaptureCorrect` | `UnshadowedCapture` |
| `BodyAlignment` | `BodyAligned` |
| `PackingCopies` | `PackingLeavesEnvironment` |
| `CallerKept` | `CallerIntact` |

The strengthening is `IInv == TypeOK /\ SelectInv /\ StackInv`. `SelectInv`
follows the scan: every wanted position is either still ahead of it, with its
count intact, or kept. `StackInv` says what is on the stack at each `pc`, in
four parts: the shapes (`ShapeInv`), the walk that packs (`PackInv`), the lambda
and its call (`ApplyInv`), the body (`BodyInv`). Packing visits kept positions
one by one while the stack is counted in all positions, so the proofs need
the number of kept positions up to a given one and the position of the k-th
(`Rank*`, `NthKept`, `NthOfRank`), and that a packed pair is the pair of its
last position and the rest (`Packed*`). These lemmas hold for every finite set
of positions; what is usually an induction is done by looking at the least
position for which a statement fails (`LeastOf`).

`LexerProofs` proves, for every set of source files and every choice of keywords and
reserved words, from `TextsAssumption` (a text is a sequence of its characters), which
the last three use:

| theorem | property |
|---|---|
| `PositionsFollow` | `PositionsAgree` |
| `LookAheadBounded` | `OneTokenAhead` |
| `ParserRegions` | `ParserSeesReturnedToken` |
| `BreaksChecked` | `BreaksEnforced` |
| `LexerTypes` | `TypeOK` |
| `RegionsFollow` | `RegionsExact` |
| `TextPreserved` | `TextKept` |

The first four hold whatever the regular expressions match: their proofs never open
`Found`. The lemma `RuleStep` reduces the many actions of the rules to three outcomes: the rule
goes on, it returns with one more unit, or it fails; in each the engine's position and the logical one
move together. `PosInv` adds to `PositionsAgree` what makes it inductive: between scans it is
`bufReg`, and not the buffer, that holds the position, so `EnterScan` restores
it. `QueueInv` says the queue is empty whenever a rule runs or `next_token` is about to
scan, and has one unit when `check` is reached; `OneTokenAhead` follows. `RegionInv` carries the
token from `ReadDequeues` through the scan of its successor to `Deliver`, with
`last` its region all the while. `BreakInv` does the same for the unit that
`check_right_context` looked at, which is the next one returned.

The last three need the text. `RuleStep`'s outcomes are refined to what the
rules do with it: a rule goes on (`ExtendOutcome`), opens a construct
(`OpenOutcome`), enqueues a unit (`PlainUnit`, `ClosedUnit`, `BytesUnit`),
returns to the rule that called it (`ResumeOutcome`) or fails. `NestInv` says
that the constructs in progress begin one after the other (`Chain`), each at
the position its opening region names, and that what has been accumulated is
the text from where the outermost one begins (`Base`). `TextInv` adds that the
units and the markup made so far are, in order, the text up to `Base`. Lines
and columns follow because only the newline clauses match a character that
breaks a line (`MatchesFree`, `ClauseFree`), which in turn needs that the engine
takes the longest match and the first clause among equals (`LongestMatch`,
`NewlineBeforeOther`). The text of a sequence of units is a fold;
`FlattenRuns` and `FlattenAppend` find its value as that of the one function
that satisfies its equations. `ErrInv` ties the error raised to `failed`. The
inductive invariant is `TextIInv`.

It also proves, of the queue, that `Enq` appends to `Contents` (`EnqAppends`), that
`Deq` takes the oldest element and keeps the order of the rest (`DeqTakesOldest`), and
that `Peek` changes nothing (`PeekKeeps`). The lexer never queues more than
one unit, so no run of it would notice a queue out of order; these lemmas settle it.

`LmdbTxnProofs` proves, for every set of processes, readers and keys, every size
of the map, every number of transactions and every bound, from `LmdbAssumption`
(the bounds are natural numbers, the map has room for a page and nobody is
`None`):

| theorem | property |
|---|---|
| `InvariantHolds` | the inductive invariant |
| `LmdbTypes` | `TypeOK` |
| `NoPageLost` | `EveryPageAccountedFor` |
| `CrashRecovery` | `Recoverable` |
| `FreelistSaveAdvances` | `SaveAdvances` |

None of the four is inductive. `IInv` has six parts, each of which needs the
others. `DiskInv` says that the last commit is `Sound`: its tree, its free list
and the records of its free list are the pages of the file, each once
(`Accounted`), and its pages are on disk as they are in the page cache. As long
as the disk may still have the commit before (`~Settled`), that one is sound as
well, and no record of the free list but the newest names a page of it: that is
why a writer may consume every record but that of the last commit (`Consumed`).
`MetaInv` says that the two meta pages are those of the last two commits, in
the place given by parity, and what the disk may have instead; it needs to know
that number 0 belongs to the empty meta page only. `TxnInv` follows the write
transaction through its phases. `Held` is the account of its pages while it
runs: those of its tree, its free list, the records it has not consumed, the
pages at hand and those it freed make up the file to its own end, each once,
and what it may write to is none of what the last commit uses (`Private`). A
nested transaction keeps its parent's account beside its own (`ParentInv`).
`SaveInv` adds what the loop of `mdb_freelist_save` has written so far: which
records are gone (`done`), that the counts are those of the sets, and that a
reserved record has exactly the room needed. `FlushInv` says of the pages being
written that they will be accounted for when the meta page names them, and that
none is of a commit the disk may still have. `LockInv`, `EnvInv` and `SlotInv`
tie the lock file, the mutex and the table of readers to these.

The proof goes from single page writes (`WritePage`, `RewritePage`) to what the
operators of `LmdbPages` do to the account (`TouchOp`, `PutOp`, `DelOp`,
`ReceiveOp`, `AllocOp`, `ChildHeld`, `JoinedHeld`, `SaveRound` and the rounds),
and from there to one lemma for each action. The records are disjoint at the
end of a save by `FinalUnion` and `FinalDisjoint`, although pages were consumed
and freed while it went on. `CrashRecovery` needs that a stop leaves one version
of each page (`AfterStopIs`), that `mdb_env_pick_meta` then finds one of the
last two commits (`StopMetas`), and `Sound` of the one it finds.

`LmdbStoreProofs` proves, from `LmdbAssumption` too, that the transactions
implement the abstract store:

| theorem | property |
|---|---|
| `StoreImplemented` | `ImplementsStore` |

Every step of the pages, the lock file and the processes is a step of
`MvccStore` or changes nothing that it sees: a reader has one version from
beginning to end whatever is committed meanwhile, a commit is published whole or
not at all even if the writer dies on the way, a nested transaction adds its
changes to its parent's or leaves them as they were, and a stop of the machine
leaves the last version or, before it is synced, the one before. The mapping is
`Versions`, `Since`, `Seen`, `Working` and `Outer`: a version is what the tree
of a commit says in the pages.

`IInv` accounts for pages and says nothing of what they say, or of who reads
them. A second invariant, `SInv`, is proved from it. `ReaderInv`: a reader settled
on transaction `t` relies on pages in `Reach`, those the last commit uses or
names in free-list records after `t`; its slot says `t`, no process takes a
later transaction for its oldest reader (`NoneOlder`), and the writer has
consumed no record after `t` and will not unless its scan has yet to come to the
slot (`Spares`). `PublishedInv` says that the published version is whole, also
when a writer died before it published a later one. `WriterInv` bounds what the
writer may have consumed by the last commit and says that, once it flushes, the
pages it has yet to write are none of what readers rely on. `WorkInv` says what the
operation under way has made of what the tree says. Each action has a lemma for what it does and keeps
(`...Does`) and one for the step of `MvccStore` that it is (`...Refines`).

Only model-checked:

* the refinement `ImplementsMap`;
* the liveness properties, which are beyond the prover;
* everything about `CompilerProgram`, `MiniC`, `TypedData`, `Simplifier`,
  `Transpiler`, `AppendTree`, `BTree`, `LmdbTree`, `Midl` and `MCLibraries`,
  which use recursive operators: a module that declares or reaches one cannot be
  reasoned about by the arithmetic prover, and the meaning of such an operator on data of
  every size is beyond it in any case;
* the numbers and curves, whose word arithmetic, exact division and
  groups the prover does not handle.

## 6. Findings and remarks

Each finding is a run that ends in a violation, with the property that states what the
repository says.

* `transpiler_nested`: the typer checks the component a path leads to from the
  outermost one inwards (`src/typer/typer.ml:478-482`); the transpiler
  translates the path from its last access (`src/transpiler/transpiler.ml:334`).
* `transpiler_lists`: `src/compiler/uncompiler.ml:68` gives the list to `fold_left` as
  the accumulator, so that the `List.rev` after it reverses the list. Literals
  are built in reverse, which hides it.
* `transpiler_names`: the simplifier binds the parameters of a function to the name
  `arguments` (`src/simplify/pascaligo.ml:351`, `:358`) and the transpiler compiles the arms
  of a match under the binders `left` and `right` (`transpiler.ml:382-394`): a source name that is
  one of these is captured. The test of shadowing (`src/test/integration_tests.ml:79-82`)
  uses other names.
* `raw_store_remove`: the iteration of `remove_dir` ends with `Error KeyNotFound` at the
  first key behind the directory (`raw_store.ml:176`); `Lmdb.with_rw_db` aborts the transaction on any
  error (`lmdb.ml:447-449`), and `remove_dir` takes `KeyNotFound` for success (line 186). Unless the
  directory is the last of the database nothing is removed. The test passes
  because its directory is the last (`lib_shell/test/test_store.ml:273-275`); `lib_shell/state.ml:324-327` and `:348-351`
  remove directories that are not.

Remarks: what the models showed or reading them required, without a run of its own.

Compiler.

* Under a shadowed name a closure captures the outermost binding, since free
  variables are matched from the outside (`transpiler.ml:402-405`, `environment.ml:35-49`,
  `compiler_environment.ml:214-225`); `UnshadowedCapture` is about the rest.
* A lambda with two or more captured variables is refused by the type check of `unpack`:
  `closure_representation` nests pairs to the left and `unpack` takes them apart to the right
  (`compiler_environment.ml:190`, `transpiler.ml:429`).
* The Copy output of the lexer loses the `0x` of byte sequences (`Lexer.mll:503`,
  against `EvalOpt.mli:35`), and `0xA`, a sequence of odd length, is read as empty bytes
  and a constructor (`Lexer.mll:361`, `:797`).

Storage.

* `is_prefix` of `raw_store.ml` compares strings: removing the directory `a/b` also
  removes `a/bc`.
* In the model, the check after storing the transaction in a reader's slot
  (ITS#7970, `mdb.c:3042`) is not needed for the safety of pages; the retry of `mdb_freelist_save` (`more`)
  is never taken while the free list is one page; and the lines of
  `mdb_page_split` for a left page that changed its parent too (`FollowParent`) make no difference.
* A slow reader may have an `mdb_txn_id` later than the version it reads was when it
  began (`lmdb.h:1025-1027`); a failed write of a meta page (`mdb.c:4230`) is repaired by
  writing the old one, and is left out.
* The comment of `midl.h` on `mdb_midl_search` ("first ID greater than or equal") is for
  ascending lists; the lists are descending.

Signature libraries.

* The ladder of uECC computes no public key for the secret keys 1, n-2 and n-1. `neuterize`
  (`uecc.ml:115`) asks `not pk_computed_ok && pk_is_valid`, so that a secret key without a
  public key is not refused, although `uecc.mli` says "or `None` otherwise".
* `vli_mmod_fast_secp160r1` and `_secp256k1` subtract p only while the result is greater,
  so that p itself is left; `uECC_decompress` looks at the parity of the first byte only;
  `uECC_sign_with_k` neither reduces r modulo n nor tests s for zero; `mod_sqrt_secp224r1`
  uses a constant where its comment has a random value, and fails for one number in about 2^95.
* `secp256k1_ec_pubkey_combine` as called by `secp256k1_wrap.c` leaves the last key of the
  list out, because the loop ends at the last cell; `write_sign_recoverable_exn` writes
  the form in memory.
* The limits on magnitudes that `fe_verify` documents leave no room for the carry of a
  normalisation at the very bound, which no caller reaches; `secp256k1_wnaf_fixed` leaves
  its first digit unset for a zero scalar, which its callers skip.

## 7. Limits (not modelled)

Compiler.

* One Michelson type. In `CompilerEnvironment` and `Closures` all variables have
  the same type, and the type check is the height of the stack. Ill-typed code
  that the compiler would reject could appear in the models; code it accepts is
  not lost. The exception is the check of `unpack`, modelled by
  `UnpackTypechecks` because its outcome depends on the nesting of pairs.
* Constants in `CompilerProgram` are subtraction, comparison, pairs,
  projections, injections, `CONS` and failures: one each of the arities and stack effects
  that occur. Maps, the constants that take a type annotation,
  and `E_environment_select` are left out.
* Closures are not among the expressions of `CompilerProgram`; `Closures` models
  them by themselves, for one lambda at a time.
* `Transpiler` covers integers, products, variants, options and lists. Paths of
  two steps, list arguments and the names of `transpiler_names` are in the runs of
  the findings only, since the findings make the general property false there.
* Types of expressions are not checked by a model of `type_expression`: the sources of the
  runs are well typed. Of the typer, `type_match`, assertions and paths are modelled.
* Integers are unbounded; the native integers of values and of the uncompiler
  (`uncompiler.ml:24`) are not modelled. Free variables of an assignment leave out the variable
  assigned (`misc.ml:64`); the lambda is refused later, and the sources have none.
* `Lexer` leaves out `#line` directives (`scan_flags`), the decoding of UTF-8 in
  comments (a character is a byte; columns in code points are not kept),
  underscores in literals, and the formats of `LexerLog` other than Copy. A
  lexical error ends a behaviour.
* Parsers (generated automata and their syntax trees), the result monad, printers, the
  command line, and the meta-Michelson embedding are outside the development for good:
  they are generated, or keep no state and choose no order that the rest depends on.

Storage.

* `LmdbTxn`: loose and spilled pages, `MDB_WRITEMAP`, `MDB_NOSYNC`, several named databases, a
  free list of several pages, the failure of a write of a meta page, reuse of a thread's
  slot (`mdb_txn_reset`, `mdb_txn_renew` of a caller), environments on Windows, and
  `mdb_env_copy` with its threads.
* `LmdbTree`: duplicate values and sub-databases, overflow pages, `MDB_APPEND`,
  `MDB_NOOVERWRITE` and `MDB_CURRENT`, pages of fixed-size keys, `mdb_drop`, and keys of several
  lengths (for which `mdb_update_key` may split a branch page). A branch page of the model holds
  three nodes where a real one holds seven or more.
* `Midl` grants memory always.

Signature libraries.

* Context flags and checks for null arguments, SHA-256 (the nonce function is a
  constant), the generated tables, failure to grow the scratch space, the OCaml stubs,
  one-byte words of uECC and its deterministic signing, and the branches for
  `USE_ENDOMORPHISM`, which the build does not define, except the splitting of a scalar.
* `ecmult_multi_var` is modelled though the OCaml bindings do not call it.
* Hacl is generated from a source verified elsewhere; only its exponent chains are
  checked. blake2 and the hashes are straight-line code.

Of the C code of the repository's vendored libraries the modules translate
about a third of the lines; of the OCaml code, the passes named above. The rest of the
C code is in the parts just named.

## 8. Plan

Order of further work, most important first.

1. `MvccStore`'s own invariant (a view is one of the versions, no older than
   `low`), proved.
2. Proofs about `Midl` without its recursive definitions, and about `Limbs`.
3. Closures inside programs: `E_environment_capture`, `E_environment_load` and
   closure application as cases of `Compile`; lambdas in lambdas.
4. `LmdbTree`: `MDB_APPEND`, `mdb_drop`, overflow pages; `LmdbTxn`: `mdb_env_copy`.
5. Maps, strings and `E_look_up` in `TypedData`; the declarations of a
   program (`translate_program`, `get_main`).

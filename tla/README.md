# Formal models of nBallerina

nBallerina compiles a subset of Ballerina to LLVM. The compiler is written in
Ballerina (`src/compiler`) and the compiled programs run on a C runtime
(`src/runtime`). This directory has TLA+ models of the parts of both in which
correctness depends on sequences of steps. TLC checks the models on small
instances, and TLAPS proves the most important properties for every instance.

## The system

| Part | Source | Depends on |
|---|---|---|
| driver | `compiler/compile.bal` | all below; one module at a time, imports first |
| scanner and parser | `modules/front.syntax` | |
| type resolution | `front/resolveTypes.bal`, `front/const.bal` | the type environment |
| code generation to BIR | `front/expr.bal`, `front/stmt.bal` | the type algebra |
| BIR and its verifier | `modules/bir` | |
| LLVM code generation | `modules/nback` | BIR, types, the runtime's interface |
| init module | `nback/init.bal` | the uses of types of all modules |
| type algebra | `modules/types` | decision diagrams (Bdds) over atoms |
| runtime: lists, mappings | `list.c`, `mapping.c`, `balrt.h` | descriptors of the init module |
| runtime: type tests | `structure.c` and `*_subtype_contains` | subtypes of the init module |
| runtime: equality, order, printing | `eq_inline.c`, `balrt.h`, `list.c`, `mapping.c`, `print.c` | structures that may be cyclic |
| runtime: strings and numbers | `string.c`, `decimal.c`, `convert.c`, `int.c`, `float.c`, and in `third-party` decNumber and `emyg_dtoa.c` | the constants that the compiler lays out |
| runtime: errors and panics | `error.c`, `panic.c` | libbacktrace, the names that the compiler mangles |
| tools | `types.json`, `types.regex`, `bir.sexpr`, `print.llvm`, `llvm_jni`, `comm.*` | |

The compiler and its programs are sequential: nothing runs concurrently and
nothing persists. What makes them hard is recursion with shared state (memo
tables, definitions under construction, import cycles), agreements between the
code that the compiler emits and the runtime that executes it (exact bits, field
order, symbols and type ids), and limits (capacities, widths of table elements,
the greatest array length).

## The modules

| Module | Models | Specified by |
|---|---|---|
| `GenericArray` | the arithmetic of `_bal_array_grow` | |
| `Mapping` | `mapping.c` and the constructors that reach it | `OrderedMap` |
| `List` | `list.c` and the code emitted for list access | `GrowableList` |
| `Emptiness` | `memoSubtypeIsEmpty` | the greatest self-supporting set |
| `Exactness` | the exact bit, in emitted code and runtime | the invariants of `docs/exact.md` |
| `TypeResolution` | `resolveTypes` | `TypeMeaning` |
| `Narrowing` | code generation for statements and conditions, the flow checks of the BIR verifier, narrow registers | the value of the variable |
| `FrontEnd` | the two rows above, one at a time | |
| `InitTypes` | type symbols, the init module, type tests | `TypeShapes` |
| `Compile` | the driver, composed with `InitTypes` | conditions on import graphs |
| `Values` | tagged pointers and the heap of structures | |
| `Equality` | `==` on values that may be cyclic | bisimulation (`DeepEqual`) |
| `Comparison` | `<`, `<=` and `===`, and the comparators of arrays | laws of an order that fits `==` |
| `Printing` | `println` with its stack | the unfolding up to the first repetition |
| `DeepValues` | a program that uses these three | |
| `Strings` | representations, concatenation, order, hash input | sequences of code points |
| `Numbers` | decimal arithmetic, tagged ints, conversions, the digits of a float | exact arithmetic with rounding |
| `Mangling`, `Errors` | names of symbols; errors, backtraces, panics | the stack and the source names |
| `IntSubtypes` | `types/int.bal` | sets of ints |
| `TypeTest` | type tests of every basic type | membership |
| `Scalars` | the last five rows, one at a time | |
| `MC*` | instances for TLC | |
| `*Proofs` | proofs | |

### Mapping

The state is the `Mapping` struct: `fArray` with `length` and `capacity`, and the
hash `table` with its two shifts. `Init` is `_bal_mapping_construct` for a
constructor expression that the front end and the BIR verifier accept;
`init_member` is one of the calls that the emitted code makes for it, in the order
of `mappingOrderFields`. `Get`, `Set`, `FillingGet`, `IndexedGet` and `IndexedSet`
are the runtime's functions. The loop of `mappingGrow` is one step per field
(`Reindex`), and no operation starts while it runs. The hash is any function. A
table element has `UnitBits * 2^shift` bits, and a store truncates to this width.
A write past the allocated memory is undefined: any field may be read back.

### List

One list, with its descriptor, its cells and its capacity. The registers through
which it is used are parameters of the actions: their static type, whether that is
atomic, and whether the exact bit is set. So `ListSet` and `ListGet` stand for the
emitted code (the direct path for specialised lists, the call through the
descriptor) and for the functions that it calls. `Push` is a method whose signature is
instantiated for the list, so that an array keeps its exact bit. A cell is a tagged pointer, or a
raw number for `int[]`, `byte[]` and `float[]`. Cells beyond the length are garbage
until something is stored. Indices are cast to unsigned words.

### Emptiness

`memoSubtypeIsEmpty` is one step on entry and one on return; between the two, the
predicate of the Bdd asks about other Bdds in any order and may stop as soon as
the answers decide. The predicates of lists, mappings, functions and errors differ
only in what they ask, so a predicate is a set of clauses: a Bdd is empty iff each
clause has an empty member. `calls` is the recursion, `memo` and `memoStack` are
those of the `Context`. Questions follow one another, and the memos stay.

### Exactness

Objects with an inherent type, their members, and registers with a static type.
Each action is an instruction: constructors, `Assign`, `Get`, `Set`, `Narrow`
(casts and type tests), the arguments, the rest arguments and the result of a
call. A type is a set of shapes, and the operands of an instruction are those that
the compiler accepts. Two constants say whether calls through function values may
have a wider return type or a narrower rest type than the callee.

### TypeResolution

The functions of `resolveTypes.bal` call each other on the way through type
descriptors; the state holds their activations. `semType` and `cycleDepth` are the
fields of a `TypeDefn`, `env` has the atoms of the type environment, with the count
by which `isReady` decides whether types may be tested, and `deferred` the tests
that have to wait. `TypeMeaning` says what a descriptor means without any of
this: by unfolding definitions, and by looking for values of bounded height.

### Narrowing and FrontEnd

A variable whose type is narrowed has a register of its own with a copy of the
value. `Generate` is `codeGenFunction` on a function of one variable: the operators
have the names of the functions of `stmt.bal` and `expr.bal`, and hand on the code so
far, the block and the chain of bindings. A chain is a sequence, so that a limit is a
prefix. A type is a set of values; conditions that are not about the variable may
have either outcome. The code goes through `verifyFunctionCode` and is then executed
one instruction at a time. `Goto` has the stores of narrow registers that
`buildTypeMerges` places where a block starts. `ReadsCurrent` compares the copy that
an instruction reads with the variable. `FrontEnd` puts this module beside
`TypeResolution`: a behaviour is about one of the two.

### Compile and InitTypes

`Compile` is the depth-first compilation of imports with `Job.result`, and then
`finalize`, which hands the uses of types of all modules to `InitTypes`.
`InitTypes` adds a descriptor for each constructed type, for the types of its
fillers and rest arguments, then the subtypes that were waiting for all of them,
then the type ids of exactify and the type tests. The `_subtype_contains`
functions are operators. `TypeShapes` computes what subtyping is, from values.

### Values, Equality, Comparison, Printing and DeepValues

A heap is a function from addresses to lists and mappings, whose members are
scalars or pointers with an exact bit; structures may refer to each other in any
way. `Equality` is the recursion of `taggedPtrEq` with `_bal_list_eq_internal` and
`_bal_mapping_eq_internal`: a step starts the loop over the members of a pair,
compares one member, or ends a loop. A pair is on the `EqStack` if `taggedPtrEq`
put it there, and pairs are compared with their exact bits, so the same two
structures can be on the stack four times. `Printing` is `printTaggedInner` in the
same way; `Comparison` is pure, since only lists without cycles can be compared,
and its recursion is bounded by the depth of the types. `DeepValues` is a program
that calls one operation after the other on one heap.

### Strings, Numbers, Mangling, Errors, IntSubtypes and TypeTest

`Strings` has code points, their UTF-8 bytes, and the three representations with
their padding, as words of bytes. What memory holds before a string is written to
it is arbitrary. A program makes literals (laid out by `nback/scaffold.bal`) and
concatenates. `Numbers` has decimals with a few digits and a small range of
exponents, so that each status of the decNumber library is met, ints of seven
bits, four of which fit into a tagged pointer, and floats of five. A float becomes
a decimal by way of its digits: `Grisu2` of `emyg_dtoa.c` multiplies the float and its
neighbours' boundaries with a rounded power of ten, narrows the interval by a unit on
either side, generates digits until the rest is inside of it and moves the last digit
towards the float. `DigitGen` says this in closed form, without the loops. For more
than nine digits of a fraction the code reads `kPow10` behind its end, to choose the
last digit; any digit that the loop can stop at is a result then, which makes the
conversions sets of results. Only `strtod` is external. `Errors` makes errors on a given
stack: the walk stores the pcs in an array that doubles by reallocation, which can
fail; later, the backtrace is printed frame by frame, with the callbacks that
libbacktrace makes for an executable with or without debug info and symbols.
`Mangling` is `nback/symbol.bal` and the functions of `error.c` that undo it.
`IntSubtypes` builds types from ranges by the operations of `int.bal`. `TypeTest` is
one test, with one step for each turn of a binary search or of the loop over
ranges. `Scalars` composes the five: a behaviour is about one of them.

## The runs

| Run | Instance | Shows |
|---|---|---|
| `mapping_map` | 6 keys, colliding hashes that wrap; table elements from 2 bits; arrays up to 5 fields | lookups are right and end, operations finish, refinement of `OrderedMap` |
| `mapping_record` | closed record of 3 fields, every order of the constructor | fields are at the positions of the descriptor, members have their types |
| `mapping_unit_capacity` | a constructor with one field | violation (below) |
| `list` | 5 arrays, lists of lists, an open tuple; length up to 3; indices -1 to 3 | members have their types, fillers are not shared, exact stores succeed, refinement of `GrowableList` |
| `emptiness` | 300 systems of 4 Bdds | answers and memos are right, the stack is complete, every question is answered |
| `exact_structures` | 2 registers, 3 objects, 6 inherent and 11 static types | both invariants of `docs/exact.md`, soundness, exact stores succeed |
| `exact_wide_return` | with wider return types | violation |
| `front_end` | all modules of 2 definitions over 70 descriptors, and 252 modules with a function and constants; 1,570 functions with a variable of 2 ints and a string | the outcome and the meaning of every definition, no panic; narrowed copies are never stale, the code passes the verifier |
| `compile` | 3 modules: 120 import graphs with up to one faulty module; programs over 16 atomic types | outcome, order of emission, symbols, type tests |
| `deep_values` | heaps of 3 structures: lists of up to 2 members with every cycle, nested lists, mappings, scalars of all comparable types | `==` is equality of unfoldings, `println` prints all up to a repetition, order and `==` fit each other, every call returns |
| `scalars` | strings on both sides of every limit of a representation; decimals of 3 digits, all 7-bit ints and all floats of 5 bits and 6 exponents; stacks of up to 5 frames, 5 kinds of executables, all short names; ints from -3 to 3; lists of up to 4 entries | strings behave as texts, decimals and conversions are right or panic, backtraces show the stack and the names, types of ints are canonical sets, type tests decide |
| `int_difference` | the ints of `scalars` | violation |

Why the bounds are enough. A table with 8 slots that grows once, with six keys,
has collisions, wrap-around and a change of element width, since elements are
narrower than in the code. With arrays up to 5 fields both branches of growth and
the panic are met; with lists of 3, growth and gaps of length 1 and 2. With
four Bdds, a test fails while results that rest on it are above it on the stack,
and they are undone and tested again inside another test. With three structures,
cycles of length 1 to 3 occur on both sides of a comparison, also of different
lengths, and one structure occurs twice without a cycle. Strings are concatenated
from pieces of 0 to 21 bytes, so that results cross from immediate to medium to
large. Floats have 5 bits and the products of `Grisu2` 14, which leaves 9 for the errors
of the products where the code has 11; the powers of ten in the table are ten to the
-3, -1 and 1, so that digits end before and behind the point, and `kPow10` has only its
first entry, so that it is read behind its end. All 222 floats, all 128 ints and all
decimals that the operands lead to are converted. At most four pcs are stored, so that stacks fill the array, make it grow and
exceed its limit. In types, every loop through one or two definitions occurs.
The functions have `if` with 47 conditions, loops and match statements, with the
variable narrowed before and not, and assignments followed by every way to leave.
Three modules have self-imports, cycles of 2 and 3 and diamonds.

Left out of instances. The modules in which a cycle goes through parentheses only
are left out of `front_end`, and functions of a part of a basic type out of
`compile`; see the remarks. The `list` run has no closed tuples and
`exact_structures` no call sites with other types than the callee, since the
violations below are about them. `mapping_map` has no constructor with one field.
`front_end` has no function in which a variable is narrowed where an `if` starts, one
branch assigns to it and control goes on, or is narrowed both outside and inside of a
loop and assigned there, since `MCFrontEnd_open.cfg` is about them; and no constant
operands of `&&` and `||`. `IntTypesExact` says of an intersection only whether it is empty: `DiffExact`, which
says more, is violated.

Fairness. `Mapping` has weak fairness on `init_member` and on `Reindex`: a call
that has begun goes on, because the runtime is sequential. `Emptiness` has weak
fairness on the disjunction of asking and returning: the predicate is a loop over
a finite structure, which goes on until it returns. `DeepValues` has weak fairness
on the steps of an `==` or a `println` that has begun, for the same reason. Nothing
else is assumed; users of the types need not ask, and programs need not call.

Deadlock is checked except for `front_end`, whose two systems stop with an
outcome, and `scalars`, where a program ends with a panic and a type test with an
answer. `Compile` has a step for the exited compiler, so that any
other stop is found.

## What is proved

For every value of the constants that satisfies the assumptions named in the
modules, TLAPS proves:

* `MappingProofs`: `TypeCorrect`, `LookupAlwaysCorrect`, `ProbingTerminates`,
  `IndexesAlwaysFit`, `CapacitySuffices`, `FieldsNeverMove`. The condition is that
  no constructor has exactly one field. The inductive invariant is `CapacityInv`
  (what is still to be initialised has room, and no capacity is one), `TableInv`
  and `ResultInv`. `LookupCorrect` alone is not inductive: while a table is being
  rebuilt, only the first `indexed` fields are in it. `TableInv` says that each of
  these is on the probe path of its key before any free slot, that no field is
  entered twice and that less than half of the slots are in use; a pigeonhole
  argument then gives a free slot. `PowerAssumption` lists the facts
  on powers of two that the provers do not know; TLC evaluates it.
* `OrderedMapProofs`: `FieldsInPlace` (`RequiredInPlace`), `MembersAlwaysTyped`
  (`MembersTyped`) and `MappingIsOrderedMap` (`ImplementsOrderedMap`), that every step
  of a mapping is a step of `OrderedMap` or a stutter. Besides the condition of
  `MappingProofs` there is `ConstructorsComplete`: a constructor names every individual
  field. `bir/verify.bal:560` only counts the fields; the lemma `ClosedComplete` shows
  that counting is enough for closed records and for records without individual
  fields, and for open ones see the remarks below. `PlacesInv` and `TypedInv` extend
  the two properties to the members that are still to be initialised.
* `ListProofs`: `MembersAlwaysTyped` (`MembersTyped`) and `FillersNeverShared`
  (`FillersNotShared`) without any condition; `ExactStoresAlwaysSucceed`
  (`ExactStoresSucceed`) for `NoClosedList`, that is, when every list type has a rest
  type with values, which `MCList_closed.cfg` shows to be needed; and `ListIsSequence`
  (`ImplementsSequence`) for `NoClosedList` and `IndicesReach`, that the indices of the
  program include every length, as those of type int do. `ListInv` adds the shape of
  the array, with what a cell may hold in each of the four representations, and
  `FillersKnown`: a filler with an identity that is in the list was made by an earlier
  operation. Without this a new filler could be an old one. `ListTypesAssumption` says
  what a list type is.
* `EmptinessProofs`: `EmptinessDecided`, `MemosSound`, `ProvisionalOnStack`,
  `TestsNotReentered`, for every system of clauses. A provisional result rests on
  assumptions. `SupportInv` says on which: a Bdd that is empty, or an entry of
  `memoStack` that is undone by no activation that leaves this one alone. When the
  outermost test returns true, the whole stack supports itself and is therefore
  empty; when a test returns false, all that rests on it is above it and is undone.
* `ExactnessProofs`: `RegistersStayExact`, `MembersStayExact`, `StaysSound`,
  `ExactStoresNeverFail`, `TypeCorrect`, for every universe of shapes, kinds and
  types and any number of objects and registers. The condition is that call sites
  have the return and rest types of their callees. The inductive invariant is
  `Inductive`: what a register or member of a type may contain, given the inherent
  types. The argument of `docs/exact.md` has one lemma per instruction.
* `DeepValuesProofs`: `EqualityDecided`, for all heaps, scalars and pairs of values. A
  pair that is on the `EqStack` is taken for equal before that is known, so neither
  direction of the property is inductive. The invariant `EqInv` keeps, in the history
  variable `visited`, all pairs for which a loop was started. `Sufficient`: each of
  them is still on the stack, with the members before the current one related by
  `visited`, or has all members related; when the stack is empty, `visited` is a
  bisimulation. `Necessary`: any bisimulation that relates the two values relates
  the pairs on the stack, so a difference anywhere refutes the whole. `Canonical` is
  the assumption that a value is always immediate or never; `Strings` and `Numbers`
  check it (`StringIsText`, `ConversionsRight`).
  `PrintsTheWhole` (`PrintedWhole`), for all heaps and arguments. The property speaks
  of what println has written when it returns. `PrintInv` says what holds before: the
  brackets that are open are exactly those of the loops that run (`Balanced`), no
  structure has two loops and nothing refers to the arguments (`Nested`), and a
  structure whose bracket was opened is being printed or has all its members written
  (`Covered`).
* `CompileProofs`: `OutcomeAlwaysRight` (`OutcomeRight`) and `ModulesEmittedInOrder`
  (`EmittedInOrder`), for every program: any finite set of modules, any graph of
  imports, cyclic or not, and any state of the modules. `CompileInv` has three parts.
  `StackInv`: the activations of `resolveModule` are of different modules, each of them
  imported by the one outside, so that an import that is in progress closes a cycle.
  `ResultInv`: a module with exports has been emitted, one in progress has an
  activation, and a refusal has its reason in the program. `EmittedInv`: the emitted
  modules are different, each with the right job, and their imports have been emitted
  before. So the emitted set is closed under imports, and when the root is in it, it
  is all that can be reached and there is no cycle in it. `ModulesAssumption` and
  `ProgramsAssumption` only say what a program is.
* `TypeTestProofs`: `TestDecides` and `TestReadsInBounds`, for all types, values and
  lengths of lists. The invariant `TestInv` says that the value, if it is in the list
  at all, is in the part that is still to be searched (NaN is dealt with before the
  search), and that the ranges passed are below the value. `PopcountIsPosition` says
  that the number of lower flags in a bit set is the position of a subtype.
  `TypesAssumption` is what `nback/init.bal` guarantees: lists are sorted, an int
  subtype has a range, a float subtype an entry.

`CapacitySuffices` (`FieldsWithinCapacity`) and `TestsNotReentered` (`NoReentry`) are
proved and not repeated in the runs.

### What the proofs rest on

tlapm 1.4.5 tells its SMT solver, for every value s that an obligation mentions
together with `Len`, that `Len(s) = n` if and only if `DOMAIN s = 1..n`, and that
`Len(s)` is a natural number. For a sequence this is so. For a function with another
domain, such as the arrays of `List` and `Mapping`, which begin at 0, it is false, and a
leaf may then be accepted although it does not follow. All proofs of the project have
therefore also been checked with that axiom weakened to `DOMAIN s = 1..n => Len(s) = n`
(and `Len(s) = 0 => s = <<>>` to values that are functions on `1..Len(s)`) in the input
of the solver. They do not depend on it. Whoever adds a proof that mentions `Len` should do
the same, or give the leaf the fact that s is in `Seq(S)` and keep functions with other
domains out of it.

### What is only model-checked

* All liveness: `OperationsFinish`, `QuestionsAnswered`, `CallsReturn`.
* What recursive operators compute: `OrderAgrees` (`Comparison`), `ReadsCurrent` and
  `CodeAccepted` (`Narrowing`), `NoPanic`, `OutcomeCorrect` and `ResolvedFaithfully`
  (against `TypeMeaning`).
* Induction over data, such as the digits of a number, the characters of a string or
  the ranges of an int subtype: `DecimalsRight`, `ConversionsRight`, `StringIsText`,
  `StringOrder`, `IntTypesExact`, and also `SymbolsResolved`, `BacktraceFaithful` and
  `NamesShown`, which are about the filtered sequences of symbols and frames, and
  `TypeTestsDecide`, which is about the shapes of nested types.
* `ReadyWhenDefined` (`TypeResolution`) can be proved in principle, for types of one
  dimension; it needs the layout of the recursive atoms as an invariant.

## Disagreements found

Each is a run that is expected to violate its property.

* `mapping_unit_capacity`: a mapping constructed with one field has capacity 1, and
  `_bal_array_grow` computes 1 + (1 >> 1) = 1 as its new capacity (`list.c:347`). The
  comment there says that it must be greater than the old one.
* `exact_wide_return`: a value returned through the uniform function keeps its exact
  bit although the return type at the call site is wider (`nback/function.bal:347`),
  against the first invariant of `docs/exact.md`.
* `int_difference`: `rangeListIntersect` moves on in both lists after two ranges have
  been intersected, although the one that reaches further up may overlap the next
  range of the other (`types/int.bal:233`), so -3..-1 without -2 is -3 only. A comment
  in `types/core.bal:337` says that a difference is such an intersection.

Three more configurations are kept for parts that the runs leave out, and a fourth
differs from a run's in one line. TLC finds the property of each violated:

* `MCList_closed.cfg` (`ExactStoresSucceed`): the rest type `never` of a closed tuple
  is not among the member types that `isListSetAlwaysInexact` considers, so a store
  with a variable index past the end ends in `PANIC_INTERNAL_ERROR`, which
  `balrt.h:653` excludes.
* `MCTypeResolution_matrix.cfg` (`NoPanic`): `type A A[][]` defines one recursive atom
  twice, `recAtomCount` is one too high, and `resolveTypes` panics.
* `MCCompile.cfg` with `Programs <- OpenPrograms` (`TypeTestsDecide`): `_bal_record_subtype_contains` does not look
  at the rest type of the value's descriptor, against the comment above it
  (`mapping.c:268`).
* `MCFrontEnd_open.cfg` (`ReadsCurrent`): where branches meet, `codeGenTypeMerge` ignores
  a binding that not all of them have, also an assignment. So in
  `if x is int { if c { x = "s"; } use(x); }` the use reads the copy from before the
  assignment. And `validLoopAssignments` looks at the register that an assignment
  invalidates, which is the innermost one: a variable that is narrowed before a loop
  and again inside of it can be assigned to there, and the outer copy is stale in the
  next iteration. The tests in `testSuite/05-narrow` (05-e.bal, "it's an error because
  x can be assigned to before this is executed") reject the simpler forms of the
  second.

Remarks on code that no run is about:

* `bir/verify.bal:227`: the first pattern of the `match` takes every instruction that
  has a result, so that its operands are not checked.
* `front/expr.bal:872`: in `b || (true && c)` the constant has branched to the block
  where the condition is true, and `c` is then generated in that block, so that its
  branch is followed by the instructions of the body.
* `function.c:49`: rest arguments keep their exact bits although the callee's list
  may have a wider member type (`MembersExact` with `WideRestArgs`).
* `bir/verify.bal:560` counts the fields of a mapping constructor. For an open
  record, an additional field can make up for a required one that is missing, and
  the positions of the fields are then not those of the descriptor.
* `balrt.h:601`: `memberTypeIsSupertypeSimple` takes a part of a basic type for all
  of it, so `function(byte)` passes the test for `function(int)`.
* `front/resolveTypes.bal:336`: parentheses count as a constructor, and for
  `type A (A)` the recursion does not end.
* `types/common.bal:73`: whether an empty type is remembered as `true` or as
  `cyclic` depends on which type was tested first. Only the message of the error
  depends on it.
* `list.c`: the generic inexact store reports every failure as `PANIC_LIST_STORE`.
* `list.c:427`: a list that holds NaN compares as equal to itself when the two tagged
  pointers are the same, and as unordered when only their exact bits differ.
* `types/int.bal`: `rangeUnion` tests for ranges that meet in one order of the operands
  only (`r2.max + 1 != r2.min` compares a range with itself); `rangeUnionPush` merges
  them all the same.
* `error.c:36`: without debug info every frame gets the line of the first entry, as the
  comment there says. A snapshot that was cut short (`EXCEEDS_MAX_PC_COUNT`) hides
  `NO_DEBUG_INFO`, so such an executable prints no lines. `backtrace_syminfo` is
  called without an error callback, which libbacktrace calls if there is no symbol
  table.
* `error.c:290`: anonymous functions are never shown. The compiler counts the code
  points of a name and the demangler its bytes.
* `symbol.bal:28`, `error.c:368`: a name that starts with a digit is marked by an
  underscore, which the demangler skips whether or not the compiler wrote it. An org
  such as `ballerina_x` is not read back; the modules that are compiled have no org
  (`OrgMisread` in `NamesShown`).
* `emyg_dtoa.c:327`: `kPow10` has ten entries and is read at the number of digits of the
  fraction, which can be larger. What is read decides only which of the digits in the
  interval is the last one, and the same float is read from all of them
  (`ConversionsRight`).
* `runtime/tests`: `error_backtrace.sh` fails on lines with `---` only, so a backtrace
  without any line passes.
* `front/front.bal`: two imports of one part with the same prefix are not reported.

## What is not modelled

The parts are listed in `PROJECT.json`. Input and output, formatting and LLVM have no
behaviour worth a model; libbacktrace and decNumber, which are part of the sources, are
modelled by what they do for their callers. Of the runtime, these are left out: `toHexString` and the text of scalars; the mixing of the hash
function, for which `Mapping` takes any function; allocation, which never frees. The
following are worth a model and come next, in this order:

1. **Type algebra.** The operations on Bdds and enumerable subtypes as recursive
   functions, against sets of shapes; the formulas of lists and mappings against
   `TypeMeaning`. Composition: the clauses of `Emptiness` from real Bdds.
2. **Code generation.** Several variables, captured variables and closures; the other
   expressions, constant folding and the blocks for panics.
3. **Scanner and parser.** Modes, lookahead and the fragments of a line.
4. **LLVM code generation.** The order of blocks, panic blocks and overflow checks.
5. **Proofs.** `ReadyWhenDefined`, and the laws of the Bdd operations.

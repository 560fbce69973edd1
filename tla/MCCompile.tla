----------------------------- MODULE MCCompile -----------------------------
(* Import graphs of three modules, and programs that use types in two.     *)
EXTENDS Compile, TypeShapes, TLC

CONSTANTS m1, m2, root, ka, kb

AllModules == {m1, m2, root}

-----------------------------------------------------------------------------

Bits(codes) == [all |-> codes, some |-> {}]
Some(names) == [all |-> {}, some |-> names]

List(members, rest) == [kind |-> "list", members |-> members, rest |-> rest]
Mapping(names, members, rest) ==
    [kind |-> "mapping", names |-> names, members |-> members, rest |-> rest]
Function(members, rest, restList, returns) ==
    [kind |-> "function", members |-> members, rest |-> rest, restList |-> restList, returns |-> returns]

IntBits == Bits({"int"})

AllAtomicTypes ==
    [byte          |-> [kind |-> "int"],
     ints          |-> List(<<>>, IntBits),
     intsOrStrings |-> List(<<>>, Bits({"int", "string"})),
     tuple         |-> List(<<IntBits>>, Never),
     tupleOfInts   |-> List(<<Some({"ints"})>>, Never),
     tuplesOfInts  |-> List(<<>>, Some({"tupleOfInts"})),
     L             |-> List(<<>>, Some({"L"})),
     mapOfInts     |-> Mapping(<<>>, <<>>, Some({"ints"})),
     mapOfInt      |-> Mapping(<<>>, <<>>, IntBits),
     recordA       |-> Mapping(<<ka>>, <<IntBits>>, Never),
     recordABbyte  |-> Mapping(<<ka, kb>>, <<IntBits, Some({"byte"})>>, Never),
     recordAB      |-> Mapping(<<ka, kb>>, <<IntBits, IntBits>>, Never),
     recordAopen   |-> Mapping(<<ka>>, <<IntBits>>, IntBits),
     fInt          |-> Function(<<IntBits>>, Never, {}, IntBits),
     fByte         |-> Function(<<Some({"byte"})>>, Never, {}, IntBits),
     fRest         |-> Function(<<>>, IntBits, {"ints"}, IntBits),
     fIntIntByte   |-> Function(<<IntBits, IntBits>>, Never, {}, Some({"byte"})),
     fIntInt       |-> Function(<<IntBits, IntBits>>, Never, {}, IntBits)]

\* The closed record and the open one differ in what they may get later, and a
\* function of a byte is not one of an int.
ClosedAtoms == DOMAIN AllAtomicTypes \ {"recordAopen", "fByte"}

-----------------------------------------------------------------------------

MCAtomicTypes == AllAtomicTypes
MCSubtyping == ShapeSubtyping
MCFillers == ShapeFillers

NoUses == [m \in AllModules |-> <<>>]
AllOk == [m \in AllModules |-> "ok"]

Graph(i, j, k) == (root :> i @@ m1 :> j @@ m2 :> k)

Graphs ==
    { Graph(i, j, k) :
        i \in {<<>>, <<m1>>, <<m1, m2>>, <<m2, Io, m1>>, <<root>>, <<m2, Foreign>>},
        j \in {<<>>, <<m2>>, <<m1>>, <<root, m2>>, <<Io, m2>>},
        k \in {<<>>, <<m1>>, <<Foreign>>, <<root>>} }

Broken(m) == {[AllOk EXCEPT ![m] = s] : s \in IF m = root THEN {"unscannable", "invalid", "unbuildable"} ELSE States}

DriverPrograms ==
    { [imports |-> g, state |-> s, uses |-> NoUses, validMain |-> v] :
        g \in Graphs, s \in UNION {Broken(m) : m \in AllModules}, v \in BOOLEAN }

\* A diamond, so that the order of the modules is root, m2, m1.
Diamond == Graph(<<m1, m2>>, <<>>, <<m1>>)

Structural(names) == {n \in names : AllAtomicTypes[n].kind # "int"}

Constructs(names) == {[type |-> Some({n}), how |-> "construct"] : n \in Structural(names)}

FirstConstructed == {"ints", "tuplesOfInts", "recordAB", "recordA", "fRest", "fIntIntByte"}

Exactifies == {[type |-> Some({n}), how |-> "exactify"] : n \in {"ints", "recordA"}}

\* The atomic types, some unions, and types of several basic types.
Tests(names) ==
    { [type |-> t, how |-> "test"] :
        t \in {Some({n}) : n \in Structural(names)}
              \cup {Some({"tuple", "L"}), Some({"mapOfInt", "tupleOfInts"}),
                    [all |-> {"int", "list"}, some |-> {"mapOfInt"}],
                    [all |-> {"nil"}, some |-> {"ints", "fInt", "recordA"}]} }

TypePrograms(names) ==
    { [imports |-> Diamond, state |-> AllOk, validMain |-> TRUE,
       uses |-> (root :> <<t, c>> @@ m1 :> <<d>> @@ m2 :> <<e, t>>)] :
        c \in Constructs(names \cap FirstConstructed), d \in Constructs(names), t \in Tests(names),
        e \in Exactifies \cup {[type |-> Some({"fRest"}), how |-> "construct"]} }

AllPrograms == DriverPrograms \cup TypePrograms(ClosedAtoms)

\* With the open record.
OpenPrograms == TypePrograms({"recordA", "recordAopen"})
=============================================================================

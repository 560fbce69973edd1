---------------------------- MODULE MCExactness -----------------------------
(* An instance of Exactness: byte[], int[] and int[][], functions, and       *)
(* records with fields x and y of several types.                            *)
EXTENDS Exactness, TLC

CONSTANTS
    list, mapping, function,
    bytes, ints,        \* the shape of a list that is a byte[], and of one that is not
    fn, other,          \* the shapes of functions
    nil, x, y, none,
    o1, o2, o3, r1, r2

ByteArray == {bytes}
IntArray == {bytes, ints}
Func == {fn}
AnyFunc == {fn, other}

\* Fields of a record; the same names stand for the first and the second
\* member of a list of lists.
Fields == {x, y}
Lists2 == {s \in [Fields \cup {list} -> IntArray \cup {nil}] :
            s[list] = nil /\ s[x] # nil /\ s[y] # nil}
MappingShapes == [Fields -> {bytes, ints, nil}]
Record(X, Y) == {s \in MappingShapes : s[x] \in X /\ s[y] \in Y}

TheKinds == {list, mapping, function}
TheStructures == {list, mapping}
TheShapesOf == [u \in TheKinds |-> CASE u = list -> IntArray \cup Lists2
                                     [] u = mapping -> MappingShapes
                                     [] OTHER -> AnyFunc]
TheMemberShape == [s \in IntArray \cup AnyFunc \cup Lists2 \cup MappingShapes |->
                    CASE s \in IntArray \cup AnyFunc -> [k \in Fields |-> nil]
                      [] s \in Lists2 -> [k \in Fields |-> s[k]]
                      [] OTHER -> s]

Mixed == Record(ByteArray, IntArray)
Optional == Record(IntArray \cup {nil}, IntArray)

TheInherent == {ByteArray, IntArray, Func, Lists2, Mixed, Optional}
TheRestTypes == {Lists2}
TheStaticTypes ==
    {{nil}, ByteArray, IntArray, IntArray \cup {nil}, Func, AnyFunc, Lists2, Mixed, Optional,
     IntArray \cup Mixed, IntArray \cup Optional}

NilShapes == {nil}
TheObjs == {o1, o2, o3}
TheRegs == {r1, r2}
Symmetry == Permutations(TheObjs) \cup Permutations(TheRegs)
=============================================================================

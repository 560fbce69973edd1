------------------------------- MODULE MCList -------------------------------
(* Instances of List: small ints of which two are bytes, a float, nil, and  *)
(* lists.  The inherent types are those for which the code differs.         *)
EXTENDS List

Lists == {[tag |-> "list", n |-> k] : k \in -1 .. MaxLists}
SomeInts == {[tag |-> "int", n |-> k] : k \in 0 .. 2}
SomeFloats == {[tag |-> "float", n |-> 0]}
Nil == {[tag |-> "nil", n |-> 0]}

Zero == [tag |-> "int", n |-> 0]
FloatZero == [tag |-> "float", n |-> 0]

FlatValues == SomeInts \cup SomeFloats \cup Nil
TwoBytes == {v \in SomeInts : v.n <= 1}

Array(ty, filler, value) ==
    [initial |-> <<>>, fixedLength |-> 0, rest |-> ty, filler |-> filler, value |-> value]
Tuple(tys, n, ty, filler, value) ==
    [initial |-> tys, fixedLength |-> n, rest |-> ty, filler |-> filler, value |-> value]

\* int[], byte[], float[], int?[] and (any|error)[]
Arrays ==
    {Array(SomeInts, "copy", Zero), Array(TwoBytes, "copy", Zero),
     Array(SomeFloats, "copy", FloatZero),
     Array(SomeInts \cup Nil, "copy", [tag |-> "nil", n |-> 0]),
     Array(FlatValues, "copy", [tag |-> "nil", n |-> 0])}

\* Lists of lists, and the open tuple [int, float, any[]...]
Nested ==
    {Array(Lists, "each", None), Array(Lists \cup {Zero}, "none", None),
     Tuple(<<{Zero}, SomeFloats>>, 2, Lists, "each", None)}

\* [int, int?, int?] and the types a value of it also belongs to
Closed ==
    {Tuple(<<SomeInts, SomeInts \cup Nil>>, 3, {}, "none", None),
     Tuple(<<SomeInts>>, 1, SomeInts \cup Nil, "copy", [tag |-> "nil", n |-> 0]),
     Array(SomeInts \cup Nil, "copy", [tag |-> "nil", n |-> 0])}

FlatTypes == {SomeInts, TwoBytes, SomeFloats, Nil, SomeInts \cup Nil, FlatValues}

\* All of them: a store of a value of another kind of list is refused by its type.
AllValues == FlatValues \cup Lists
AllLists == (Arrays \cup Nested)
AllTypes == {SomeInts, TwoBytes, SomeFloats, SomeInts \cup Nil, Lists, AllValues}

FlatIndices == -1 .. 3
=============================================================================

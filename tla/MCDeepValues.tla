---------------------------- MODULE MCDeepValues ----------------------------
(***************************************************************************)
(* Families of heaps of three structures: lists that refer to each other   *)
(* in many ways; two structures that refer to each other and hold scalars, *)
(* with the third as the arguments of println; flat lists and one list of  *)
(* lists to compare with <.                                                *)
(***************************************************************************)
EXTENDS DeepValues

Scalar(tag, imm, at, val) == [tag |-> tag, imm |-> imm, at |-> at, val |-> val]

\* NaN at two addresses, both zeros, decimals of equal value, ints of both
\* representations.
Floats == {Scalar("float", FALSE, 1, NaN), Scalar("float", FALSE, 2, NaN),
           Scalar("float", FALSE, 1, <<0, 0>>), Scalar("float", FALSE, 1, <<0, 1>>)}
Ints == {Scalar("int", TRUE, 0, <<1>>), Scalar("int", FALSE, 1, <<9>>), Scalar("int", FALSE, 2, <<9>>)}
Decimals == {Scalar("decimal", FALSE, 1, <<1, 0>>), Scalar("decimal", FALSE, 1, <<10, 1>>)}
Booleans == {Scalar("boolean", TRUE, 0, <<0>>), Scalar("boolean", TRUE, 0, <<1>>)}
Strings == {Scalar("string", TRUE, 0, <<1>>), Scalar("string", FALSE, 1, <<2>>)}
MCScalars == {NIL} \cup Floats \cup Ints \cup Decimals \cup Booleans \cup Strings

Pointer(tag, a, exact) == [tag |-> tag, at |-> a, exact |-> exact]
ListOfMembers(members) == [tag |-> "list", keys |-> <<>>, members |-> members]
MappingOf(keys, members) == [tag |-> "mapping", keys |-> keys, members |-> members]

Upto(n, S) == UNION {[1 .. k -> S] : k \in 0 .. n}
Lists(S) == {ListOfMembers(m) : m \in Upto(2, S)}
Mappings(S) == {MappingOf(k, m) : k \in {<<"x", "y">>, <<"y", "x">>}, m \in [1 .. 2 -> S]}
                \cup {MappingOf(<<"x">>, m) : m \in [1 .. 1 -> S]}

Triples(S1, S2, S3) == {<<s1, s2, s3>> : s1 \in S1, s2 \in S2, s3 \in S3}

Graphs == LET L(n) == {ListOfMembers(m) : m \in Upto(n, {Pointer("list", a, FALSE) : a \in 1 .. 3}) \ {<<>>}}
          IN Triples(L(2), L(2), L(1))

\* Two structures with members of S and pointers to each other.
Arguments(tag) == ListOfMembers(<<Pointer(tag, 1, FALSE), Pointer(tag, 2, TRUE)>>)
Pairs(S) ==
    LET L == Lists(S \cup {Pointer("list", 1, FALSE), Pointer("list", 2, TRUE)})
    IN Triples(L, L, {Arguments("list")})
MappingPairs(S) ==
    LET M == Mappings(S \cup {Pointer("mapping", 1, FALSE), Pointer("mapping", 2, TRUE)})
    IN Triples(M, M, {Arguments("mapping")})
ExactPairs ==
    LET L == Lists([tag : {"list"}, at : {1, 2}, exact : BOOLEAN])
    IN Triples(L, L, {Arguments("list")})

Short(S) == {ListOfMembers(m) : m \in Upto(1, S)}
Flat(S) == Triples(Lists(S), Lists(S), Short(S))
Nested(S) == Triples(Lists({NIL, Pointer("list", 2, FALSE), Pointer("list", 3, FALSE)}), Lists(S), Short(S))

MCHeaps ==
    Graphs \cup Pairs({f \in Floats : f.val = NaN}) \cup Pairs({f \in Floats : f.val # NaN})
    \cup Pairs(Decimals) \cup MappingPairs({i \in Ints : i.at # 2}) \cup ExactPairs
    \cup Flat({i \in Ints : i.at # 2} \cup {NIL})
    \cup Flat(Booleans) \cup Flat(Strings)
    \cup Nested({Scalar("float", FALSE, 1, NaN), Scalar("float", FALSE, 1, <<0, 0>>)})

MCRoots == {<<Pointer(t, 1, FALSE), Pointer(t, 2, e)>> : t \in StructureTags, e \in BOOLEAN}
           \cup {<<Pointer("list", 1, FALSE), Pointer("list", 3, FALSE)>>}
           \cup {<<NIL, Scalar("float", FALSE, 1, NaN)>>}

\* For the definitions TLC evaluates once.
MCHeapSet == MCHeaps
MCRootSet == MCRoots
=============================================================================

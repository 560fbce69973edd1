----------------------------- MODULE TypeShapes -----------------------------
(***************************************************************************)
(* What types mean: a type is a set of shapes, and a subtype is a subset.  *)
(* Shapes up to a height are enumerated, lists up to a length.  Also the   *)
(* filler of a type (types/core.bal).                                      *)
(***************************************************************************)
EXTENDS Naturals, Sequences, FiniteSets, SequencesExt

CONSTANTS
    AtomicTypes,    \* the atomic types by name
    Keys,           \* of mappings
    Length          \* bound on the length of a list

OfKind(kind) == {n \in DOMAIN AtomicTypes : AtomicTypes[n].kind = kind}

\* What a table, a set of pairs, has for a name.
Lookup(table, n) == (CHOOSE p \in table : p[1] = n)[2]

\* Some shapes of each simple basic type; the first of int is a byte.
SimpleShapes(code) == IF code = "int" THEN {<<"int", 0>>, <<"int", 256>>} ELSE {<<code, 0>>}

\* Of a type, given those of the atomic types in it.
ShapesOf(t, shapes) ==
    UNION {SimpleShapes(code) : code \in t.all} \cup UNION {Lookup(shapes, a) : a \in t.some}

ListShapes(a, shapes) ==
    LET Member(i) == ShapesOf(IF i <= Len(a.members) THEN a.members[i] ELSE a.rest, shapes)
        Lists(n) == {s \in [1 .. n -> UNION {Member(i) : i \in 1 .. n}] : \A i \in 1 .. n : s[i] \in Member(i)}
    IN {<<"list", s>> : s \in UNION {Lists(n) : n \in Len(a.members) .. Length}}

MappingShapes(a, shapes) ==
    LET Index(k) == CHOOSE i \in DOMAIN a.names : a.names[i] = k
        Member(k) == ShapesOf(IF k \in ToSet(a.names) THEN a.members[Index(k)] ELSE a.rest, shapes)
        Mappings(K) == {f \in [K -> UNION {Member(k) : k \in K}] : \A k \in K : f[k] \in Member(k)}
    IN {<<"mapping", f>> : f \in UNION {Mappings(K) : K \in {K \in SUBSET Keys : ToSet(a.names) \subseteq K}}}

\* The shapes of the atomic types other than functions, one level higher.
Higher(shapes) ==
    LET Shapes(a) ==
            CASE a.kind = "int" -> {<<"int", 0>>}
              [] a.kind = "list" -> ListShapes(a, shapes)
              [] a.kind = "mapping" -> MappingShapes(a, shapes)
              [] OTHER -> {}
    IN {<<n, Shapes(AtomicTypes[n])>> : n \in DOMAIN AtomicTypes}

\* Up to height 3.
Shapes0 == {<<n, {}>> : n \in DOMAIN AtomicTypes}
Shapes1 == Higher(Shapes0)
Shapes2 == Higher(Shapes1)
Shapes3 == Higher(Shapes2)

\* Parameters are contravariant; those past the required ones are the rest's.
FunctionIsSubtype(d, e, shapes) ==
    LET Param(a, i) == IF i <= Len(a.members) THEN a.members[i] ELSE a.rest
        Within(t, u) == ShapesOf(t, shapes) \subseteq ShapesOf(u, shapes)
    IN /\ Len(d.members) <= Len(e.members)
       /\ \A i \in DOMAIN e.members : Within(Param(e, i), Param(d, i))
       /\ Within(e.rest, d.rest)
       /\ Within(d.returns, e.returns)

\* t:isSubtype for an atomic type and the union of one or two of its kind.
ShapeSubtyping ==
    LET IsSubtype(a, S) ==
            IF AtomicTypes[a].kind = "function"
            THEN \E b \in S : FunctionIsSubtype(AtomicTypes[a], AtomicTypes[b], Shapes3)
            ELSE Lookup(Shapes3, a) \subseteq UNION {Lookup(Shapes3, b) : b \in S}
        structural == DOMAIN AtomicTypes \ OfKind("int")
        SameKind(a, b) == AtomicTypes[a].kind = AtomicTypes[b].kind
        Candidates ==
            {t \in structural \X structural \X structural : SameKind(t[1], t[2]) /\ SameKind(t[1], t[3])}
    IN {<<t[1], {t[2], t[3]}>> : t \in {t \in Candidates : IsSubtype(t[1], {t[2], t[3]})}}

-----------------------------------------------------------------------------

\* computeFiller, given what is known of the atomic types.
HasFiller(t, fillable) ==
    \/ "nil" \in t.all
    \/ t.some = {} /\ Cardinality(t.all) = 1
    \/ t.all = {} /\ Cardinality(t.some) = 1 /\ t.some \subseteq fillable

\* What is known of them one level higher, as pairs of a type and the structures
\* that its filler is made of, the outermost first (addListFillerDesc,
\* finishFixedLengthListFillerDesc, addMappingFillerDesc).  A recursive tuple has no
\* filler, since there is none for it while its filler is computed (filler).
HigherFillers(fillers) ==
    LET fillable == {f[1] : f \in fillers}
        Simple == {n \in OfKind("mapping") : AtomicTypes[n].names = <<>>}
        Lists == {n \in OfKind("list") : \A t \in ToSet(AtomicTypes[n].members) : HasFiller(t, fillable)}
        OfMember(t) ==
            IF "nil" \in t.all \/ t.some = {} THEN <<>>
            ELSE Lookup(fillers, CHOOSE m \in t.some : TRUE)
        OfList(n) == <<n>> \o FlattenSeq([i \in DOMAIN AtomicTypes[n].members |->
                                              OfMember(AtomicTypes[n].members[i])])
    IN {<<n, <<>>>> : n \in OfKind("int")}
         \cup {<<n, <<n>>>> : n \in Simple}
         \cup {<<n, OfList(n)>> : n \in Lists}

ShapeFillers == HigherFillers(HigherFillers(HigherFillers({})))
=============================================================================

------------------------------ MODULE TypeTest ------------------------------
(***************************************************************************)
(* The type test of the runtime for a value of any basic type: `x is T`,   *)
(* and the test of what is stored in a list or a mapping (balrt.h and the  *)
(* functions named _subtype_contains).  A type is given by what it means:  *)
(* all of a basic type, or a subtype of it; the ComplexType that is read   *)
(* at run time is built from that (nback/init.bal).                        *)
(*                                                                         *)
(* The values of a basic type are integers: an int is itself, a float and  *)
(* a decimal their place in the order of numbers (equal numbers have one), *)
(* a string its place in the order of code points, a structure its tid.    *)
(***************************************************************************)
EXTENDS Integers, Sequences, FiniteSets

CONSTANTS
    Types,      \* [all, sub]: the tags that are included whole, and the subtypes
    Values,     \* [tag, n]
    NaN,        \* the integer that stands for the float NaN
    Chars       \* the strings that have one code point

VARIABLES
    type,       \* the type of the test
    value,      \* the value that is tested
    subtype,    \* the subtype that is looked into
    start, end, \* what is still to be searched of its list, as offsets
    at,         \* where the test is
    answer

testVars == <<type, value, subtype, start, end, at, answer>>

\* tag.h
TAG_BOOLEAN == 1
TAG_INT == 2
TAG_FLOAT == 3
TAG_DECIMAL == 4
TAG_STRING == 5
Tags == 0 .. 17

-----------------------------------------------------------------------------

(* The subtypes.  `list` is the values in the list, or the least ints of   *)
(* the ranges; `maxs` the greatest.                                        *)

Subtype == [kind : {"true", "false", "int", "float", "decimal", "string", "precomputed"},
            list : Seq(Int), maxs : Seq(Int),
            included : BOOLEAN, charIncluded : BOOLEAN]

NoSubtype == [kind |-> "true", list |-> <<>>, maxs |-> <<>>, included |-> TRUE, charIncluded |-> TRUE]

\* What the declarations of the subtypes say of them.
WellFormed(s) ==
    /\ s.kind = "int" => /\ Len(s.list) > 0 /\ Len(s.maxs) = Len(s.list)
                         /\ \A i, j \in DOMAIN s.list : i < j => s.maxs[i] < s.list[j]
    /\ s.kind = "float" => Len(s.list) > 0
    /\ s.kind # "int" => /\ \A i \in DOMAIN s.list : s.list[i] = NaN => s.kind = "float" /\ i = 1
                         /\ \A i, j \in DOMAIN s.list : i < j /\ s.list[i] # NaN => s.list[i] < s.list[j]

\* The kinds of subtypes that a basic type has.
KindOf(tag) ==
    CASE tag = TAG_BOOLEAN -> {"true", "false"}
      [] tag = TAG_INT -> {"int"}
      [] tag = TAG_FLOAT -> {"float"}
      [] tag = TAG_DECIMAL -> {"decimal"}
      [] tag = TAG_STRING -> {"string"}
      [] OTHER -> {"precomputed"}

ASSUME TypesAssumption ==
    \A t \in Types :
        /\ t.all \subseteq Tags /\ DOMAIN t.sub \subseteq Tags
        /\ t.all \cap DOMAIN t.sub = {}
        /\ \A tag \in DOMAIN t.sub : /\ t.sub[tag] \in Subtype
                                     /\ t.sub[tag].kind \in KindOf(tag)
                                     /\ WellFormed(t.sub[tag])

ASSUME ValuesAssumption ==
    /\ \A v \in Values : v.tag \in Tags /\ v.n \in Int
    /\ \A v \in Values : v.tag = TAG_BOOLEAN => v.n \in {0, 1}
    /\ \A v \in Values : v.n = NaN => v.tag = TAG_FLOAT
    /\ NaN \in Int

-----------------------------------------------------------------------------

(* The ComplexType of a type. *)

\* The number of the flags of `some` that are below the flag of the tag.
popcount(some, tag) == Cardinality({t \in some : t < tag})

\* The subtypes are pushed in the order of the basic type codes.
addComplexTypeDefn(t) ==
    [all |-> t.all, some |-> DOMAIN t.sub,
     subtypes |-> [i \in 1 .. Cardinality(DOMAIN t.sub) |->
                      t.sub[CHOOSE tag \in DOMAIN t.sub : popcount(DOMAIN t.sub, tag) = i - 1]]]

\* Mutant: the flags above the tag's are counted.
complexTypeUniformSubtypeData_Above(ctp, tag) ==
    [isPtr |-> tag \in ctp.some /\ tag \notin ctp.all,
     contains |-> tag \in ctp.all,
     ptr |-> IF tag \in ctp.some THEN ctp.subtypes[Cardinality({t \in ctp.some : t > tag}) + 1] ELSE NoSubtype]

complexTypeUniformSubtypeData(ctp, tag) ==
    [isPtr |-> tag \in ctp.some /\ tag \notin ctp.all,
     contains |-> tag \in ctp.all,
     ptr |-> IF tag \in ctp.some THEN ctp.subtypes[popcount(ctp.some, tag) + 1] ELSE NoSubtype]

-----------------------------------------------------------------------------

(* Numbers in C: NaN is neither equal to, less than nor greater than any. *)

Equal(a, b) == a # NaN /\ b # NaN /\ a = b
Less(a, b) == a # NaN /\ b # NaN /\ a < b

-----------------------------------------------------------------------------

(* The test. *)

TestInit ==
    /\ type \in Types
    /\ value \in Values
    /\ subtype = NoSubtype
    /\ start = 0 /\ end = 0
    /\ at = "called"
    /\ answer = FALSE

Return(result) ==
    /\ answer' = result
    /\ at' = "returned"
    /\ UNCHANGED <<start, end>>

Loop(which, first) ==
    /\ at' = which
    /\ start' = first
    /\ end' = Len(subtype'.list)
    /\ UNCHANGED answer

boolean_subtype_contains(s) == Return(value.n = IF s.kind = "true" THEN 1 ELSE 0)

\* floatSubtypeContainsFloat: the first entry is read before the list is known to
\* have one.
float_subtype_contains(s) ==
    IF s.list[1] = NaN
    THEN IF value.n = NaN THEN Return(s.included) ELSE Loop("search", 1)
    ELSE IF value.n = NaN THEN Return(~ s.included) ELSE Loop("search", 0)

\* The function that the subtype has for it.
contains(s) ==
    IF s.kind \in {"true", "false"} THEN boolean_subtype_contains(s)
    ELSE IF s.kind = "float" THEN float_subtype_contains(s)
    ELSE Loop(IF s.kind = "int" THEN "ranges" ELSE "search", 0)

\* complexTypeContainsTagged, _bal_type_contains_int and _bal_type_contains_float:
\* what is included whole or not at all is decided by the bit sets.
complexTypeContainsTagged ==
    /\ at = "called"
    /\ LET usd == complexTypeUniformSubtypeData(addComplexTypeDefn(type), value.tag)
       IN IF usd.isPtr THEN subtype' = usd.ptr /\ contains(usd.ptr)
                       ELSE subtype' = subtype /\ Return(usd.contains)
    /\ UNCHANGED <<type, value>>

\* Whether what is in the list is in the type; the list of a precomputed subtype is
\* the type.
Included(s, n) ==
    IF s.kind = "string" /\ n \in Chars THEN s.charIncluded ELSE s.kind = "precomputed" \/ s.included

Found(inList) == Return(inList <=> Included(subtype, value.n))

mid == start + (end - start) \div 2

\* Mutant: the entry in the middle is taken for searched when the value is less.
Search_OffByOne ==
    /\ at = "search"
    /\ IF start >= end THEN Found(FALSE)
       ELSE IF Equal(value.n, subtype.list[mid + 1]) THEN Found(TRUE)
       ELSE IF Less(value.n, subtype.list[mid + 1])
            THEN end' = mid - 1 /\ UNCHANGED <<start, at, answer>>
            ELSE start' = mid + 1 /\ UNCHANGED <<end, at, answer>>
    /\ UNCHANGED <<type, value, subtype>>

\* One turn of a binary search.
Search ==
    /\ at = "search"
    /\ IF start >= end THEN Found(FALSE)
       ELSE IF Equal(value.n, subtype.list[mid + 1]) THEN Found(TRUE)
       ELSE IF Less(value.n, subtype.list[mid + 1])
            THEN end' = mid /\ UNCHANGED <<start, at, answer>>
            ELSE start' = mid + 1 /\ UNCHANGED <<end, at, answer>>
    /\ UNCHANGED <<type, value, subtype>>

\* The lists with their comparisons; only that of floats may hold NaN.
tidListContains == subtype.kind = "precomputed" /\ Search
stringListContains == subtype.kind = "string" /\ Search
floatListContains == subtype.kind = "float" /\ Search
decimalListContains == subtype.kind = "decimal" /\ Search

\* One turn of the loop, which is known to have a range to look at.
intRangeListContains ==
    /\ at = "ranges"
    /\ IF value.n <= subtype.maxs[start + 1] THEN Return(value.n >= subtype.list[start + 1])
       ELSE IF start + 1 = end THEN Return(FALSE)
       ELSE start' = start + 1 /\ UNCHANGED <<end, at, answer>>
    /\ UNCHANGED <<type, value, subtype>>

TestNext ==
    \/ complexTypeContainsTagged
    \/ tidListContains \/ stringListContains \/ floatListContains \/ decimalListContains
    \/ intRangeListContains

TestSpec == TestInit /\ [][TestNext]_testVars

-----------------------------------------------------------------------------

(* What the test is to decide. *)

InList(s, n) == \E i \in DOMAIN s.list : s.list[i] = n

Belongs(s, v) ==
    IF s.kind \in {"true", "false"} THEN v.n = 1 <=> s.kind = "true"
    ELSE IF s.kind = "int" THEN \E i \in DOMAIN s.list : s.list[i] <= v.n /\ v.n <= s.maxs[i]
    ELSE InList(s, v.n) <=> Included(s, v.n)

IsMember(t, v) ==
    \/ v.tag \in t.all
    \/ v.tag \in DOMAIN t.sub /\ Belongs(t.sub[v.tag], v)

\* The test of a value against a type, by bit sets, ranges of ints and binary
\* search, says whether the value belongs to the type, at the ends of the lists and
\* for NaN too (complexTypeContainsTagged and what it calls).
TestExact == at = "returned" => (answer <=> IsMember(type, value))

\* The entry that a loop reads next is in the list; floatSubtypeContainsFloat and
\* intRangeListContains read the first one without looking at the length.
ReadsInBounds ==
    /\ at = "search" /\ start < end => mid + 1 \in DOMAIN subtype.list
    /\ at = "ranges" => start + 1 \in DOMAIN subtype.list
=============================================================================

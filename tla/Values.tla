------------------------------- MODULE Values -------------------------------
(***************************************************************************)
(* Tagged pointers and the heap of lists and mappings that the deep        *)
(* operations of the runtime (==, <, println) walk.  A pointer to a        *)
(* structure carries the exact bit, which is no part of the value.  A      *)
(* scalar is immediate (its payload is all there is) or has an address.    *)
(* Structures may refer to each other in cycles.                           *)
(***************************************************************************)
EXTENDS Integers, Sequences

CONSTANTS
    Addresses,        \* of structures
    Scalars,          \* tagged values: [tag, imm, at, val], val a tuple of integers
    Keys              \* of mappings

VARIABLE
    heap              \* [Addresses -> structures]

NIL == [tag |-> "nil", imm |-> TRUE, at |-> 0, val |-> <<>>]

StructureTags == {"list", "mapping"}
Pointers == [tag : StructureTags, at : Addresses, exact : BOOLEAN]
TaggedPtrs == Scalars \cup Pointers

IsStructure(tp) == tp \in Pointers

\* The tag byte of a tagged pointer: the immediate flag is a part of it.
getTag(tp) == IF IsStructure(tp) THEN <<tp.tag, FALSE>> ELSE <<tp.tag, tp.imm>>

Members(tp) == heap[tp.at].members

Structures == [tag : StructureTags, keys : Seq(Keys), members : Seq(TaggedPtrs)]

\* Pointers carry the tag of the structure they point to, and a mapping has
\* every key once.
WellFormed ==
    \A a \in Addresses :
        /\ heap[a].tag = "mapping" =>
            /\ Len(heap[a].keys) = Len(heap[a].members)
            /\ \A i, j \in DOMAIN heap[a].keys : heap[a].keys[i] = heap[a].keys[j] => i = j
        /\ \A i \in DOMAIN heap[a].members :
            heap[a].members[i] \in Pointers => heap[a].members[i].tag = heap[heap[a].members[i].at].tag

-----------------------------------------------------------------------------
\* A float is <<n>> or <<n, sign>> (the zeros are <<0, 0>> and <<0, 1>>) or NaN.
NaN == <<>>

\* _bal_float_eq: NaN equals NaN and the zeros are equal.
floatEq(v1, v2) == IF NaN \in {v1, v2} THEN v1 = v2 ELSE v1[1] = v2[1]

\* A decimal is <<coefficient, places>>; _bal_decimal_cmp compares the
\* coefficients brought to common places.
Scaled(d1, d2) == d1[1] * 10 ^ d2[2]

\* The comparison that a basic type has for two values of it.
PayloadEq(tag, v1, v2) ==
    IF tag = "float" THEN floatEq(v1, v2)
    ELSE IF tag = "decimal" THEN Scaled(v1, v2) = Scaled(v2, v1)
    ELSE v1 = v2

\* What it means for two scalars to be equal: the same basic type and value.
SameValue(s1, s2) == s1.tag = s2.tag /\ PayloadEq(s1.tag, s1.val, s2.val)

\* A value is always immediate or never, and the payload of an immediate one
\* is all of it (intToTagged, _bal_string_alloc; see Scalars).
ASSUME Canonical ==
    /\ Scalars \cap Pointers = {}
    /\ NIL \in Scalars
    /\ \A s, t \in Scalars :
        /\ s.imm \in BOOLEAN
        /\ s.tag \in {"nil", "boolean"} => s.imm
        /\ s.imm => s.tag \notin {"float", "decimal"}
        /\ s.tag = t.tag /\ s.tag \notin {"float", "decimal"} /\ s.val = t.val => s.imm = t.imm
        /\ s.imm /\ t.imm /\ s.tag = t.tag /\ s.val = t.val => s = t
        /\ s.tag \in {"nil", "boolean", "int", "string", "float", "decimal"}
-----------------------------------------------------------------------------
(***************************************************************************)
(* What == means: two values are equal when some relation between          *)
(* structures relates them and relates, for every two structures it        *)
(* relates, their members.  Cyclic values have equal infinite unfoldings.  *)
(***************************************************************************)
Related(R, tp1, tp2) ==
    IF IsStructure(tp1) /\ IsStructure(tp2) THEN <<tp1.at, tp2.at>> \in R
    ELSE ~IsStructure(tp1) /\ ~IsStructure(tp2) /\ SameValue(tp1, tp2)

SameMembers(R, s1, s2) ==
    /\ s1.tag = s2.tag
    /\ Len(s1.members) = Len(s2.members)
    /\ \A i \in DOMAIN s1.members :
        IF s1.tag = "list" THEN Related(R, s1.members[i], s2.members[i])
        ELSE \E j \in DOMAIN s2.members :
                s1.keys[i] = s2.keys[j] /\ Related(R, s1.members[i], s2.members[j])

Bisimulation(R) == \A a, b \in Addresses : <<a, b>> \in R => SameMembers(R, heap[a], heap[b])

DeepEqual(tp1, tp2) ==
    \E R \in SUBSET (Addresses \X Addresses) : Related(R, tp1, tp2) /\ Bisimulation(R)
=============================================================================

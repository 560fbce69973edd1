----------------------------- MODULE Comparison -----------------------------
(***************************************************************************)
(* The relational operators on values that may be lists: taggedPtrCompare  *)
(* and the opt comparators (balrt.h), optListDoCompare and the comparators *)
(* of arrays (list.c).  Only types without recursion are comparable, so    *)
(* the lists that are compared are not cyclic.                             *)
(***************************************************************************)
EXTENDS Values, FiniteSets

intCompare(n1, n2) == IF n1 = n2 THEN "EQ" ELSE IF n1 < n2 THEN "LT" ELSE "GT"

taggedFloatCompare(v1, v2) ==
    IF NaN \in {v1, v2} THEN "UN" ELSE intCompare(v1[1], v2[1])

taggedBooleanCompare(v1, v2) == IF v1 = v2 THEN "EQ" ELSE IF v1 = <<1>> THEN "GT" ELSE "LT"

\* By the sign of _bal_string_cmp and of _bal_decimal_cmp.
stringCompare(v1, v2) == intCompare(v1[1], v2[1])
decimalCompare(v1, v2) == intCompare(Scaled(v1, v2), Scaled(v2, v1))

\* The cases of taggedPtrCompare for scalars.
scalarCompare(tp1, tp2) ==
    CASE tp1.tag = "float" -> taggedFloatCompare(tp1.val, tp2.val)
      [] tp1.tag = "decimal" -> decimalCompare(tp1.val, tp2.val)
      [] tp1.tag = "string" -> stringCompare(tp1.val, tp2.val)
      [] tp1.tag = "boolean" -> taggedBooleanCompare(tp1.val, tp2.val)
      [] tp1.tag = "int" -> intCompare(tp1.val[1], tp2.val[1])

\* Mutant: nil comes before everything.
optDoCompare_NilFirst(tp1, tp2) ==
    IF tp1 = NIL THEN IF tp2 = NIL THEN "EQ" ELSE "LT"
    ELSE IF tp2 = NIL THEN "GT"
    ELSE scalarCompare(tp1, tp2)

\* optDoCompare, optStringCompare, optDecimalCompare
optDoCompare(tp1, tp2) ==
    IF tp1 = NIL THEN IF tp2 = NIL THEN "EQ" ELSE "UN"
    ELSE IF tp2 = NIL THEN "UN"
    ELSE scalarCompare(tp1, tp2)

RECURSIVE optListDoCompare(_, _, _)

\* The comparator that optListDoCompare is given; tag1 # tag2 only if one
\* of them is nil.
memberCompare(compare, tp1, tp2) ==
    CASE compare = "opt" -> optDoCompare(tp1, tp2)
      [] compare = "optList" -> optListDoCompare(tp1, tp2, "tagged")
      [] compare = "tagged" ->
            IF tp1.tag # tp2.tag THEN "UN"
            ELSE IF IsStructure(tp1) THEN optListDoCompare(tp1, tp2, "tagged")
            ELSE IF tp1 = NIL THEN "EQ"
            ELSE scalarCompare(tp1, tp2)

\* The result for the first member that does not compare equal, or else for
\* the lengths.
optListDoCompare(tp1, tp2, compare) ==
    IF tp1 = tp2 THEN "EQ"
    ELSE IF NIL \in {tp1, tp2} THEN "UN"
    ELSE LET len1 == Len(Members(tp1))
             len2 == Len(Members(tp2))
             len == IF len1 <= len2 THEN len1 ELSE len2
             result(i) == memberCompare(compare, Members(tp1)[i], Members(tp2)[i])
             differ == {i \in 1 .. len : result(i) # "EQ"}
         IN IF differ = {} THEN intCompare(len1, len2)
            ELSE result(CHOOSE i \in differ : \A j \in differ : i <= j)

taggedPtrCompare(tp1, tp2) == memberCompare("tagged", tp1, tp2)
_bal_opt_list_compare(tp1, tp2) == optListDoCompare(tp1, tp2, "tagged")
_bal_array_compare(tp1, tp2) == optListDoCompare(tp1, tp2, "opt")
_bal_array_list_compare(tp1, tp2) == optListDoCompare(tp1, tp2, "optList")

\* _bal_array_exact_int_compare works on the ints themselves.
_bal_array_exact_int_compare(tp1, tp2) ==
    IF tp1 = tp2 THEN "EQ"
    ELSE LET len == IF Len(Members(tp1)) <= Len(Members(tp2))
                    THEN Len(Members(tp1)) ELSE Len(Members(tp2))
             n1(i) == Members(tp1)[i].val[1]
             n2(i) == Members(tp2)[i].val[1]
             differ == {i \in 1 .. len : n1(i) # n2(i)}
         IN IF differ = {} THEN intCompare(Len(Members(tp1)), Len(Members(tp2)))
            ELSE LET i == CHOOSE i \in differ : \A j \in differ : i <= j
                 IN intCompare(n1(i), n2(i))
-----------------------------------------------------------------------------
\* ===: the exact bit is ignored; numbers are the same to the last bit.
_bal_exact_eq(tp1, tp2) ==
    \/ tp1 = tp2
    \/ /\ getTag(tp1) = getTag(tp2)
       /\ IF IsStructure(tp1) THEN tp1.at = tp2.at ELSE ~tp1.imm /\ tp1.val = tp2.val
-----------------------------------------------------------------------------
\* Values of comparable types: scalars of one basic type, nil, and lists of
\* such, to a depth.
RECURSIVE Comparable(_, _, _)
Comparable(tp1, tp2, depth) ==
    \/ tp1 = NIL /\ (IsStructure(tp2) => Comparable(tp2, tp2, depth))
    \/ tp2 = NIL /\ (IsStructure(tp1) => Comparable(tp1, tp1, depth))
    \/ ~IsStructure(tp1) /\ ~IsStructure(tp2) /\ tp1.tag = tp2.tag
    \/ /\ IsStructure(tp1) /\ IsStructure(tp2) /\ depth > 0
       /\ tp1.tag = "list" /\ tp2.tag = "list"
       /\ \A i \in DOMAIN Members(tp1), j \in DOMAIN Members(tp2) :
            Comparable(Members(tp1)[i], Members(tp2)[j], depth - 1)

RECURSIVE HasNaN(_, _)
HasNaN(tp, depth) ==
    IF IsStructure(tp)
    THEN depth > 0 /\ \E i \in DOMAIN Members(tp) : HasNaN(Members(tp)[i], depth - 1)
    ELSE tp.tag = "float" /\ tp.val = NaN

Depth == Cardinality(Addresses)
ListOf(tp, S) == \A i \in DOMAIN Members(tp) : Members(tp)[i] \in S
Flip(r) == CASE r = "LT" -> "GT" [] r = "GT" -> "LT" [] OTHER -> r

ComparedLists ==
    {p \in Pointers :
        ~p.exact /\ p.tag = "list" /\ heap[p.at].tag = "list" /\ Comparable(p, p, Depth)}
=============================================================================

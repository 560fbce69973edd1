---------------------------- MODULE IntSubtypes -----------------------------
(***************************************************************************)
(* Subtypes of int as lists of ranges <<min, max>>, and the operations on  *)
(* them (types/int.bal).  SubtypeData that is a boolean is the list of no  *)
(* range, or of the one range of all ints.                                 *)
(***************************************************************************)
EXTENDS Integers, Sequences

CONSTANTS MIN_VALUE, MAX_VALUE      \* of int

VARIABLES
    intSubtype,     \* a subtype that the operations have made, from constants
    intValues       \* the ints that are to be in it

intTypeVars == <<intSubtype, intValues>>

Ints == MIN_VALUE .. MAX_VALUE
All == <<<<MIN_VALUE, MAX_VALUE>>>>

Lesser(a, b) == IF a < b THEN a ELSE b
Greater(a, b) == IF a < b THEN b ELSE a

-----------------------------------------------------------------------------

\* -1 or 1 if there is no one range for the two, otherwise the range; as it is
\* written, ranges that meet are merged in one order of the two only.
rangeUnion(r1, r2) ==
    IF r1[2] < r2[1] /\ r1[2] + 1 # r2[1] THEN <<-1>>
    ELSE IF r2[2] < r1[1] /\ r2[2] + 1 # r2[1] THEN <<1>>
    ELSE <<Lesser(r1[1], r2[1]), Greater(r1[2], r2[2])>>

IsRange(combined) == Len(combined) = 2

\* Mutant: a range is pushed without a look at the last one.
rangeUnionPush_Plain(ranges, next) == Append(ranges, next)

rangeUnionPush(ranges, next) ==
    LET last == Len(ranges)
        combined == rangeUnion(ranges[last], next)
    IN IF last > 0 /\ IsRange(combined) THEN [ranges EXCEPT ![last] = combined]
       ELSE Append(ranges, next)

rangeListUnion(v1, v2) ==
    LET merge[i1 \in 1 .. Len(v1) + 1, i2 \in 1 .. Len(v2) + 1, result \in Seq(Ints \X Ints)] ==
            LET combined == rangeUnion(v1[i1], v2[i2])
            IN IF i1 > Len(v1) /\ i2 > Len(v2) THEN result
               ELSE IF i1 > Len(v1) THEN merge[i1, i2 + 1, rangeUnionPush(result, v2[i2])]
               ELSE IF i2 > Len(v2) THEN merge[i1 + 1, i2, rangeUnionPush(result, v1[i1])]
               ELSE IF IsRange(combined) THEN merge[i1 + 1, i2 + 1, rangeUnionPush(result, combined)]
               ELSE IF combined[1] < 0 THEN merge[i1 + 1, i2, rangeUnionPush(result, v1[i1])]
               ELSE merge[i1, i2 + 1, rangeUnionPush(result, v2[i2])]
    IN merge[1, 1, <<>>]

rangeIntersect(r1, r2) ==
    IF r1[2] < r2[1] THEN <<-1>>
    ELSE IF r2[2] < r1[1] THEN <<1>>
    ELSE <<Greater(r1[1], r2[1]), Lesser(r1[2], r2[2])>>

\* Both ranges are left behind once they have been intersected.
rangeListIntersect(v1, v2) ==
    LET merge[i1 \in 1 .. Len(v1) + 1, i2 \in 1 .. Len(v2) + 1, result \in Seq(Ints \X Ints)] ==
            LET combined == rangeIntersect(v1[i1], v2[i2])
            IN IF i1 > Len(v1) \/ i2 > Len(v2) THEN result
               ELSE IF IsRange(combined) THEN merge[i1 + 1, i2 + 1, Append(result, combined)]
               ELSE IF combined[1] < 0 THEN merge[i1 + 1, i2, result]
               ELSE merge[i1, i2 + 1, result]
    IN merge[1, 1, <<>>]

\* Mutant: there is always a range below the first one.
rangeListComplement_Below(v) ==
    <<<<MIN_VALUE, v[1][1] - 1>>>>
      \o [i \in 1 .. Len(v) - 1 |-> <<v[i][2] + 1, v[i + 1][1] - 1>>]
      \o (IF v[Len(v)][2] < MAX_VALUE THEN <<<<v[Len(v)][2] + 1, MAX_VALUE>>>> ELSE <<>>)

rangeListComplement(v) ==
    (IF v[1][1] > MIN_VALUE THEN <<<<MIN_VALUE, v[1][1] - 1>>>> ELSE <<>>)
      \o [i \in 1 .. Len(v) - 1 |-> <<v[i][2] + 1, v[i + 1][1] - 1>>]
      \o (IF v[Len(v)][2] < MAX_VALUE THEN <<<<v[Len(v)][2] + 1, MAX_VALUE>>>> ELSE <<>>)

intSubtypeContains(v, n) == \E i \in DOMAIN v : v[i][1] <= n /\ n <= v[i][2]

IsProper(v) == v # <<>> /\ v # All

-----------------------------------------------------------------------------

\* intConst, and intRange for what is not all of int.
IntTypesInit ==
    /\ intSubtype \in {<<<<a, b>>>> : a \in Ints, b \in Ints}
    /\ intSubtype[1][1] <= intSubtype[1][2] /\ IsProper(intSubtype)
    /\ intValues = intSubtype[1][1] .. intSubtype[1][2]

\* The union with another subtype; the second one is the operand with one range.
intSubtypeUnion(r) ==
    /\ IsProper(intSubtype)
    /\ \/ intSubtype' = rangeListUnion(intSubtype, <<r>>)
       \/ intSubtype' = rangeListUnion(<<r>>, intSubtype)
    /\ intValues' = intValues \cup r[1] .. r[2]

intSubtypeComplement ==
    /\ IsProper(intSubtype)
    /\ intSubtype' = rangeListComplement(intSubtype)
    /\ intValues' = Ints \ intValues

IntTypesNext ==
    \/ \E a, b \in Ints : a <= b /\ IsProper(<<<<a, b>>>>) /\ intSubtypeUnion(<<a, b>>)
    \/ intSubtypeComplement

-----------------------------------------------------------------------------

ValuesOf(v) == {n \in Ints : intSubtypeContains(v, n)}

\* The one list of ranges for a set of ints.
Canonical(v) ==
    /\ \A i \in DOMAIN v : MIN_VALUE <= v[i][1] /\ v[i][1] <= v[i][2] /\ v[i][2] <= MAX_VALUE
    /\ \A i \in 1 .. Len(v) - 1 : v[i][2] + 1 < v[i + 1][1]

\* Two ints and all between them.
Others == {<<<<a, b>>>> : a \in Ints, b \in Ints} \cup {<<<<a, a>>, <<b, b>>>> : a \in Ints, b \in Ints}

OtherSubtypes == {v \in Others : IsProper(v) /\ Canonical(v)}

\* Unions and complements of subtypes of int, in any sequence, are the sets that they
\* are to be, each in its one form: equal types are equal lists, no int is lost at the
\* least and greatest one, and the ranges are in order, which the type test at run
\* time relies on.  An intersection is empty only if it is to be (int.bal).
IntTypesExact ==
    /\ ValuesOf(intSubtype) = intValues
    /\ Canonical(intSubtype)
    /\ IsProper(intSubtype) =>
         \A v \in OtherSubtypes :
            /\ rangeListIntersect(intSubtype, v) = <<>> <=> intValues \cap ValuesOf(v) = {}
            /\ Canonical(rangeListUnion(intSubtype, v))
            /\ ValuesOf(rangeListUnion(intSubtype, v)) = intValues \cup ValuesOf(v)

\* "diff = intersect(d1, complement(d2))" (types/core.bal): what is left of a subtype
\* of int when another one is taken away are the ints that are in the one and not in
\* the other.
DiffExact ==
    IsProper(intSubtype) =>
        \A v \in OtherSubtypes :
            ValuesOf(rangeListIntersect(intSubtype, rangeListComplement(v))) = intValues \ ValuesOf(v)
=============================================================================

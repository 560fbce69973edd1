--------------------------- MODULE TypeTestProofs ---------------------------
(***************************************************************************)
(* The type test of the runtime decides whether a value belongs to a type, *)
(* for all types and values.                                               *)
(***************************************************************************)
EXTENDS TypeTest, FiniteSetTheorems, TLAPS

\* The subtype that is to be looked into.
Chosen == /\ value.tag \in DOMAIN type.sub
          /\ value.tag \notin type.all
          /\ subtype = type.sub[value.tag]

\* "Invariant: if there is a member in the list == to d, then its address p
\* satisfies start <= p < end" (floatListContains and its likes).
Searching ==
    /\ Chosen
    /\ subtype.kind \notin {"true", "false", "int"}
    /\ start \in Nat /\ end \in Nat /\ end <= Len(subtype.list)
    /\ value.n # NaN
    /\ \A i \in DOMAIN subtype.list : i > start => subtype.list[i] # NaN
    /\ \A i \in DOMAIN subtype.list : subtype.list[i] = value.n => start < i /\ i <= end

\* All ranges that have been passed lie below the value.
InRanges ==
    /\ Chosen
    /\ subtype.kind = "int"
    /\ start \in Nat /\ end = Len(subtype.list) /\ start < end
    /\ \A i \in 1 .. start : subtype.maxs[i] < value.n

TestInv ==
    /\ type \in Types /\ value \in Values
    /\ at \in {"called", "search", "ranges", "returned"}
    /\ at = "search" => Searching
    /\ at = "ranges" => InRanges
    /\ TestExact

-----------------------------------------------------------------------------

\* Tags are finitely many (tag.h).
LEMMA TagsFinite == \A S \in SUBSET Tags : IsFiniteSet(S) /\ Cardinality(S) \in Nat
<1>1. IsFiniteSet(Tags)
  <2>1. 0 \in Int /\ 17 \in Int
    OBVIOUS
  <2> QED
    BY <2>1, FS_Interval DEF Tags
<1>2. ASSUME NEW S \in SUBSET Tags PROVE IsFiniteSet(S) /\ Cardinality(S) \in Nat
  <2>1. IsFiniteSet(S)
    BY <1>1, FS_Subset
  <2> QED
    BY <2>1, FS_CardinalityType
<1> QED
  BY <1>2

\* Different flags of a bit set have different numbers of flags below them, and
\* fewer than there are (__builtin_popcount(some & (flag - 1)) of balrt.h).
LEMMA PopcountIsPosition ==
    ASSUME NEW some \in SUBSET Tags, NEW tag \in some
    PROVE  /\ popcount(some, tag) \in 0 .. (Cardinality(some) - 1)
           /\ \A other \in some : popcount(some, other) = popcount(some, tag) => other = tag
<1> DEFINE Below(t) == {u \in some : u < t}
<1>1. some \subseteq Int /\ IsFiniteSet(some) /\ Cardinality(some) \in Nat
  BY TagsFinite DEF Tags
<1>2. ASSUME NEW t \in some PROVE IsFiniteSet(Below(t)) /\ Cardinality(Below(t)) \in Nat
  <2>1. Below(t) \in SUBSET some
    OBVIOUS
  <2> QED
    BY <2>1, <1>1, FS_Subset, FS_CardinalityType
<1>3. ASSUME NEW t \in some, NEW u \in some, t < u
      PROVE  Cardinality(Below(t)) < Cardinality(Below(u))
  <2>1. Below(t) \in SUBSET Below(u)
    <3>1. ASSUME NEW x \in some, x < t PROVE x < u
      BY <1>1, <1>3, <3>1
    <3> QED
      BY <3>1
  <2>2. t \in Below(u) /\ t \notin Below(t)
    BY <1>1, <1>3
  <2>3. Below(t) # Below(u)
    BY <2>2
  <2>4. IsFiniteSet(Below(u))
    BY <1>2
  <2> HIDE DEF Below
  <2>5. /\ Cardinality(Below(t)) <= Cardinality(Below(u))
        /\ Cardinality(Below(u)) = Cardinality(Below(t)) => Below(u) = Below(t)
    BY <2>1, <2>4, FS_Subset
  <2> QED
    BY <2>3, <2>5, <1>2
<1>4. Cardinality(Below(tag)) < Cardinality(some)
  <2>1. Below(tag) \in SUBSET some
    OBVIOUS
  <2>2. Below(tag) # some
    BY <1>1
  <2> HIDE DEF Below
  <2>3. /\ Cardinality(Below(tag)) <= Cardinality(some)
        /\ Cardinality(some) = Cardinality(Below(tag)) => some = Below(tag)
    BY <2>1, <1>1, FS_Subset
  <2> QED
    BY <2>2, <2>3, <1>1, <1>2
<1>5. \A other \in some : Cardinality(Below(other)) = Cardinality(Below(tag)) => other = tag
  <2> SUFFICES ASSUME NEW other \in some, Cardinality(Below(other)) = Cardinality(Below(tag)), other # tag
               PROVE FALSE
    OBVIOUS
  <2>1. other < tag \/ tag < other
    BY <1>1
  <2> HIDE DEF Below
  <2> QED
    BY <2>1, <1>3, <1>2
<1>6. \A t : popcount(some, t) = Cardinality(Below(t))
  BY DEF popcount
<1> HIDE DEF Below
<1> QED
  BY <1>1, <1>2, <1>4, <1>5, <1>6

\* The subtype that is found at run time is the one that the compiler put there for
\* the basic type (addComplexTypeDefn, complexTypeUniformSubtypeData).
LEMMA SubtypeFound ==
    ASSUME NEW t \in Types, NEW tag \in DOMAIN t.sub
    PROVE  addComplexTypeDefn(t).subtypes[popcount(DOMAIN t.sub, tag) + 1] = t.sub[tag]
<1> DEFINE some == DOMAIN t.sub
           At(i) == CHOOSE u \in some : popcount(some, u) = i - 1
<1>1. some \in SUBSET Tags
  BY TypesAssumption
<1> HIDE DEF some
<1>2. tag \in some
  BY DEF some
<1>3. Cardinality(some) \in Nat
  BY <1>1, TagsFinite
<1>4. PICK p \in 0 .. (Cardinality(some) - 1) : p = popcount(some, tag)
  BY <1>1, <1>2, PopcountIsPosition
<1>5. p + 1 \in 1 .. Cardinality(some) /\ (p + 1) - 1 = p
  BY <1>3, <1>4
<1>6. \A u \in some : popcount(some, u) = p => u = tag
  BY <1>1, <1>2, <1>4, PopcountIsPosition
<1>7. At(p + 1) = tag
  BY <1>2, <1>4, <1>5, <1>6
<1>8. addComplexTypeDefn(t).subtypes = [i \in 1 .. Cardinality(some) |-> t.sub[At(i)]]
  BY DEF addComplexTypeDefn, some
<1> HIDE DEF At
<1>9. addComplexTypeDefn(t).subtypes[p + 1] = t.sub[tag]
  BY <1>5, <1>7, <1>8
<1> QED
  BY <1>4, <1>9 DEF some

-----------------------------------------------------------------------------

\* Every test begins in a state of the invariant.
LEMMA TestInvInit == TestInit => TestInv
BY DEF TestInit, TestInv, TestExact

\* What is known of the subtype of a type.
LEMMA SubtypeFacts ==
    ASSUME NEW t \in Types, NEW tag \in DOMAIN t.sub
    PROVE  t.sub[tag] \in Subtype /\ WellFormed(t.sub[tag]) /\ t.sub[tag].kind \in KindOf(tag)
BY TypesAssumption

\* The subtype of the type is the one that the test looks into; the value is tested
\* there and then, or in a loop.
LEMMA CalledStep == TestInv /\ complexTypeContainsTagged => TestInv'
<1> SUFFICES ASSUME TestInv, complexTypeContainsTagged PROVE TestInv'
  OBVIOUS
<1> DEFINE tag == value.tag
           s == type.sub[tag]
           usd == complexTypeUniformSubtypeData(addComplexTypeDefn(type), tag)
<1>1. type' = type /\ value' = value /\ type \in Types /\ value \in Values
  BY DEF complexTypeContainsTagged, TestInv
<1>2. /\ usd.isPtr <=> tag \in DOMAIN type.sub /\ tag \notin type.all
      /\ usd.contains <=> tag \in type.all
      /\ tag \in DOMAIN type.sub => usd.ptr = s
  <2>1. addComplexTypeDefn(type).all = type.all /\ addComplexTypeDefn(type).some = DOMAIN type.sub
    BY DEF addComplexTypeDefn
  <2>2. tag \in DOMAIN type.sub
        => addComplexTypeDefn(type).subtypes[popcount(DOMAIN type.sub, tag) + 1] = s
    BY <1>1, SubtypeFound
  <2> QED
    BY <2>1, <2>2 DEF complexTypeUniformSubtypeData
<1>3. IF usd.isPtr THEN subtype' = usd.ptr /\ contains(usd.ptr)
                   ELSE subtype' = subtype /\ Return(usd.contains)
  BY DEF complexTypeContainsTagged
<1> HIDE DEF usd
<1>4. CASE ~ usd.isPtr
  <2>1. at' = "returned" /\ answer' = usd.contains
    BY <1>3, <1>4 DEF Return
  <2>2. IsMember(type, value) <=> tag \in type.all
    BY <1>2, <1>4 DEF IsMember
  <2> QED
    BY <1>1, <1>2, <2>1, <2>2 DEF TestInv, TestExact
<1>5. CASE usd.isPtr
  <2>1. /\ tag \in DOMAIN type.sub /\ tag \notin type.all
        /\ subtype' = s /\ contains(s)
    BY <1>2, <1>3, <1>5
  <2>2. s \in Subtype /\ WellFormed(s) /\ s.kind \in KindOf(tag)
    BY <1>1, <2>1, SubtypeFacts
  <2>3. Chosen'
    BY <1>1, <2>1 DEF Chosen
  <2>4. IsMember(type, value) <=> Belongs(s, value)
    BY <2>1 DEF IsMember
  <2>5. value.n \in Int /\ (tag = TAG_BOOLEAN => value.n \in {0, 1}) /\ (value.n = NaN => tag = TAG_FLOAT)
    BY <1>1, ValuesAssumption
  <2>6. (s.kind \in {"true", "false"} => tag = TAG_BOOLEAN) /\ (tag = TAG_FLOAT => s.kind = "float")
    BY <2>2 DEF KindOf, TAG_BOOLEAN, TAG_INT, TAG_FLOAT, TAG_DECIMAL, TAG_STRING
  <2> HIDE DEF s
  <2>7. PICK n \in Nat : n = Len(s.list) /\ DOMAIN s.list = 1 .. n
    BY <2>2 DEF Subtype
  <2>8. CASE s.kind \in {"true", "false"}
    <3>1. at' = "returned" /\ answer' = (value.n = IF s.kind = "true" THEN 1 ELSE 0)
      BY <2>1, <2>8 DEF contains, boolean_subtype_contains, Return
    <3>2. Belongs(s, value) <=> (value.n = IF s.kind = "true" THEN 1 ELSE 0)
      BY <2>5, <2>6, <2>8 DEF Belongs
    <3> QED
      BY <1>1, <2>4, <3>1, <3>2 DEF TestInv, TestExact
  <2>9. CASE s.kind = "int"
    <3>1. at' = "ranges" /\ start' = 0 /\ end' = Len(s.list) /\ answer' = answer
      BY <2>1, <2>9 DEF contains, Loop
    <3>2. Len(s.list) > 0
      BY <2>2, <2>9 DEF WellFormed
    <3>3. InRanges'
      BY <2>1, <2>3, <2>7, <2>9, <3>1, <3>2 DEF InRanges
    <3> QED
      BY <1>1, <3>1, <3>3 DEF TestInv, TestExact
  <2>10. CASE s.kind = "float"
    <3>1. Len(s.list) > 0 /\ 1 \in DOMAIN s.list
      BY <2>2, <2>7, <2>10 DEF WellFormed
    <3>2. \A i \in DOMAIN s.list : s.list[i] = NaN => i = 1
      BY <2>2, <2>10 DEF WellFormed
    <3>3. Included(s, value.n) <=> s.included
      BY <2>10 DEF Included
    <3>4. Belongs(s, value) <=> (InList(s, value.n) <=> s.included)
      BY <2>10, <3>3 DEF Belongs
    <3>5. float_subtype_contains(s)
      BY <2>1, <2>10 DEF contains
    <3>6. CASE value.n = NaN
      <4>1. InList(s, value.n) <=> s.list[1] = NaN
        BY <3>1, <3>2, <3>6 DEF InList
      <4>2. s.included \in BOOLEAN
        BY <2>2 DEF Subtype
      <4>3. at' = "returned" /\ answer' = IF s.list[1] = NaN THEN s.included ELSE ~ s.included
        BY <3>5, <3>6 DEF float_subtype_contains, Return
      <4> QED
        BY <1>1, <2>4, <3>4, <4>1, <4>2, <4>3 DEF TestInv, TestExact
    <3>7. CASE value.n # NaN
      <4>1. PICK k \in {0, 1} : k = IF s.list[1] = NaN THEN 1 ELSE 0
        OBVIOUS
      <4>2. at' = "search" /\ start' = k /\ end' = Len(s.list) /\ answer' = answer
        BY <2>1, <3>5, <3>7, <4>1 DEF float_subtype_contains, Loop
      <4>3. \A i \in DOMAIN s.list : i > k => s.list[i] # NaN
        BY <2>7, <3>2, <4>1
      <4>4. \A i \in DOMAIN s.list : s.list[i] = value.n => k < i /\ i <= Len(s.list)
        BY <2>7, <3>7, <4>1
      <4>5. Searching'
        BY <1>1, <2>1, <2>3, <2>7, <2>10, <3>7, <4>2, <4>3, <4>4 DEF Searching
      <4> QED
        BY <1>1, <4>2, <4>5 DEF TestInv, TestExact
    <3> QED
      BY <3>6, <3>7
  <2>11. CASE s.kind \notin {"true", "false", "int", "float"}
    <3>1. at' = "search" /\ start' = 0 /\ end' = Len(s.list) /\ answer' = answer
      BY <2>1, <2>11 DEF contains, Loop
    <3>2. \A i \in DOMAIN s.list : s.list[i] # NaN
      BY <2>2, <2>11 DEF WellFormed
    <3>3. value.n # NaN
      BY <2>5, <2>6, <2>11
    <3>4. Searching'
      BY <1>1, <2>1, <2>3, <2>7, <2>11, <3>1, <3>2, <3>3 DEF Searching
    <3> QED
      BY <1>1, <3>1, <3>4 DEF TestInv, TestExact
  <2> QED
    BY <2>8, <2>9, <2>10, <2>11
<1> QED
  BY <1>4, <1>5

\* The entry in the middle is in the list.
LEMMA MidInBounds ==
    ASSUME NEW n \in Nat, start \in Nat, end \in Nat, end <= n, start < end
    PROVE  mid \in Nat /\ start <= mid /\ mid < end /\ mid + 1 \in 1 .. n
BY DEF mid

\* One turn of the binary search narrows the part that can have the value, or ends
\* the search with the right answer.
LEMMA SearchStep == TestInv /\ Search => TestInv'
<1> SUFFICES ASSUME TestInv, Search PROVE TestInv'
  OBVIOUS
<1> DEFINE s == type.sub[value.tag]
<1>1. /\ type' = type /\ value' = value /\ subtype' = subtype
      /\ type \in Types /\ value \in Values /\ Searching /\ at = "search"
  BY DEF Search, TestInv
<1>2. /\ value.tag \in DOMAIN type.sub /\ value.tag \notin type.all
      /\ subtype = s
  BY <1>1 DEF Searching, Chosen
<1>3. s \in Subtype /\ WellFormed(s)
  BY <1>1, <1>2, SubtypeFacts
<1>4. value.n \in Int /\ NaN \in Int
  BY <1>1, ValuesAssumption
<1> HIDE DEF s
<1>5. PICK n \in Nat : n = Len(s.list) /\ DOMAIN s.list = 1 .. n
  BY <1>3 DEF Subtype
<1>6. \A i \in 1 .. n : s.list[i] \in Int
  BY <1>3, <1>5 DEF Subtype
<1>7. /\ s.kind \notin {"true", "false", "int"}
      /\ start \in Nat /\ end \in Nat /\ end <= n
      /\ value.n # NaN
      /\ \A i \in 1 .. n : i > start => s.list[i] # NaN
      /\ \A i \in 1 .. n : s.list[i] = value.n => start < i /\ i <= end
  BY <1>1, <1>2, <1>5 DEF Searching
<1>8. \A i, j \in 1 .. n : i < j /\ s.list[i] # NaN => s.list[i] < s.list[j]
  BY <1>3, <1>5, <1>7 DEF WellFormed
<1>9. IsMember(type, value) <=> (InList(s, value.n) <=> Included(s, value.n))
  BY <1>2, <1>7 DEF IsMember, Belongs, s
<1>10. ASSUME NEW inList, Found(inList), inList <=> InList(s, value.n) PROVE TestInv'
  <2>1. at' = "returned" /\ answer' = (inList <=> Included(s, value.n))
    BY <1>2, <1>10 DEF Found, Return
  <2> QED
    BY <1>1, <1>9, <1>10, <2>1 DEF TestInv, TestExact
<1>11. CASE start >= end
  <2>1. Found(FALSE)
    BY <1>11 DEF Search
  <2>2. ~ InList(s, value.n)
    BY <1>5, <1>7, <1>11 DEF InList
  <2> QED
    BY <1>10, <2>1, <2>2
<1>12. CASE ~ (start >= end)
  <2>1. PICK m \in Nat : m = mid /\ start <= m /\ m < end /\ m + 1 \in 1 .. n
    BY <1>7, <1>12, MidInBounds
  <2>2. IF Equal(value.n, s.list[m + 1]) THEN Found(TRUE)
        ELSE IF Less(value.n, s.list[m + 1])
             THEN end' = m /\ UNCHANGED <<start, at, answer>>
             ELSE start' = m + 1 /\ UNCHANGED <<end, at, answer>>
    BY <1>2, <1>12, <2>1 DEF Search
  <2>3. s.list[m + 1] # NaN /\ s.list[m + 1] \in Int
    BY <1>6, <1>7, <2>1
  <2>4. ASSUME start' \in Nat, end' \in Nat, end' <= n, start' >= start, at' = at, answer' = answer,
               \A i \in 1 .. n : s.list[i] = value.n => start' < i /\ i <= end'
        PROVE  TestInv'
    <3>1. \A i \in 1 .. n : i > start' => s.list[i] # NaN
      BY <1>7, <2>4
    <3>2. Searching'
      BY <1>1, <1>2, <1>5, <1>7, <2>4, <3>1 DEF Searching, Chosen
    <3> QED
      BY <1>1, <2>4, <3>2 DEF TestInv, TestExact
  <2>5. CASE Equal(value.n, s.list[m + 1])
    <3>1. InList(s, value.n)
      BY <1>5, <2>1, <2>5 DEF InList, Equal
    <3> QED
      BY <1>10, <2>2, <2>5, <3>1
  <2>6. CASE ~ Equal(value.n, s.list[m + 1]) /\ Less(value.n, s.list[m + 1])
    <3>1. end' = m /\ start' = start /\ at' = at /\ answer' = answer
      BY <2>2, <2>6
    <3>2. value.n < s.list[m + 1]
      BY <2>6 DEF Less
    <3>3. \A i \in 1 .. n : s.list[i] = value.n => i <= m
      <4> SUFFICES ASSUME NEW i \in 1 .. n, s.list[i] = value.n, i > m PROVE FALSE
        BY <2>1
      <4>1. CASE i = m + 1
        BY <4>1, <3>2, <1>4, <2>3
      <4>2. CASE i > m + 1
        BY <4>2, <1>4, <1>6, <1>8, <2>1, <2>3, <3>2
      <4> QED
        BY <4>1, <4>2, <2>1
    <3> QED
      BY <1>7, <2>1, <2>4, <3>1, <3>3
  <2>7. CASE ~ Equal(value.n, s.list[m + 1]) /\ ~ Less(value.n, s.list[m + 1])
    <3>1. end' = end /\ start' = m + 1 /\ at' = at /\ answer' = answer
      BY <2>2, <2>7
    <3>2. s.list[m + 1] < value.n
      BY <1>4, <1>7, <2>3, <2>7 DEF Less, Equal
    <3>3. \A i \in 1 .. n : s.list[i] = value.n => m + 1 < i
      <4> SUFFICES ASSUME NEW i \in 1 .. n, s.list[i] = value.n, i <= m + 1 PROVE FALSE
        BY <2>1
      <4>1. CASE i = m + 1
        BY <4>1, <3>2, <1>4
      <4>2. CASE i < m + 1
        BY <4>2, <1>4, <1>6, <1>7, <1>8, <2>1, <3>2
      <4> QED
        BY <4>1, <4>2, <2>1
    <3> QED
      BY <1>7, <2>1, <2>4, <3>1, <3>3
  <2> QED
    BY <2>5, <2>6, <2>7
<1> QED
  BY <1>11, <1>12

\* One turn of the loop over the ranges passes a range below the value, or ends with
\* the right answer: the ranges after one that reaches up to the value begin above it.
LEMMA RangesStep == TestInv /\ intRangeListContains => TestInv'
<1> SUFFICES ASSUME TestInv, intRangeListContains PROVE TestInv'
  OBVIOUS
<1> DEFINE s == type.sub[value.tag]
<1>1. /\ type' = type /\ value' = value /\ subtype' = subtype
      /\ type \in Types /\ value \in Values /\ InRanges /\ at = "ranges"
  BY DEF intRangeListContains, TestInv
<1>2. /\ value.tag \in DOMAIN type.sub /\ value.tag \notin type.all
      /\ subtype = s
  BY <1>1 DEF InRanges, Chosen
<1>3. s \in Subtype /\ WellFormed(s)
  BY <1>1, <1>2, SubtypeFacts
<1>4. value.n \in Int
  BY <1>1, ValuesAssumption
<1> HIDE DEF s
<1>5. PICK n \in Nat : n = Len(s.list) /\ DOMAIN s.list = 1 .. n
  BY <1>3 DEF Subtype
<1>6. s.kind = "int" /\ start \in Nat /\ end = n /\ start < n
      /\ \A i \in 1 .. start : s.maxs[i] < value.n
  BY <1>1, <1>2, <1>5 DEF InRanges
<1>7. Len(s.maxs) = n /\ \A i, j \in 1 .. n : i < j => s.maxs[i] < s.list[j]
  BY <1>3, <1>5, <1>6 DEF WellFormed
<1>8. \A i \in 1 .. n : s.list[i] \in Int /\ s.maxs[i] \in Int
  BY <1>3, <1>5, <1>7 DEF Subtype
<1>9. IsMember(type, value) <=> \E i \in 1 .. n : s.list[i] <= value.n /\ value.n <= s.maxs[i]
  BY <1>2, <1>5, <1>6 DEF IsMember, Belongs, s
<1>10. start + 1 \in 1 .. n
  BY <1>6
<1>11. ASSUME NEW result, Return(result), result <=> IsMember(type, value) PROVE TestInv'
  BY <1>1, <1>11 DEF Return, TestInv, TestExact
<1>12. CASE value.n <= s.maxs[start + 1]
  <2>1. Return(value.n >= s.list[start + 1])
    BY <1>2, <1>12 DEF intRangeListContains
  <2>2. value.n >= s.list[start + 1] => IsMember(type, value)
    BY <1>4, <1>8, <1>9, <1>10, <1>12
  <2>3. ASSUME NEW i \in 1 .. n, s.list[i] <= value.n, value.n <= s.maxs[i]
        PROVE  value.n >= s.list[start + 1]
    <3>1. i > start
      BY <2>3, <1>4, <1>6, <1>8
    <3>2. i # start + 1 => s.maxs[start + 1] < s.list[i]
      BY <3>1, <1>6, <1>7, <1>10
    <3> QED
      BY <2>3, <3>2, <1>4, <1>8, <1>10, <1>12
  <2> QED
    BY <1>9, <1>11, <2>1, <2>2, <2>3
<1>13. CASE ~ (value.n <= s.maxs[start + 1])
  <2>1. s.maxs[start + 1] < value.n
    BY <1>4, <1>8, <1>10, <1>13
  <2>2. \A i \in 1 .. (start + 1) : s.maxs[i] < value.n
    BY <1>6, <2>1
  <2>3. IF start + 1 = n THEN Return(FALSE)
        ELSE start' = start + 1 /\ UNCHANGED <<end, at, answer>>
    BY <1>2, <1>6, <1>13 DEF intRangeListContains
  <2>4. CASE start + 1 = n
    <3>1. ~ IsMember(type, value)
      BY <1>4, <1>8, <1>9, <2>2, <2>4
    <3> QED
      BY <1>11, <2>3, <2>4, <3>1
  <2>5. CASE start + 1 # n
    <3>1. start' = start + 1 /\ end' = end /\ at' = at /\ answer' = answer
      BY <2>3, <2>5
    <3>2. InRanges'
      BY <1>1, <1>2, <1>5, <1>6, <2>2, <2>5, <3>1 DEF InRanges, Chosen
    <3> QED
      BY <1>1, <3>1, <3>2 DEF TestInv, TestExact
  <2> QED
    BY <2>4, <2>5
<1> QED
  BY <1>12, <1>13

-----------------------------------------------------------------------------

\* The invariant holds throughout a test.
LEMMA TestInvariant == TestSpec => []TestInv
<1>1. TestInv /\ [TestNext]_testVars => TestInv'
  <2>1. CASE UNCHANGED testVars
    BY <2>1 DEF testVars, TestInv, TestExact, Searching, InRanges, Chosen
  <2> QED
    BY <2>1, CalledStep, SearchStep, RangesStep 
       DEF TestNext, tidListContains, stringListContains, floatListContains, decimalListContains
<1> QED
  BY <1>1, TestInvInit, PTL DEF TestSpec

\* For all types and values, the answer of a type test is whether the value belongs
\* to the type (complexTypeContainsTagged, the binary searches, the ranges of ints).
THEOREM TestDecides == TestSpec => []TestExact
<1>1. TestInv => TestExact
  BY DEF TestInv
<1> QED
  BY <1>1, TestInvariant, PTL

\* No loop of a type test reads outside the list of the subtype.
THEOREM TestReadsInBounds == TestSpec => []ReadsInBounds
<1>1. TestInv => ReadsInBounds
  <2> SUFFICES ASSUME TestInv PROVE ReadsInBounds
    OBVIOUS
  <2>1. ASSUME Chosen PROVE subtype \in Subtype
    BY <2>1, SubtypeFacts DEF Chosen, TestInv
  <2>2. CASE at = "search"
    <3>1. PICK n \in Nat : n = Len(subtype.list) /\ DOMAIN subtype.list = 1 .. n
      BY <2>1, <2>2 DEF TestInv, Searching, Subtype
    <3> QED
      BY <2>2, <3>1, MidInBounds DEF TestInv, Searching, ReadsInBounds
  <2>3. CASE at = "ranges"
    <3>1. PICK n \in Nat : n = Len(subtype.list) /\ DOMAIN subtype.list = 1 .. n
      BY <2>1, <2>3 DEF TestInv, InRanges, Subtype
    <3> QED
      BY <2>3, <3>1 DEF TestInv, InRanges, ReadsInBounds
  <2> QED
    BY <2>2, <2>3 DEF ReadsInBounds
<1> QED
  BY <1>1, TestInvariant, PTL
=============================================================================

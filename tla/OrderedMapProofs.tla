-------------------------- MODULE OrderedMapProofs --------------------------
(***************************************************************************)
(* Proofs about the members of a Mapping: the individual fields keep their *)
(* places, every member has the type of its name, and the mapping          *)
(* implements an OrderedMap.                                               *)
(***************************************************************************)
EXTENDS MappingProofs

\* Every constructor expression names every individual field.
ConstructorsComplete ==
    \A fs \in Constructors : \A j \in 1..NFields : \E i \in 1..Len(fs) : fs[i].key = FieldNames[j]

\* The individual fields are, or will be, at their descriptor positions.
PlacesInv ==
    \A j \in 1..NFields : /\ j <= length => fArray[j - 1].key = FieldNames[j]
                          /\ j > length => toInit[j - length].key = FieldNames[j]

\* The members, those still to be initialised included, have the types of their names.
TypedInv ==
    /\ MembersTyped
    /\ \A j \in 1..Len(toInit) : toInit[j].value \in MemberType(toInit[j].key)

\* The individual fields are governed by the types of the descriptor.
LEMMA FieldMemberType ==
    /\ NFields \in Nat
    /\ \A j \in 1..NFields : FieldNames[j] \in Required /\ MemberType(FieldNames[j]) = FieldTypes[j]
    /\ \A i, j \in 1..NFields : FieldNames[i] = FieldNames[j] => i = j
    /\ \A k : k \notin Required => MemberType(k) = RestType
<1>1. NFields \in Nat /\ \A i, j \in 1..NFields : FieldNames[i] = FieldNames[j] => i = j
  BY DescAssumption DEF NFields, IsInjective
<1>2. ASSUME NEW j \in 1..NFields
      PROVE  FieldNames[j] \in Required /\ MemberType(FieldNames[j]) = FieldTypes[j]
  <2>1. FieldNames[j] \in Required
    BY DEF Required
  <2>2. (CHOOSE i \in 1..NFields : FieldNames[i] = FieldNames[j]) = j
    BY <1>1
  <2> QED
    BY <2>1, <2>2 DEF MemberType
<1> QED
  BY <1>1, <1>2 DEF MemberType

\* A constructor of a closed record names every field: it has no others, no name twice,
\* and as many as the type.
LEMMA ClosedComplete == RestType = {} \/ NFields = 0 => ConstructorsComplete
<1>1. CASE NFields = 0
  BY <1>1 DEF ConstructorsComplete
<1>2. ASSUME RestType = {}, NEW fs \in Constructors, NEW j0 \in 1..NFields,
             \A i \in 1..Len(fs) : fs[i].key # FieldNames[j0]
      PROVE  FALSE
  <2>1. PICK n \in Nat : fs \in [1..n -> MapField]
    BY ShiftAssumption, ArrayLengthMaxAssumption DEF Constructors
  <2>2. n \in Nat /\ Len(fs) = n /\ NFields \in Nat
    BY <2>1, FieldMemberType
  <2>3. /\ \A i, j \in 1..n : fs[i].key = fs[j].key => i = j
        /\ \A i \in 1..n : fs[i].value \in MemberType(fs[i].key)
        /\ n >= NFields
    BY <2>2 DEF Constructors, AcceptedConstructor
  <2>4. \A i \in 1..n : \E j \in 1..NFields : FieldNames[j] = fs[i].key
    <3> SUFFICES ASSUME NEW i \in 1..n PROVE fs[i].key \in Required
      BY DEF Required
    <3> QED
      BY <1>2, <2>3, FieldMemberType
  <2> DEFINE g(i) == CHOOSE j \in 1..NFields : FieldNames[j] = fs[i].key
  <2>5. \A i \in 1..n : g(i) \in 1..NFields /\ FieldNames[g(i)] = fs[i].key
    BY <2>4
  <2> HIDE DEF g
  <2>6. \A i \in 1..n : g(i) # j0
    BY <1>2, <2>2, <2>5
  <2> DEFINE h == [x \in 0..(n - 1) |-> IF g(x + 1) < j0 THEN g(x + 1) - 1 ELSE g(x + 1) - 2]
  <2>7. \A x \in 0..(n - 1) : x + 1 \in 1..n
    BY <2>2
  <2>8. PICK q \in Nat : q = NFields - 1 /\ q < n
    BY <2>2, <2>3
  <2>9. h \in [0..(n - 1) -> 0..(q - 1)]
    <3> SUFFICES ASSUME NEW x \in 0..(n - 1) PROVE h[x] \in 0..(q - 1)
      OBVIOUS
    <3>1. PICK y \in 1..NFields : y = g(x + 1) /\ y # j0
      BY <2>5, <2>6, <2>7
    <3> QED
      BY <3>1, <2>2, <2>8
  <2>10. PICK x, y \in 0..(n - 1) : x # y /\ h[x] = h[y]
    <3> HIDE DEF h
    <3>1. q < n
      BY <2>8
    <3> QED
      BY <3>1, <2>9, IntervalPigeonHole, Zenon
  <2>11. g(x + 1) = g(y + 1)
    <3>1. PICK a \in 1..NFields : a = g(x + 1) /\ a # j0
      BY <2>5, <2>6, <2>7
    <3>2. PICK b \in 1..NFields : b = g(y + 1) /\ b # j0
      BY <2>5, <2>6, <2>7
    <3>3. /\ h[x] = IF a < j0 THEN a - 1 ELSE a - 2
          /\ h[y] = IF b < j0 THEN b - 1 ELSE b - 2
      BY <3>1, <3>2
    <3>4. h[x] = h[y]
      BY <2>10
    <3> HIDE DEF h
    <3>5. a = b
      BY <3>1, <3>2, <3>3, <3>4, <2>2
    <3> QED
      BY <3>1, <3>2, <3>5
  <2>12. x + 1 = y + 1
    BY <2>3, <2>5, <2>7, <2>11
  <2> QED
    BY <2>2, <2>10, <2>12
<1> QED
  BY <1>1, <1>2 DEF ConstructorsComplete

\* A strictly increasing sequence of positive numbers that takes all values up to m starts
\* with exactly these.
Increasing(S, n) == \A i, j \in 1..n : i < j => S[i] < S[j]
Covers(S, n, m) == \A v \in 1..m : \E i \in 1..n : S[i] = v

LEMMA IncreasingFromOne ==
    ASSUME NEW n \in Nat, NEW m \in Nat, NEW S \in [1..n -> Nat \ {0}],
           Increasing(S, n), Covers(S, n, m)
    PROVE  \A i \in 1..m : i <= n /\ S[i] = i
<1> DEFINE Bad == {i \in 1..m : ~ (i <= n /\ S[i] = i)}
<1> SUFFICES ASSUME Bad # {} PROVE FALSE
  OBVIOUS
<1>1. Bad \subseteq Nat
  OBVIOUS
<1>2. PICK i \in Bad : \A j \in Bad : i <= j
  <2> HIDE DEF Bad
  <2> QED
    BY <1>1, LeastNatural
<1>3. i \in 1..m /\ \A j \in 1..(i - 1) : j <= n /\ S[j] = j
  BY <1>2
<1>4. PICK c \in 1..n : S[c] = i
  BY <1>3 DEF Covers
<1>5. c >= i
  BY <1>3, <1>4
<1>6. i \in 1..n /\ S[i] # i
  BY <1>2, <1>3, <1>5
<1>7. S[i] < i
  BY <1>4, <1>5, <1>6 DEF Increasing
<1>8. CASE i = 1
  BY <1>6, <1>7, <1>8
<1>9. CASE i # 1
  <2>1. i - 1 \in 1..n /\ S[i - 1] = i - 1 /\ S[i - 1] < S[i]
    BY <1>3, <1>6, <1>9 DEF Increasing
  <2> QED
    BY <2>1, <1>3, <1>6, <1>7
<1> QED
  BY <1>8, <1>9

\* mappingOrderFields puts the individual fields first, in the order of the descriptor.
LEMMA OrderedPlaces ==
    ASSUME ConstructorsComplete, NEW fs \in Constructors,
           NEW p \in Bijection(1..Len(fs), 1..Len(fs)), Ordered(fs, p)
    PROVE  \A j \in 1..NFields : j <= Len(fs) /\ fs[p[j]].key = FieldNames[j]
<1>1. PICK n \in Nat : fs \in [1..n -> MapField]
  BY ShiftAssumption, ArrayLengthMaxAssumption DEF Constructors
<1>2. n \in Nat /\ Len(fs) = n /\ NFields \in Nat
  BY <1>1, FieldMemberType
<1>3. p \in [1..n -> 1..n] /\ \A i \in 1..n : \E c \in 1..n : p[c] = i
  BY <1>2 DEF Bijection, Injection, Surjection, IsInjective
<1>4. ASSUME NEW i \in 1..n
      PROVE  /\ SortIndex(fs, i) \in Nat \ {0}
             /\ SortIndex(fs, i) <= NFields => fs[i].key = FieldNames[SortIndex(fs, i)]
             /\ \A j \in 1..NFields : fs[i].key = FieldNames[j] => SortIndex(fs, i) = j
  <2>1. CASE fs[i].key \in Required
    <3>1. PICK j \in 1..NFields : FieldNames[j] = fs[i].key
      BY <2>1 DEF Required
    <3>2. SortIndex(fs, i) = j
      BY <2>1, <3>1, FieldMemberType DEF SortIndex
    <3> QED
      BY <3>1, <3>2, <1>2, FieldMemberType
  <2>2. CASE fs[i].key \notin Required
    <3>1. SortIndex(fs, i) = NFields + i
      BY <2>2 DEF SortIndex
    <3> QED
      BY <2>2, <3>1, <1>2, FieldMemberType
  <2> QED
    BY <2>1, <2>2
<1> DEFINE S == [i \in 1..n |-> SortIndex(fs, p[i])]
<1>5. S \in [1..n -> Nat \ {0}]
  BY <1>3, <1>4
<1>6. Increasing(S, n)
  BY <1>2 DEF Ordered, Increasing
<1>7. Covers(S, n, NFields)
  <2> SUFFICES ASSUME NEW v \in 1..NFields PROVE \E i \in 1..n : S[i] = v
    BY DEF Covers
  <2>1. PICK i \in 1..n : fs[i].key = FieldNames[v]
    BY <1>2 DEF ConstructorsComplete
  <2>2. PICK c \in 1..n : p[c] = i
    BY <1>3
  <2>3. S[c] = v
    BY <2>1, <2>2, <1>4
  <2> QED
    BY <2>3
<1> HIDE DEF S
<1>8. \A j \in 1..NFields : j <= n /\ S[j] = j
  BY <1>2, <1>5, <1>6, <1>7, IncreasingFromOne
<1>9. ASSUME NEW j \in 1..NFields PROVE j <= n /\ fs[p[j]].key = FieldNames[j]
  <2>1. j \in 1..n
    BY <1>2, <1>8
  <2>2. p[j] \in 1..n /\ SortIndex(fs, p[j]) = j
    BY <2>1, <1>3, <1>8 DEF S
  <2> QED
    BY <2>1, <2>2, <1>2, <1>4
<1> QED
  BY <1>2, <1>9

\* The constructor expression has the individual fields in their places, and every
\* member in the type of its name.
LEMMA MembersInit == ConstructorsComplete /\ Init => PlacesInv /\ TypedInv
<1> SUFFICES ASSUME ConstructorsComplete, NEW fs \in Constructors,
                    NEW p \in Bijection(1..Len(fs), 1..Len(fs)),
                    Ordered(fs, p), construct(fs, p)
             PROVE  PlacesInv /\ TypedInv
  BY DEF Init
<1>1. PICK n \in Nat : fs \in [1..n -> MapField]
  BY ShiftAssumption, ArrayLengthMaxAssumption DEF Constructors
<1>2. Len(fs) = n
  BY <1>1
<1>3. p \in [1..n -> 1..n]
  BY <1>2 DEF Bijection, Injection, Surjection
<1>4. length = 0 /\ toInit = [i \in 1..n |-> fs[p[i]]]
  BY <1>2 DEF construct
<1>5. Len(toInit) = n
  BY <1>4
<1>6. PlacesInv
  <2> SUFFICES ASSUME NEW j \in 1..NFields
               PROVE  j > 0 /\ toInit[j].key = FieldNames[j]
    <3>1. \A j \in 1..NFields : j > 0 /\ ~(j <= 0) /\ j - 0 = j
      BY FieldMemberType
    <3> QED
      BY <1>4, <3>1, Zenon DEF PlacesInv
  <2>1. j <= n /\ fs[p[j]].key = FieldNames[j] /\ j \in 1..n
    BY <1>2, OrderedPlaces, FieldMemberType
  <2> QED
    BY <2>1, <1>4
<1>7. \A i \in 1..n : fs[i].value \in MemberType(fs[i].key)
  BY <1>2 DEF Constructors, AcceptedConstructor
<1>8. TypedInv
  BY <1>3, <1>4, <1>5, <1>7 DEF TypedInv, MembersTyped
<1> QED
  BY <1>6, <1>8

\* What appending a field to the array does, in room that is there.
LEMMA PushResult ==
    ASSUME IInv, NEW k \in Keys, NEW v \in Values, NEW cap \in Nat, length < cap,
           mappingPush(k, v, cap)
    PROVE  /\ length \in Nat /\ length' = length + 1
           /\ fArray' = [i \in 0..length |-> IF i < length THEN fArray[i]
                                             ELSE [key |-> k, value |-> v]]
<1>1. length \in Nat
  BY DEF IInv, TableInv, Room
<1> QED
  BY <1>1 DEF mappingPush, Written, Appended

\* What init_member does to the array and to the fields still to be initialised.
LEMMA InitMemberResult ==
    ASSUME IInv, init_member
    PROVE  /\ toInit \in Seq(MapField) /\ toInit # <<>> /\ length \in Nat
           /\ toInit' = Tail(toInit) /\ length' = length + 1 /\ result' = result
           /\ fArray' = [i \in 0..length |-> IF i < length THEN fArray[i] ELSE toInit[1]]
           /\ toInit[1] \in MapField /\ Len(toInit') = Len(toInit) - 1
           /\ \A j \in 1..Len(toInit') : j + 1 \in 1..Len(toInit) /\ toInit'[j] = toInit[j + 1]
<1>1. /\ toInit \in Seq(MapField) /\ toInit # <<>> /\ length \in Nat /\ capacity \in Nat
      /\ toInit' = Tail(toInit) /\ result' = result
      /\ length + Len(toInit) <= capacity
  BY ArrayLengthMaxAssumption DEF IInv, CapacityInv, TableInv, Room, init_member
<1>2. /\ Head(toInit) = toInit[1] /\ toInit[1] \in MapField /\ Len(toInit) >= 1
      /\ Len(toInit') = Len(toInit) - 1
      /\ \A j \in 1..Len(toInit') : j + 1 \in 1..Len(toInit) /\ toInit'[j] = toInit[j + 1]
  BY <1>1
<1>3. /\ toInit[1].key \in Keys /\ toInit[1].value \in Values
      /\ toInit[1] = [key |-> toInit[1].key, value |-> toInit[1].value]
  BY <1>2 DEF MapField
<1>4. mappingPush(toInit[1].key, toInit[1].value, capacity)
  BY <1>2 DEF init_member
<1>5. length < capacity
  BY <1>1, <1>2
<1>6. /\ length' = length + 1
      /\ fArray' = [i \in 0..length |-> IF i < length THEN fArray[i]
                                        ELSE [key |-> toInit[1].key, value |-> toInit[1].value]]
  BY <1>1, <1>3, <1>4, <1>5, PushResult
<1> QED
  BY <1>1, <1>2, <1>3, <1>6

\* What AddField does, unless the array of fields cannot grow.
LEMMA AddFieldResult ==
    ASSUME IInv, Idle, NEW k \in Keys, NEW v \in Values, NEW r, AddField(k, v, r)
    PROVE  /\ length \in Nat /\ toInit' = toInit
           /\ \/ Returns("list too long")
              \/ /\ length' = length + 1 /\ result' = r
                 /\ fArray' = [i \in 0..length |-> IF i < length THEN fArray[i]
                                                   ELSE [key |-> k, value |-> v]]
<1>1. length \in Nat /\ capacity \in 0..ArrayLengthMax /\ capacity # 1 /\ length <= capacity
  BY DEF IInv, CapacityInv, TableInv, Room, Idle
<1>2. CASE length >= capacity /\ GrowPanics(capacity)
  BY <1>1, <1>2 DEF AddField, Returns
<1>3. CASE ~ (length >= capacity /\ GrowPanics(capacity))
  <2> DEFINE cap == IF length >= capacity THEN GrownCapacity(capacity, 0) ELSE capacity
  <2>1. length < cap /\ cap \in Nat
    BY <1>1, <1>3, GrownCapacityExceeds, ArrayLengthMaxAssumption
  <2>2. mappingPush(k, v, cap) /\ result' = r /\ toInit' = toInit
    BY <1>3 DEF AddField, mappingGrowPush
  <2> HIDE DEF cap
  <2> QED
    BY <2>1, <2>2, PushResult
<1> QED
  BY <1>2, <1>3

\* What lookup finds is a field named k, and it finds nothing only when there is none.
LEMMA LookupFinds ==
    ASSUME IInv, Idle, NEW k \in Keys
    PROVE  \/ /\ lookup(k) \in 0..(length - 1) /\ fArray[lookup(k)].key = k
              /\ \A i \in 0..(length - 1) : fArray[i].key = k => i = lookup(k)
           \/ /\ lookup(k) \in Int /\ lookup(k) < 0
              /\ \A i \in 0..(length - 1) : fArray[i].key # k
<1>1. TableInv /\ indexed = length /\ length \in Nat
  BY DEF IInv, Idle, TableInv, Room
<1>2. CASE \E i \in 0..(length - 1) : fArray[i].key = k
  BY <1>1, <1>2, LookupResult
<1>3. CASE \A i \in 0..(length - 1) : fArray[i].key # k
  <2>1. PICK d \in 0..TableIndexMax : lookup(k) = -Probe(k, d) - 1
    BY <1>1, <1>3, LookupResult
  <2>2. Probe(k, d) \in Nat
    BY <1>1, ProbeInTable DEF TableInv
  <2> QED
    BY <2>1, <2>2, <1>3
<1> QED
  BY <1>2, <1>3

\* The member type that mapping_set chooses by position is the one of the name.
LEMMA TypeByPosition ==
    ASSUME IInv, PlacesInv, Idle, NEW k \in Keys
    PROVE  (IF lookup(k) >= 0 /\ lookup(k) < NFields THEN FieldTypes[lookup(k) + 1] ELSE RestType)
             = MemberType(k)
<1>1. /\ indexed = length /\ length \in Nat /\ NFields \in Nat /\ length >= NFields
      /\ fArray \in [0..(length - 1) -> MapField]
  BY FieldMemberType DEF Idle, IInv, TableInv, Room, ResultInv
<1>2. \A j \in 1..NFields : fArray[j - 1].key = FieldNames[j]
  BY <1>1 DEF PlacesInv
<1>3. CASE k \in Required
  <2>1. PICK j \in 1..NFields : FieldNames[j] = k
    BY <1>3 DEF Required
  <2>2. j - 1 \in 0..(length - 1) /\ fArray[j - 1].key = k
    BY <2>1, <1>1, <1>2
  <2>3. lookup(k) = j - 1
    BY <2>2, <1>1, LookupResult DEF IInv
  <2> QED
    BY <2>1, <2>3, <1>1, FieldMemberType
<1>4. CASE k \notin Required
  <2>1. ASSUME lookup(k) >= 0, lookup(k) < NFields PROVE FALSE
    <3>1. PICK i \in 0..(length - 1) : i = lookup(k) /\ fArray[i].key = k
      BY <2>1, LookupFinds
    <3>2. i + 1 \in 1..NFields /\ (i + 1) - 1 = i
      BY <3>1, <2>1, <1>1
    <3>3. k = FieldNames[i + 1]
      BY <3>1, <3>2, <1>2
    <3> QED
      BY <3>2, <3>3, <1>4, FieldMemberType
  <2> QED
    BY <2>1, <1>4, FieldMemberType
<1> QED
  BY <1>3, <1>4

\* No step moves an individual field out of its place or stores a member that is not in
\* the type of its name.
LEMMA MembersStep == IInv /\ PlacesInv /\ TypedInv /\ [Next]_vars => PlacesInv' /\ TypedInv'
<1> SUFFICES ASSUME IInv, PlacesInv, TypedInv, [Next]_vars PROVE PlacesInv' /\ TypedInv'
  OBVIOUS
<1> DEFINE Good == PlacesInv' /\ TypedInv'
<1> SUFFICES Good
  OBVIOUS
<1> HIDE DEF Good
<1>1. /\ length \in Nat /\ NFields \in Nat /\ fArray \in [0..(length - 1) -> MapField]
      /\ toInit \in Seq(MapField) /\ length + Len(toInit) >= NFields
  BY FieldMemberType DEF IInv, TableInv, Room, ResultInv
<1>2. ASSUME fArray' = fArray, length' = length, toInit' = toInit PROVE Good
  <2>1. PlacesInv'
    BY <1>2 DEF PlacesInv
  <2>2. TypedInv'
    BY <1>2 DEF TypedInv, MembersTyped
  <2> QED
    BY <2>1, <2>2 DEF Good
<1>3. ASSUME NEW r, Returns(r) PROVE Good
  BY <1>2, <1>3 DEF Returns, arrayVars
<1>4. ASSUME NEW i \in 0..(length - 1), NEW v \in MemberType(fArray[i].key), SetValue(i, v)
      PROVE  Good
  <2>1. /\ fArray' = [fArray EXCEPT ![i] = [key |-> fArray[i].key, value |-> v]]
        /\ length' = length /\ toInit' = toInit
    BY <1>4 DEF SetValue
  <2>2. \A j \in 0..(length - 1) : /\ fArray'[j].key = fArray[j].key
                                   /\ fArray'[j].value = IF j = i THEN v ELSE fArray[j].value
    BY <2>1, <1>1
  <2>3. PlacesInv'
    <3> SUFFICES ASSUME NEW j \in 1..NFields
                 PROVE  /\ j <= length => fArray'[j - 1].key = FieldNames[j]
                        /\ j > length => toInit[j - length].key = FieldNames[j]
      BY <2>1 DEF PlacesInv
    <3>1. j <= length => j - 1 \in 0..(length - 1)
      BY <1>1
    <3> QED
      BY <3>1, <2>2 DEF PlacesInv
  <2>4. TypedInv'
    BY <2>1, <2>2, <1>4 DEF TypedInv, MembersTyped
  <2> QED
    BY <2>3, <2>4 DEF Good
<1>5. ASSUME NEW k \in Keys, NEW v \in MemberType(k), v \in Values, NEW r, Idle, AddField(k, v, r)
      PROVE  Good
  <2>1. CASE Returns("list too long")
    BY <2>1, <1>3
  <2>2. CASE /\ length' = length + 1 /\ toInit' = toInit
             /\ fArray' = [i \in 0..length |-> IF i < length THEN fArray[i]
                                               ELSE [key |-> k, value |-> v]]
    <3>1. toInit = <<>> /\ length >= NFields
      BY <1>1, <1>5 DEF Idle
    <3>2. /\ \A i \in 0..(length - 1) : fArray'[i] = fArray[i]
          /\ fArray'[length].key = k /\ fArray'[length].value = v
          /\ \A i \in 0..(length' - 1) : i \in 0..(length - 1) \/ i = length
      BY <2>2, <1>1
    <3>3. PlacesInv'
      <4> SUFFICES ASSUME NEW j \in 1..NFields
                   PROVE  /\ j <= length' => fArray'[j - 1].key = FieldNames[j]
                          /\ j > length' => toInit'[j - length'].key = FieldNames[j]
        BY DEF PlacesInv
      <4>1. j <= length /\ ~ (j > length') /\ j - 1 \in 0..(length - 1)
        BY <2>2, <3>1, <1>1
      <4> QED
        BY <4>1, <3>2 DEF PlacesInv
    <3>4. TypedInv'
      BY <2>2, <3>1, <3>2, <1>5 DEF TypedInv, MembersTyped
    <3> QED
      BY <3>3, <3>4 DEF Good
  <2> QED
    BY <2>1, <2>2, <1>5, AddFieldResult
<1>6. CASE init_member
  <2>1. /\ toInit # <<>> /\ length' = length + 1 /\ Len(toInit') = Len(toInit) - 1
        /\ fArray' = [i \in 0..length |-> IF i < length THEN fArray[i] ELSE toInit[1]]
        /\ \A j \in 1..Len(toInit') : j + 1 \in 1..Len(toInit) /\ toInit'[j] = toInit[j + 1]
    BY <1>6, InitMemberResult
  <2>2. Len(toInit) \in Nat /\ Len(toInit) >= 1
    BY <2>1, <1>1
  <2>3. /\ \A i \in 0..(length - 1) : fArray'[i] = fArray[i]
        /\ fArray'[length] = toInit[1]
        /\ \A i \in 0..(length' - 1) : i \in 0..(length - 1) \/ i = length
    BY <2>1, <1>1
  <2>4. PlacesInv'
    <3> SUFFICES ASSUME NEW j \in 1..NFields
                 PROVE  /\ j <= length' => fArray'[j - 1].key = FieldNames[j]
                        /\ j > length' => toInit'[j - length'].key = FieldNames[j]
      BY DEF PlacesInv
    <3>1. CASE j <= length
      <4>1. j - 1 \in 0..(length - 1) /\ j <= length' /\ ~ (j > length')
        BY <3>1, <2>1, <1>1
      <4> QED
        BY <4>1, <3>1, <2>3 DEF PlacesInv
    <3>2. CASE j = length + 1
      <4>1. j > length /\ j - length = 1 /\ j - 1 = length /\ ~ (j > length')
        BY <3>2, <2>1, <1>1
      <4> QED
        BY <4>1, <2>3 DEF PlacesInv
    <3>3. CASE j > length + 1
      <4>1. /\ j > length /\ ~ (j <= length') /\ j - length' \in 1..Len(toInit')
            /\ (j - length') + 1 = j - length
        BY <3>3, <2>1, <2>2, <1>1
      <4> QED
        BY <4>1, <2>1 DEF PlacesInv
    <3> QED
      BY <3>1, <3>2, <3>3, <1>1
  <2>5. TypedInv'
    <3>1. toInit[1].value \in MemberType(toInit[1].key)
      BY <2>2 DEF TypedInv
    <3> QED
      BY <3>1, <2>1, <2>3 DEF TypedInv, MembersTyped
  <2> QED
    BY <2>4, <2>5 DEF Good
<1>7. CASE Reindex
  <2>1. fArray' = fArray /\ length' = length /\ toInit' = toInit
    BY <1>7 DEF Reindex, arrayVars
  <2> QED
    BY <2>1, <1>2
<1>8. CASE Get \/ IndexedGet
  <2>1. PICK r : Returns(r)
    BY <1>8 DEF Get, mapping_get, IndexedGet, mapping_indexed_get
  <2> QED
    BY <2>1, <1>3
<1>9. ASSUME NEW k \in Keys, NEW v \in Values, mapping_set(k, v) PROVE Good
  <2>1. /\ Idle
        /\ IF v \notin MemberType(k) THEN Returns("mapping store")
           ELSE IF lookup(k) >= 0 THEN SetValue(lookup(k), v) ELSE AddField(k, v, "ok")
    BY <1>9, TypeByPosition DEF mapping_set
  <2>2. CASE v \notin MemberType(k)
    BY <2>1, <2>2, <1>3
  <2>3. CASE v \in MemberType(k) /\ lookup(k) >= 0
    <3>1. lookup(k) \in 0..(length - 1) /\ fArray[lookup(k)].key = k
      BY <2>1, <2>3, LookupFinds
    <3> QED
      BY <3>1, <2>1, <2>3, <1>4
  <2>4. CASE v \in MemberType(k) /\ ~ (lookup(k) >= 0)
    BY <2>1, <2>4, <1>5, <1>9
  <2> QED
    BY <2>2, <2>3, <2>4
<1>10. ASSUME NEW k \in Keys, mapping_filling_get(k) PROVE Good
  <2>1. CASE lookup(k) >= 0 \/ Filler = NoFiller
    BY <2>1, <1>3, <1>10 DEF mapping_filling_get
  <2>2. CASE ~ (lookup(k) >= 0) /\ Filler # NoFiller
    <3>1. Idle /\ AddField(k, Filler, Filler)
      BY <2>2, <1>10 DEF mapping_filling_get
    <3>2. MemberType(k) = RestType
      BY <3>1, <2>2, TypeByPosition
    <3>3. Filler \in MemberType(k) /\ Filler \in Values
      BY <3>2, <2>2, DescAssumption
    <3> QED
      BY <3>1, <3>3, <1>5
  <2> QED
    BY <2>1, <2>2
<1>11. ASSUME NEW i \in 0..(NFields - 1), NEW v \in Values, mapping_indexed_set(i, v) PROVE Good
  <2>1. CASE v \in FieldTypes[i + 1]
    <3>1. toInit = <<>> /\ SetValue(i, v)
      BY <2>1, <1>11 DEF mapping_indexed_set, Idle
    <3>2. i \in 0..(length - 1) /\ i + 1 \in 1..NFields /\ i + 1 <= length /\ (i + 1) - 1 = i
      BY <3>1, <1>1
    <3>3. fArray[i].key = FieldNames[i + 1]
      BY <3>2 DEF PlacesInv
    <3>4. v \in MemberType(fArray[i].key)
      BY <3>2, <3>3, <2>1, FieldMemberType
    <3> QED
      BY <3>1, <3>2, <3>4, <1>4
  <2>2. CASE v \notin FieldTypes[i + 1]
    BY <2>2, <1>3, <1>11 DEF mapping_indexed_set
  <2> QED
    BY <2>1, <2>2
<1>12. CASE UNCHANGED vars
  <2>1. fArray' = fArray /\ length' = length /\ toInit' = toInit
    BY <1>12 DEF vars
  <2> QED
    BY <2>1, <1>2
<1>13. CASE Set
  BY <1>9, <1>13 DEF Set
<1>14. CASE FillingGet
  BY <1>10, <1>14 DEF FillingGet
<1>15. CASE IndexedSet
  BY <1>11, <1>15 DEF IndexedSet
<1> QED
  BY <1>6, <1>7, <1>8, <1>12, <1>13, <1>14, <1>15 DEF Next

\* The members of a mapping, whenever its constructor expressions are complete.
LEMMA MembersInvariance ==
    1 \notin InitCounts /\ ConstructorsComplete => (Spec => [](IInv /\ PlacesInv /\ TypedInv))
<1> SUFFICES ASSUME 1 \notin InitCounts, ConstructorsComplete
             PROVE  Spec => [](IInv /\ PlacesInv /\ TypedInv)
  OBVIOUS
<1>1. Init => PlacesInv /\ TypedInv
  BY MembersInit
<1>2. Spec => []IInv
  BY Invariance
<1> QED
  BY <1>1, <1>2, MembersStep, PTL DEF Spec

\* The individual fields of the type are at the positions that nback and mapping_set
\* rely on, for every type and every constructor that names all of them, as all
\* constructors of closed records do (ClosedComplete).
THEOREM FieldsInPlace ==
    1 \notin InitCounts /\ ConstructorsComplete => (Spec => []RequiredInPlace)
<1>1. IInv /\ PlacesInv => RequiredInPlace
  <2> SUFFICES ASSUME IInv, PlacesInv, toInit = <<>>
               PROVE  /\ length >= NFields
                      /\ \A i \in 1..NFields : fArray[i - 1].key = FieldNames[i]
    BY DEF RequiredInPlace
  <2>1. length \in Nat /\ NFields \in Nat /\ length >= NFields
    BY FieldMemberType DEF IInv, TableInv, Room, ResultInv
  <2> QED
    BY <2>1 DEF PlacesInv
<1> QED
  BY <1>1, MembersInvariance, PTL

\* The mapping never holds a member outside the type its name has in the inherent type:
\* the check by position in mapping_set, the unchecked filler and the checks of the
\* constructor are enough.
THEOREM MembersAlwaysTyped ==
    1 \notin InitCounts /\ ConstructorsComplete => (Spec => []MembersTyped)
<1>1. TypedInv => MembersTyped
  BY DEF TypedInv
<1> QED
  BY <1>1, MembersInvariance, PTL

-----------------------------------------------------------------------------
(* The mapping implements a map with insertion order.                       *)

AbsFields == [i \in 1..length |-> fArray[i - 1]]

\* Appending to a sequence given as a function.
LEMMA AppendAsFunction ==
    ASSUME NEW S, NEW n \in Nat, NEW f \in [1..n -> S], NEW x \in S
    PROVE  Append(f, x) = [i \in 1..(n + 1) |-> IF i <= n THEN f[i] ELSE x]
<1> DEFINE g == [i \in 1..(n + 1) |-> IF i <= n THEN f[i] ELSE x]
<1>1. f \in Seq(S) /\ Len(f) = n
  OBVIOUS
<1>2. g \in [1..(n + 1) -> S]
  OBVIOUS
<1>3. /\ g \in Seq(S) /\ Len(g) = Len(f) + 1 /\ g[Len(f) + 1] = x
      /\ \A i \in 1..Len(f) : g[i] = f[i]
  BY <1>1, <1>2
<1> HIDE DEF g
<1>4. Append(f, x) = g
  BY <1>1, <1>3
<1> QED
  BY <1>4 DEF g

\* The abstract view of the fields and of the types.
LEMMA AbstractView ==
    ASSUME IInv, NEW k \in Keys
    PROVE  /\ AbsFields \in [1..length -> MapField] /\ Len(AbsFields) = length
           /\ \A i \in 0..(length - 1) : AbsFields[i + 1] = fArray[i]
           /\ Abstract!Present(k) <=> \E i \in 0..(length - 1) : fArray[i].key = k
           /\ \A i \in 0..(length - 1) : fArray[i].key = k => Abstract!PositionOf(k) = i + 1
           /\ Abstract!TypeOf(k) = MemberType(k)
<1>1. length \in Nat /\ fArray \in [0..(length - 1) -> MapField]
  BY DEF IInv, TableInv, Room
<1>2. /\ AbsFields \in [1..length -> MapField] /\ Len(AbsFields) = length
      /\ \A i \in 0..(length - 1) : AbsFields[i + 1] = fArray[i]
      /\ \A i \in 1..length : AbsFields[i] = fArray[i - 1] /\ i - 1 \in 0..(length - 1)
      /\ \A i \in 0..(length - 1) : i + 1 \in 1..length
  BY <1>1 DEF AbsFields
<1>3. Abstract!Present(k) <=> \E i \in 1..length : AbsFields[i].key = k
  BY <1>2 DEF Abstract!Present, AbsFields
<1>4. Abstract!Present(k) <=> \E i \in 0..(length - 1) : fArray[i].key = k
  BY <1>2, <1>3
<1>5. ASSUME NEW i \in 0..(length - 1), fArray[i].key = k PROVE Abstract!PositionOf(k) = i + 1
  <2>1. Abstract!PositionOf(k) = CHOOSE j \in 1..length : AbsFields[j].key = k
    BY <1>2 DEF Abstract!PositionOf, AbsFields
  <2>2. i + 1 \in 1..length /\ AbsFields[i + 1].key = k
    BY <1>2, <1>5
  <2>3. \A j \in 1..length : AbsFields[j].key = k => j = i + 1
    <3> SUFFICES ASSUME NEW j \in 1..length, AbsFields[j].key = k PROVE j = i + 1
      OBVIOUS
    <3>1. j - 1 \in 0..(length - 1) /\ fArray[j - 1].key = fArray[i].key
      BY <1>2, <1>5
    <3>2. j - 1 = i
      BY <3>1 DEF IInv, TableInv, KeysDistinct
    <3> QED
      BY <3>2
  <2> QED
    BY <2>1, <2>2, <2>3
<1>6. Abstract!TypeOf(k) = MemberType(k)
  BY DEF Abstract!TypeOf, MemberType, Required, NFields
<1> QED
  BY <1>2, <1>4, <1>5, <1>6

\* A step that only returns a result leaves the abstract fields alone.
LEMMA ReturnsAbstract ==
    ASSUME NEW r, Returns(r)
    PROVE  AbsFields' = AbsFields /\ result' = r
BY DEF Returns, arrayVars, AbsFields

\* Appending a field to the array is adding it to the abstract map.
LEMMA PushAbstract ==
    ASSUME IInv, NEW k \in Keys, NEW v \in Values, length' = length + 1,
           fArray' = [i \in 0..length |-> IF i < length THEN fArray[i] ELSE [key |-> k, value |-> v]]
    PROVE  Abstract!Add(k, v)
<1> DEFINE f == [key |-> k, value |-> v]
<1>1. length \in Nat /\ f \in MapField /\ AbsFields \in [1..length -> MapField]
  BY AbstractView DEF IInv, TableInv, Room, MapField
<1> HIDE DEF f
<1>2. Append(AbsFields, f) = [i \in 1..(length + 1) |-> IF i <= length THEN AbsFields[i] ELSE f]
  BY <1>1, AppendAsFunction
<1>3. AbsFields' = [i \in 1..(length + 1) |-> fArray'[i - 1]]
  BY DEF AbsFields
<1>4. ASSUME NEW i \in 1..(length + 1)
      PROVE  fArray'[i - 1] = IF i <= length THEN AbsFields[i] ELSE f
  <2>1. i - 1 \in 0..length /\ (i - 1 < length <=> i <= length)
    BY <1>1
  <2> QED
    BY <2>1 DEF AbsFields, f
<1>5. AbsFields' = Append(AbsFields, f)
  BY <1>2, <1>3, <1>4
<1> QED
  BY <1>5 DEF Abstract!Add, AbsFields, f

\* Overwriting a value in the array is overwriting it in the abstract map.
LEMMA SetAbstract ==
    ASSUME IInv, NEW i \in 0..(length - 1), NEW v \in Values, SetValue(i, v)
    PROVE  /\ AbsFields' = [AbsFields EXCEPT ![i + 1].value = v]
           /\ result' = "ok"
<1>1. /\ length \in Nat /\ fArray \in [0..(length - 1) -> MapField]
      /\ AbsFields \in [1..length -> MapField]
  BY DEF IInv, TableInv, Room, AbsFields
<1>2. /\ fArray' = [fArray EXCEPT ![i] = [key |-> fArray[i].key, value |-> v]]
      /\ length' = length /\ result' = "ok"
  BY DEF SetValue
<1>3. i + 1 \in 1..length /\ AbsFields[i + 1] = fArray[i] /\ fArray[i] \in MapField
  BY <1>1 DEF AbsFields
<1>4. [AbsFields[i + 1] EXCEPT !.value = v] = [key |-> fArray[i].key, value |-> v]
  BY <1>3 DEF MapField
<1>5. ASSUME NEW j \in 1..length
      PROVE  fArray'[j - 1] = IF j = i + 1 THEN [AbsFields[i + 1] EXCEPT !.value = v]
                              ELSE AbsFields[j]
  <2>1. j - 1 \in 0..(length - 1) /\ (j - 1 = i <=> j = i + 1)
    BY <1>1
  <2> QED
    BY <2>1, <1>1, <1>2, <1>4 DEF AbsFields
<1>6. AbsFields' = [j \in 1..length |-> fArray'[j - 1]]
  BY <1>2 DEF AbsFields
<1>7. [AbsFields EXCEPT ![i + 1].value = v]
        = [j \in 1..length |-> IF j = i + 1 THEN [AbsFields[i + 1] EXCEPT !.value = v]
                               ELSE AbsFields[j]]
  BY <1>1
<1> QED
  BY <1>2, <1>5, <1>6, <1>7

\* Every step of the mapping is one of the abstract map, or leaves that alone.
LEMMA StepAbstract ==
    ASSUME IInv, PlacesInv, TypedInv, [Next]_vars
    PROVE  Abstract!Next \/ (AbsFields' = AbsFields /\ result' = result)
<1> DEFINE Good == Abstract!Next \/ (AbsFields' = AbsFields /\ result' = result)
<1> SUFFICES Good
  OBVIOUS
<1> HIDE DEF Good
<1>1. /\ length \in Nat /\ NFields \in Nat /\ fArray \in [0..(length - 1) -> MapField]
  BY FieldMemberType DEF IInv, TableInv, Room
<1>2. \A k \in Keys : Abstract!Get(k) \/ Abstract!FillingGet(k) => Good
  BY DEF Abstract!Next, Good
<1>3. \A k \in Keys, v \in Values : Abstract!InitMember(k, v) \/ Abstract!Set(k, v) => Good
  BY DEF Abstract!Next, Good
<1>4. ASSUME NEW k \in Keys, NEW i \in 0..(length - 1), fArray[i].key = k, Returns(fArray[i].value)
      PROVE  Abstract!Present(k) /\ Abstract!Get(k)
  <2>1. Abstract!Present(k) /\ AbsFields[Abstract!PositionOf(k)] = fArray[i]
    BY <1>4, AbstractView
  <2> QED
    BY <2>1, <1>4, ReturnsAbstract DEF Abstract!Get, AbsFields
<1>5. CASE init_member
  <2>1. /\ toInit \in Seq(MapField) /\ toInit # <<>> /\ length' = length + 1 /\ result' = result
        /\ fArray' = [i \in 0..length |-> IF i < length THEN fArray[i] ELSE toInit[1]]
        /\ toInit[1] \in MapField
    BY <1>5, InitMemberResult
  <2>2. PICK k \in Keys, v \in Values : toInit[1] = [key |-> k, value |-> v]
    BY <2>1 DEF MapField
  <2>3. v \in MemberType(k) /\ \A i \in 0..(length - 1) : fArray[i].key # k
    <3>1. 1 \in 1..Len(toInit) /\ toInit[1].key = k /\ toInit[1].value = v
      BY <2>1, <2>2
    <3> QED
      BY <3>1 DEF TypedInv, IInv, TableInv, KeysDistinct
  <2>4. Abstract!Add(k, v)
    BY <2>1, <2>2, PushAbstract
  <2>5. Abstract!InitMember(k, v)
    BY <2>1, <2>2, <2>3, <2>4, AbstractView DEF Abstract!InitMember
  <2> QED
    BY <2>5, <1>3
<1>6. CASE Reindex
  BY <1>6 DEF Reindex, arrayVars, AbsFields, Good
<1>7. ASSUME NEW k \in Keys, mapping_get(k) PROVE Good
  <2>1. Idle /\ Returns(IF lookup(k) < 0 THEN "null" ELSE fArray[lookup(k)].value)
    BY <1>7 DEF mapping_get
  <2>2. CASE lookup(k) \in 0..(length - 1) /\ fArray[lookup(k)].key = k
    <3>1. Returns(fArray[lookup(k)].value)
      BY <2>1, <2>2
    <3> QED
      BY <3>1, <2>2, <1>2, <1>4
  <2>3. CASE lookup(k) < 0 /\ \A i \in 0..(length - 1) : fArray[i].key # k
    <3>1. AbsFields' = AbsFields /\ result' = "null" /\ ~ Abstract!Present(k)
      BY <2>1, <2>3, ReturnsAbstract, AbstractView
    <3>2. Abstract!Get(k)
      BY <3>1 DEF Abstract!Get, AbsFields
    <3> QED
      BY <3>2, <1>2
  <2> QED
    BY <2>1, <2>2, <2>3, LookupFinds
<1>8. ASSUME NEW k \in Keys, NEW v \in Values, mapping_set(k, v) PROVE Good
  <2>1. /\ Idle
        /\ IF v \notin MemberType(k) THEN Returns("mapping store")
           ELSE IF lookup(k) >= 0 THEN SetValue(lookup(k), v) ELSE AddField(k, v, "ok")
    BY <1>8, TypeByPosition DEF mapping_set
  <2>2. Abstract!TypeOf(k) = MemberType(k)
    BY AbstractView
  <2>3. CASE v \notin MemberType(k)
    <3>1. AbsFields' = AbsFields /\ result' = "mapping store"
      BY <2>1, <2>3, ReturnsAbstract
    <3>2. Abstract!Set(k, v)
      BY <3>1, <2>2, <2>3 DEF Abstract!Set, Abstract!Fails, AbsFields
    <3> QED
      BY <3>2, <1>3
  <2>4. CASE v \in MemberType(k) /\ lookup(k) >= 0
    <3>1. lookup(k) \in 0..(length - 1) /\ fArray[lookup(k)].key = k
      BY <2>1, <2>4, LookupFinds
    <3>2. /\ AbsFields' = [AbsFields EXCEPT ![lookup(k) + 1].value = v] /\ result' = "ok"
          /\ Abstract!Present(k) /\ Abstract!PositionOf(k) = lookup(k) + 1
      BY <3>1, <2>1, <2>4, SetAbstract, AbstractView
    <3>3. Abstract!Set(k, v)
      BY <3>2, <2>2, <2>4 DEF Abstract!Set, AbsFields
    <3> QED
      BY <3>3, <1>3
  <2>5. CASE v \in MemberType(k) /\ ~ (lookup(k) >= 0)
    <3>1. ~ Abstract!Present(k)
      <4>1. \A i \in 0..(length - 1) : fArray[i].key # k
        BY <2>1, <2>5, LookupFinds
      <4> QED
        BY <4>1, AbstractView
    <3>2. AddField(k, v, "ok")
      BY <2>1, <2>5
    <3>3. CASE Returns("list too long")
      BY <3>1, <3>3, <1>3, ReturnsAbstract DEF Abstract!Set, Abstract!Fails, AbsFields
    <3>4. CASE ~ Returns("list too long")
      <4>1. Abstract!Add(k, v) /\ result' = "ok"
        BY <3>2, <3>4, <2>1, AddFieldResult, PushAbstract
      <4>2. Abstract!Set(k, v)
        BY <4>1, <3>1, <2>2, <2>5 DEF Abstract!Set
      <4> QED
        BY <4>2, <1>3
    <3> QED
      BY <3>3, <3>4
  <2> QED
    BY <2>3, <2>4, <2>5
<1>9. ASSUME NEW k \in Keys, mapping_filling_get(k) PROVE Good
  <2>1. /\ Idle
        /\ IF lookup(k) >= 0 THEN Returns(fArray[lookup(k)].value)
           ELSE IF Filler = NoFiller THEN Returns("no filler") ELSE AddField(k, Filler, Filler)
    BY <1>9 DEF mapping_filling_get
  <2>2. CASE lookup(k) >= 0
    <3>1. lookup(k) \in 0..(length - 1) /\ fArray[lookup(k)].key = k
      BY <2>1, <2>2, LookupFinds
    <3>2. Abstract!Present(k) /\ Abstract!Get(k)
      BY <3>1, <2>1, <2>2, <1>4
    <3> QED
      BY <3>2, <1>2 DEF Abstract!FillingGet
  <2>3. CASE ~ (lookup(k) >= 0)
    <3>1. ~ Abstract!Present(k)
      <4>1. Idle
        BY <2>1
      <4>2. \A i \in 0..(length - 1) : fArray[i].key # k
        BY <4>1, <2>3, LookupFinds
      <4> QED
        BY <4>2, AbstractView
    <3>2. CASE Filler = NoFiller \/ Returns("list too long")
      <4>1. PICK r : Returns(r) /\ (r = "list too long" \/ (Filler = NoFiller /\ r = "no filler"))
        BY <3>2, <2>1, <2>3
      <4>2. AbsFields' = AbsFields /\ result' = r
        BY <4>1, ReturnsAbstract
      <4>3. Abstract!FillingGet(k)
        BY <4>1, <4>2, <3>1 DEF Abstract!FillingGet, Abstract!Fails, AbsFields
      <4> QED
        BY <4>3, <1>2
    <3>3. CASE Filler # NoFiller /\ ~ Returns("list too long")
      <4>1. AddField(k, Filler, Filler) /\ Filler \in Values
        BY <3>3, <2>1, <2>3, DescAssumption
      <4>2. Abstract!Add(k, Filler) /\ result' = Filler
        BY <4>1, <3>3, <2>1, AddFieldResult, PushAbstract
      <4>3. Abstract!FillingGet(k)
        BY <4>2, <3>1, <3>3 DEF Abstract!FillingGet
      <4> QED
        BY <4>3, <1>2
    <3> QED
      BY <3>2, <3>3
  <2> QED
    BY <2>2, <2>3
<1>10. ASSUME NEW i \in 0..(NFields - 1), Idle
       PROVE  /\ i \in 0..(length - 1) /\ i + 1 \in 1..NFields
              /\ fArray[i].key = FieldNames[i + 1] /\ FieldNames[i + 1] \in Keys
  <2>1. toInit = <<>> /\ length >= NFields
    BY <1>1, <1>10 DEF Idle, IInv, ResultInv
  <2>2. i \in 0..(length - 1) /\ i + 1 \in 1..NFields /\ i + 1 <= length /\ (i + 1) - 1 = i
    BY <2>1, <1>1
  <2>3. fArray[i].key = FieldNames[i + 1]
    BY <2>2 DEF PlacesInv
  <2> QED
    BY <2>2, <2>3, <1>1 DEF MapField
<1>11. ASSUME NEW i \in 0..(NFields - 1), mapping_indexed_get(i) PROVE Good
  BY <1>2, <1>4, <1>10, <1>11 DEF mapping_indexed_get
<1>12. ASSUME NEW i \in 0..(NFields - 1), NEW v \in Values, mapping_indexed_set(i, v) PROVE Good
  <2> DEFINE k == FieldNames[i + 1]
  <2>1. /\ Idle
        /\ IF v \in FieldTypes[i + 1] THEN SetValue(i, v) ELSE Returns("mapping store")
    BY <1>12 DEF mapping_indexed_set
  <2>2. i \in 0..(length - 1) /\ k \in Keys /\ fArray[i].key = k
    BY <2>1, <1>10
  <2>3. Abstract!TypeOf(k) = FieldTypes[i + 1]
    BY <2>1, <2>2, <1>10, AbstractView, FieldMemberType
  <2>4. Abstract!Present(k) /\ Abstract!PositionOf(k) = i + 1
    BY <2>2, AbstractView
  <2> HIDE DEF k
  <2>5. CASE v \in FieldTypes[i + 1]
    <3>1. AbsFields' = [AbsFields EXCEPT ![i + 1].value = v] /\ result' = "ok"
      BY <2>1, <2>2, <2>5, SetAbstract
    <3>2. Abstract!Set(k, v)
      BY <3>1, <2>3, <2>4, <2>5 DEF Abstract!Set, AbsFields
    <3> QED
      BY <3>2, <2>2, <1>3
  <2>6. CASE v \notin FieldTypes[i + 1]
    <3>1. AbsFields' = AbsFields /\ result' = "mapping store"
      BY <2>1, <2>6, ReturnsAbstract
    <3>2. Abstract!Set(k, v)
      BY <3>1, <2>3, <2>6 DEF Abstract!Set, Abstract!Fails, AbsFields
    <3> QED
      BY <3>2, <2>2, <1>3
  <2> QED
    BY <2>5, <2>6
<1>13. CASE UNCHANGED vars
  BY <1>13 DEF vars, AbsFields, Good
<1>14. CASE Get
  BY <1>7, <1>14 DEF Get
<1>15. CASE Set
  BY <1>8, <1>15 DEF Set
<1>16. CASE FillingGet
  BY <1>9, <1>16 DEF FillingGet
<1>17. CASE IndexedGet
  BY <1>11, <1>17 DEF IndexedGet
<1>18. CASE IndexedSet
  BY <1>12, <1>18 DEF IndexedSet
<1> QED
  BY <1>5, <1>6, <1>13, <1>14, <1>15, <1>16, <1>17, <1>18 DEF Next

\* The hash table, the growth of table and array and the positions of the fields cannot be
\* told from outside: every behaviour of the mapping is one of a map that keeps its fields
\* in insertion order and checks every store against the type of the name.
THEOREM MappingIsOrderedMap ==
    1 \notin InitCounts /\ ConstructorsComplete => (Spec => ImplementsOrderedMap)
<1> SUFFICES ASSUME 1 \notin InitCounts, ConstructorsComplete
             PROVE  Spec => ImplementsOrderedMap
  OBVIOUS
<1>1. Init => Abstract!Init
  BY DEF Init, construct, Abstract!Init
<1>2. IInv /\ PlacesInv /\ TypedInv /\ [Next]_vars
        => [Abstract!Next]_<<[i \in 1..length |-> fArray[i - 1]], result>>
  BY StepAbstract DEF AbsFields
<1>3. Spec => [](IInv /\ PlacesInv /\ TypedInv)
  BY MembersInvariance
<1> QED
  BY <1>1, <1>2, <1>3, PTL DEF Spec, ImplementsOrderedMap, Abstract!Spec
=============================================================================

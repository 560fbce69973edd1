--------------------------- MODULE MappingProofs ----------------------------
(* Proofs about the array of fields and the hash table of Mapping. *)
EXTENDS Mapping, FiniteSets, FiniteSetTheorems, WellFoundedInduction, TLAPS

(* Facts about natural numbers. *)

\* Every nonempty set of natural numbers has a least element.
LEMMA LeastNatural ==
    ASSUME NEW T, T \subseteq Nat, T # {}
    PROVE  \E x \in T : \A y \in T : x <= y
<1>1. PICK x \in T : \A y \in T : ~ (<<y, x>> \in OpToRel(<, Nat))
  BY NatLessThanWellFounded, WFMin
<1>2. \A y \in T : ~ (y < x)
  BY <1>1 DEF OpToRel
<1> QED
  BY <1>2

\* What a remainder is bounded by, and when it changes nothing.
LEMMA Remainder ==
    ASSUME NEW x \in Nat, NEW n \in Nat, n > 0
    PROVE  x % n \in 0..(n - 1) /\ (x < n => x % n = x)
BY SMT

\* A function from 0..(m-1) into a smaller interval takes some value twice.
LEMMA IntervalPigeonHole ==
    ASSUME NEW m \in Nat, NEW n \in Nat, n < m,
           NEW f \in [0..(m - 1) -> 0..(n - 1)]
    PROVE  \E x, y \in 0..(m - 1) : x # y /\ f[x] = f[y]
<1>1. /\ IsFiniteSet(0..(m - 1)) /\ Cardinality(0..(m - 1)) = m
      /\ IsFiniteSet(0..(n - 1)) /\ Cardinality(0..(n - 1)) = n
  BY FS_Interval
<1> QED
  BY <1>1, FS_PigeonHole

-----------------------------------------------------------------------------
(* The array of fields.                                                     *)

\* The members still to be initialised have room in the array, and its capacity is never 1.
CapacityInv ==
    /\ length \in Nat /\ capacity \in 0..ArrayLengthMax /\ toInit \in Seq(MapField)
    /\ length + Len(toInit) <= capacity
    /\ capacity # 1

\* _bal_array_grow enlarges every array that does not have exactly one element.
LEMMA GrownCapacityExceeds ==
    ASSUME NEW old \in 0..ArrayLengthMax, old # 1, ~ GrowPanics(old)
    PROVE  /\ GrownCapacity(old, 0) \in 0..ArrayLengthMax
           /\ GrownCapacity(old, 0) > old
           /\ GrownCapacity(old, 0) # 1
BY InitialCapacityAssumption, ArrayLengthMaxAssumption
   DEF GrowPanics, GrownCapacity, Extended, Larger

\* Construction allocates as many fields as it initialises.
LEMMA CapacityInit == 1 \notin InitCounts /\ Init => CapacityInv
<1> SUFFICES ASSUME 1 \notin InitCounts,
                    NEW fs \in Constructors, NEW p \in Bijection(1..Len(fs), 1..Len(fs)),
                    construct(fs, p)
             PROVE  CapacityInv
  BY DEF Init
<1>1. PICK n \in InitCounts : fs \in [1..n -> MapField]
  BY DEF Constructors
<1>2. n \in 0..ArrayLengthMax /\ n # 1 /\ Len(fs) = n
  BY <1>1, ShiftAssumption, ArrayLengthMaxAssumption
<1>3. p \in [1..n -> 1..n]
  BY <1>2 DEF Bijection, Injection, Surjection
<1>4. toInit \in [1..n -> MapField]
  BY <1>1, <1>2, <1>3 DEF construct
<1>5. toInit \in Seq(MapField) /\ Len(toInit) = n
  BY <1>2, <1>4
<1> QED
  BY <1>2, <1>5, ArrayLengthMaxAssumption DEF construct, CapacityInv

\* A step of any operation keeps the fields within the array.
LEMMA CapacityStep == CapacityInv /\ [Next]_vars => CapacityInv'
<1> SUFFICES ASSUME CapacityInv, [Next]_vars PROVE CapacityInv'
  OBVIOUS
<1> USE DEF CapacityInv
<1>1. CASE init_member
  <2>1. toInit # <<>> /\ toInit' = Tail(toInit) /\ length' = length + 1 /\ capacity' = capacity
    BY <1>1 DEF init_member, mappingPush
  <2>2. toInit' \in Seq(MapField) /\ Len(toInit') = Len(toInit) - 1
    BY <2>1
  <2> QED
    BY <2>1, <2>2
<1>2. CASE Reindex
  BY <1>2 DEF Reindex, arrayVars
<1>3. ASSUME NEW r, Returns(r) PROVE CapacityInv'
  BY <1>3 DEF Returns, arrayVars
<1>4. ASSUME NEW i, NEW v, SetValue(i, v) PROVE CapacityInv'
  BY <1>4 DEF SetValue
<1>5. ASSUME NEW k, NEW v, NEW r, Idle, AddField(k, v, r) PROVE CapacityInv'
  <2>1. CASE length >= capacity /\ GrowPanics(capacity)
    BY <2>1, <1>3, <1>5 DEF AddField
  <2>2. CASE ~ (length >= capacity /\ GrowPanics(capacity))
    <3>1. /\ mappingGrowPush(k, v, lookup(k)) /\ toInit' = toInit /\ toInit = <<>>
      BY <2>2, <1>5 DEF AddField, Idle
    <3>2. /\ length' = length + 1
          /\ capacity' = IF length >= capacity THEN GrownCapacity(capacity, 0) ELSE capacity
      BY <3>1 DEF mappingGrowPush, mappingPush
    <3>3. CASE length >= capacity
      <4>1. length = capacity
        BY <3>3, <3>1
      <4> QED
        BY <4>1, <3>1, <3>2, <2>2, GrownCapacityExceeds
    <3> QED
      BY <3>1, <3>2, <3>3
  <2> QED
    BY <2>1, <2>2
<1>6. CASE Get
  BY <1>6, <1>3 DEF Get, mapping_get
<1>7. CASE Set
  BY <1>7, <1>3, <1>4, <1>5 DEF Set, mapping_set
<1>8. CASE FillingGet
  BY <1>8, <1>3, <1>5 DEF FillingGet, mapping_filling_get
<1>9. CASE IndexedGet
  BY <1>9, <1>3 DEF IndexedGet, mapping_indexed_get
<1>10. CASE IndexedSet
  BY <1>10, <1>3, <1>4 DEF IndexedSet, mapping_indexed_set
<1>11. CASE UNCHANGED vars
  BY <1>11 DEF vars
<1> QED
  BY <1>1, <1>2, <1>6, <1>7, <1>8, <1>9, <1>10, <1>11 DEF Next

\* No field is ever written outside the array, provided no mapping is constructed with
\* exactly one field: for capacity 1 _bal_array_grow does not enlarge the array.
THEOREM CapacitySuffices == 1 \notin InitCounts => (Spec => []FieldsWithinCapacity)
<1>1. CapacityInv => FieldsWithinCapacity
  BY DEF CapacityInv, FieldsWithinCapacity
<1> QED
  BY <1>1, CapacityInit, CapacityStep, PTL DEF Spec

-----------------------------------------------------------------------------
(* The hash table.                                                          *)

\* The sizes of the table and of its elements.
TableShape ==
    /\ tableLengthShift \in 3..MaxAllocShift /\ tableElementShift \in 1..3
    /\ tableLengthShift - 1 <= ElementBits(tableElementShift)
    /\ table \in [0..TableIndexMax -> 0..EmptyMark(tableElementShift)]

\* At most all but one of half the slots will be in use.
Room ==
    /\ length \in Nat /\ indexed \in 0..length
    /\ fArray \in [0..(length - 1) -> MapField] /\ toInit \in Seq(MapField)
    /\ 2 * (length + Len(toInit)) <= 2^tableLengthShift - 2
    /\ toInit # <<>> => indexed = length

\* No two fields have the same key, counting those still to be initialised.
KeysDistinct ==
    /\ \A i, j \in 0..(length - 1) : fArray[i].key = fArray[j].key => i = j
    /\ \A i, j \in 1..Len(toInit) : toInit[i].key = toInit[j].key => i = j
    /\ \A i \in 0..(length - 1), j \in 1..Len(toInit) : fArray[i].key # toInit[j].key

\* The slots in use hold indexes of fields, each field at most once.
EntriesValid == \A s \in 0..TableIndexMax : Fetch(s) # -1 => Fetch(s) \in 0..(indexed - 1)
EntriesOnce ==
    \A s, t \in 0..TableIndexMax : Fetch(s) # -1 /\ Fetch(s) = Fetch(t) => s = t

\* Every field entered is on the probe path of its key, before any free slot.
FieldsReachable ==
    \A j \in 0..(indexed - 1) : \E d \in 0..TableIndexMax :
        /\ Fetch(Probe(fArray[j].key, d)) = j
        /\ \A e \in 0..(d - 1) : Fetch(Probe(fArray[j].key, e)) # -1

TableInv ==
    TableShape /\ Room /\ KeysDistinct /\ EntriesValid /\ EntriesOnce /\ FieldsReachable

\* The widths of the elements of a table.
LEMMA Widths ==
    /\ ElementBits(1) = 2 * UnitBits /\ ElementBits(2) = 4 * UnitBits
    /\ ElementBits(3) = 8 * UnitBits
<1>1. 2^0 = 1 /\ 2^(0 + 1) = 2 * 2^0 /\ 2^(1 + 1) = 2 * 2^1 /\ 2^(2 + 1) = 2 * 2^2
  BY PowerAssumption, ShiftAssumption
<1>2. 2^1 = 2 /\ 2^2 = 4 /\ 2^3 = 8
  BY <1>1
<1> QED
  BY <1>2, ShiftAssumption DEF ElementBits

\* The numbers of slots and of element values of a table of any allowed shape.
LEMMA Sizes ==
    ASSUME NEW ls \in 3..MaxAllocShift, NEW es \in 1..3
    PROVE  /\ 2^ls \in Nat \ {0} /\ 2^(ls - 1) \in Nat \ {0} /\ 2^ls = 2 * 2^(ls - 1)
           /\ 2^(ls + 1) = 2 * 2^ls
           /\ ElementBits(es) \in Nat /\ 2^ElementBits(es) \in Nat \ {0}
           /\ EmptyMark(es) \in Nat
           /\ ls - 1 <= ElementBits(es) => 2^(ls - 1) <= 2^ElementBits(es)
<1>1. ElementBits(es) \in 0..(8 * UnitBits)
  BY Widths, ShiftAssumption
<1>2. ls \in 0..(8 * UnitBits) /\ ls - 1 \in 0..(8 * UnitBits) /\ (ls - 1) + 1 = ls
  BY ShiftAssumption
<1> QED
  BY <1>1, <1>2, PowerAssumption DEF EmptyMark

\* Probing stays within the table and visits every slot.
LEMMA ProbeInTable ==
    ASSUME TableShape, NEW k \in Keys
    PROVE  /\ TableIndexMax \in Nat
           /\ \A d \in 0..TableIndexMax : Probe(k, d) \in 0..TableIndexMax
           /\ \A s \in 0..TableIndexMax : \E d \in 0..TableIndexMax : Probe(k, d) = s
<1>1. TableIndexMax \in Nat /\ TableIndexMax + 1 \in Nat \ {0}
  BY Sizes DEF TableShape, TableIndexMax
<1> DEFINE home == Hash[k] % (TableIndexMax + 1)
<1>2. home \in 0..TableIndexMax
  <2>1. Hash[k] \in Nat /\ TableIndexMax + 1 > 0
    BY <1>1, HashAssumption
  <2>2. home \in 0..((TableIndexMax + 1) - 1)
    BY <1>1, <2>1, Remainder
  <2> HIDE DEF home
  <2> QED
    BY <1>1, <2>2
<1> HIDE DEF home
<1>3. \A d : Probe(k, d) = IF d <= home THEN home - d ELSE home + TableIndexMax + 1 - d
  BY DEF Probe, home
<1>4. ASSUME NEW s \in 0..TableIndexMax
      PROVE  \E d \in 0..TableIndexMax : Probe(k, d) = s
  <2>1. CASE s <= home
    <3>1. home - s \in 0..TableIndexMax /\ Probe(k, home - s) = s
      BY <1>1, <1>2, <1>3, <2>1
    <3> QED
      BY <3>1
  <2>2. CASE s > home
    <3>1. home + TableIndexMax + 1 - s \in 0..TableIndexMax
          /\ Probe(k, home + TableIndexMax + 1 - s) = s
      BY <1>1, <1>2, <1>3, <2>2
    <3> QED
      BY <3>1
  <2> QED
    BY <2>1, <2>2, <1>1, <1>2
<1>5. \A d \in 0..TableIndexMax : Probe(k, d) \in 0..TableIndexMax
  BY <1>1, <1>2, <1>3
<1> QED
  BY <1>1, <1>4, <1>5

\* With fewer fields than slots, some slot is free.
LEMMA FreeSlot ==
    ASSUME TableShape, Room, EntriesValid, EntriesOnce
    PROVE  \E s \in 0..TableIndexMax : Fetch(s) = -1
<1> SUFFICES ASSUME \A s \in 0..TableIndexMax : Fetch(s) # -1
             PROVE  FALSE
  OBVIOUS
<1> DEFINE f == [s \in 0..TableIndexMax |-> Fetch(s)]
<1>1. 2^tableLengthShift \in Nat /\ indexed \in Nat /\ indexed < 2^tableLengthShift
      /\ 0..(2^tableLengthShift - 1) = 0..TableIndexMax
  BY Sizes DEF TableShape, Room, TableIndexMax
<1>2. f \in [0..(2^tableLengthShift - 1) -> 0..(indexed - 1)]
  BY <1>1 DEF EntriesValid
<1>3. PICK x, y \in 0..(2^tableLengthShift - 1) : x # y /\ f[x] = f[y]
  <2> HIDE DEF f
  <2> QED
    BY <1>1, <1>2, IntervalPigeonHole
<1> QED
  BY <1>1, <1>3 DEF EntriesOnce

\* lookup and lookupDistinct end, at a first free slot.
LEMMA FirstFree ==
    ASSUME TableShape, Room, EntriesValid, EntriesOnce, NEW k \in Keys
    PROVE  ProbingEnds(k) /\ \E d \in 0..TableIndexMax : StopsAtFree(k, d)
<1> DEFINE T == {d \in 0..TableIndexMax : Fetch(Probe(k, d)) = -1}
<1>1. T # {}
  BY FreeSlot, ProbeInTable
<1>2. T \subseteq Nat
  OBVIOUS
<1>3. PICK d \in T : \A y \in T : d <= y
  <2> HIDE DEF T
  <2> QED
    BY <1>1, <1>2, LeastNatural
<1>4. \A e \in 0..(d - 1) : e \in 0..TableIndexMax /\ e \notin T
  BY <1>3, ProbeInTable
<1> QED
  BY <1>1, <1>3, <1>4 DEF ProbingEnds, StopsAtFree

\* What lookup computes: it stops at some step of the probe path of k, and finds either
\* the field named k or the first free slot, in which case no field is named k.
LEMMA LookupResult ==
    ASSUME TableInv, indexed = length, NEW k \in Keys
    PROVE  /\ \A i \in 0..(length - 1) : fArray[i].key = k => lookup(k) = i
           /\ (\A i \in 0..(length - 1) : fArray[i].key # k) =>
                \E d \in 0..TableIndexMax : StopsAtFree(k, d) /\ lookup(k) = -Probe(k, d) - 1
<1> DEFINE stop(d) == Fetch(Probe(k, d)) = -1 \/ matches(k, Fetch(Probe(k, d)))
           T == {d \in 0..TableIndexMax : stop(d)}
<1>1. T # {} /\ T \subseteq Nat
  BY FirstFree DEF TableInv, StopsAtFree
<1>2. PICK d0 \in T : \A y \in T : d0 <= y
  <2> HIDE DEF T
  <2> QED
    BY <1>1, LeastNatural
<1>3. TableIndexMax \in Nat
  BY ProbeInTable DEF TableInv
<1>4. StopsAt(k, d0)
  <2>1. \A e \in 0..(d0 - 1) : e \in 0..TableIndexMax /\ e \notin T
    BY <1>2, <1>3
  <2> QED
    BY <1>2, <2>1 DEF StopsAt
<1>5. PICK d \in 0..TableIndexMax :
        StopsAt(k, d) /\ d = CHOOSE x \in 0..TableIndexMax : StopsAt(k, x)
  BY <1>2, <1>4
<1>6. Probe(k, d) \in 0..TableIndexMax
  BY ProbeInTable DEF TableInv
<1>7. lookup(k) = IF Fetch(Probe(k, d)) = -1 THEN -Probe(k, d) - 1 ELSE Fetch(Probe(k, d))
  BY <1>5 DEF lookup
<1>8. ASSUME NEW i \in 0..(length - 1), fArray[i].key = k
      PROVE  lookup(k) = i
  <2>1. PICK c \in 0..TableIndexMax :
          Fetch(Probe(k, c)) = i /\ \A e \in 0..(c - 1) : Fetch(Probe(k, e)) # -1
    BY <1>8 DEF TableInv, FieldsReachable
  <2>2. d <= c
    BY <2>1, <1>8, <1>5 DEF StopsAt, matches
  <2>3. Fetch(Probe(k, d)) # -1
    BY <2>1, <2>2
  <2>4. Fetch(Probe(k, d)) \in 0..(length - 1) /\ fArray[Fetch(Probe(k, d))].key = k
    BY <2>3, <1>5, <1>6 DEF StopsAt, matches, TableInv, EntriesValid
  <2>5. Fetch(Probe(k, d)) = i
    BY <2>4, <1>8 DEF TableInv, KeysDistinct
  <2> QED
    BY <2>3, <2>5, <1>7
<1>9. ASSUME \A i \in 0..(length - 1) : fArray[i].key # k
      PROVE  StopsAtFree(k, d) /\ lookup(k) = -Probe(k, d) - 1
  <2>1. Fetch(Probe(k, d)) = -1
    BY <1>9, <1>5, <1>6 DEF StopsAt, matches, TableInv, EntriesValid
  <2> QED
    BY <2>1, <1>5, <1>7 DEF StopsAt, StopsAtFree
<1> QED
  BY <1>8, <1>9

\* Entering one more field at the first free slot of its probe path keeps the table right.
LEMMA InsertStep ==
    ASSUME TableInv, NEW k \in Keys, NEW d \in 0..TableIndexMax, StopsAtFree(k, d),
           indexed < EmptyMark(tableElementShift),
           table' = Put(Probe(k, d), indexed), indexed' = indexed + 1,
           UNCHANGED <<tableLengthShift, tableElementShift>>,
           \A j \in 0..(indexed - 1) : fArray'[j].key = fArray[j].key,
           fArray'[indexed].key = k
    PROVE  TableShape' /\ EntriesValid' /\ EntriesOnce' /\ FieldsReachable'
<1> DEFINE s0 == Probe(k, d)
<1>1. /\ indexed \in Nat /\ EmptyMark(tableElementShift) \in Nat
      /\ 2^ElementBits(tableElementShift) = EmptyMark(tableElementShift) + 1
      /\ TableIndexMax \in Nat /\ s0 \in 0..TableIndexMax
  <2>1. tableLengthShift \in 3..MaxAllocShift /\ tableElementShift \in 1..3 /\ indexed \in Nat
    BY DEF TableInv, TableShape, Room
  <2>2. /\ EmptyMark(tableElementShift) \in Nat
        /\ 2^ElementBits(tableElementShift) = EmptyMark(tableElementShift) + 1
    BY <2>1, Sizes DEF EmptyMark
  <2>3. TableIndexMax \in Nat /\ s0 \in 0..TableIndexMax
    BY ProbeInTable DEF TableInv
  <2> QED
    BY <2>1, <2>2, <2>3
<1>2. indexed % 2^ElementBits(tableElementShift) = indexed
  BY <1>1, Remainder
<1>3. table' = [table EXCEPT ![s0] = indexed]
  BY <1>2 DEF Put
<1>4. TableIndexMax' = TableIndexMax /\ EmptyMark(tableElementShift') = EmptyMark(tableElementShift)
  BY DEF TableIndexMax
<1>6. \A s \in 0..TableIndexMax : Fetch(s)' = IF s = s0 THEN indexed ELSE Fetch(s)
  BY <1>1, <1>3, <1>4 DEF Fetch, TableInv, TableShape
<1>7. Fetch(s0) = -1 /\ \A e \in 0..(d - 1) : Fetch(Probe(k, e)) # -1
  BY DEF StopsAtFree
<1> HIDE DEF s0
<1>8. TableShape'
  BY <1>1, <1>3, <1>4 DEF TableInv, TableShape
<1>9. EntriesValid'
  BY <1>1, <1>4, <1>6 DEF TableInv, EntriesValid
<1>10. EntriesOnce'
  BY <1>1, <1>4, <1>6 DEF TableInv, EntriesValid, EntriesOnce
<1>11. FieldsReachable'
  <2> DEFINE K == [j \in 0..indexed |-> fArray'[j].key]
  <2>1. K[indexed] = k /\ \A j \in 0..(indexed - 1) : K[j] = fArray[j].key
    BY <1>1
  <2>2. \A j \in 0..indexed : K[j] \in Keys
    BY <2>1, <1>1 DEF TableInv, Room, MapField
  <2>3. \A j \in 0..indexed, e \in 0..TableIndexMax : Probe(K[j], e) \in 0..TableIndexMax
    BY <2>2, ProbeInTable DEF TableInv
  <2>4. ASSUME NEW j \in 0..indexed, NEW e
        PROVE  Fetch(Probe(fArray[j].key, e))'
                 = IF table'[Probe(K[j], e)] = EmptyMark(tableElementShift)
                   THEN -1 ELSE table'[Probe(K[j], e)]
    BY <1>4 DEF Fetch, Probe
  <2>5. ASSUME NEW j \in 0..indexed, NEW e \in 0..TableIndexMax
        PROVE  Fetch(Probe(fArray[j].key, e))'
                 = IF Probe(K[j], e) = s0 THEN indexed ELSE Fetch(Probe(K[j], e))
    <3> HIDE DEF K
    <3>1. PICK q \in 0..TableIndexMax : q = Probe(K[j], e)
      BY <2>3
    <3>2. table'[q] = IF q = s0 THEN indexed ELSE table[q]
      BY <3>1, <1>1, <1>3 DEF TableInv, TableShape
    <3>3. Fetch(Probe(fArray[j].key, e))'
            = IF table'[q] = EmptyMark(tableElementShift) THEN -1 ELSE table'[q]
      BY <3>1, <2>4
    <3> QED
      BY <3>1, <3>2, <3>3, <1>1 DEF Fetch
  <2> HIDE DEF K
  <2>6. ASSUME NEW j \in 0..indexed
        PROVE  \E c \in 0..TableIndexMax :
                  /\ Fetch(Probe(K[j], c)) = j \/ (j = indexed /\ Probe(K[j], c) = s0)
                  /\ \A e \in 0..(c - 1) : Fetch(Probe(K[j], e)) # -1
    <3>1. CASE j = indexed
      BY <3>1, <2>1, <1>7 DEF s0
    <3>2. CASE j # indexed
      BY <3>2, <2>1, <1>1 DEF TableInv, FieldsReachable
    <3> QED
      BY <3>1, <3>2
  <2>7. ASSUME NEW j \in 0..indexed
        PROVE  \E c \in 0..TableIndexMax :
                  /\ Fetch(Probe(fArray[j].key, c))' = j
                  /\ \A e \in 0..(c - 1) : Fetch(Probe(fArray[j].key, e))' # -1
    <3>1. PICK c \in 0..TableIndexMax :
                  /\ Fetch(Probe(K[j], c)) = j \/ (j = indexed /\ Probe(K[j], c) = s0)
                  /\ \A e \in 0..(c - 1) : Fetch(Probe(K[j], e)) # -1
      BY <2>6
    <3>2. Fetch(Probe(fArray[j].key, c))' = j
      BY <3>1, <2>5, <1>1, <1>7
    <3>3. \A e \in 0..(c - 1) : Fetch(Probe(fArray[j].key, e))' # -1
      <4>1. \A e \in 0..(c - 1) : e \in 0..TableIndexMax
        BY <1>1
      <4> QED
        BY <3>1, <2>5, <4>1, <1>1
    <3> QED
      BY <3>2, <3>3
  <2>8. 0..(indexed - 1)' = 0..indexed
    BY <1>1
  <2> QED
    BY <2>7, <2>8, <1>4 DEF FieldsReachable
<1> QED
  BY <1>8, <1>9, <1>10, <1>11
\* The table of a mapping under construction starts out empty and large enough.
LEMMA TableInit == Init => TableInv
<1> SUFFICES ASSUME NEW fs \in Constructors,
                    NEW p \in Bijection(1..Len(fs), 1..Len(fs)), construct(fs, p)
             PROVE  TableInv
  BY DEF Init
<1>1. PICK n \in InitCounts : fs \in [1..n -> MapField]
  BY DEF Constructors
<1>2. n \in Nat /\ Len(fs) = n
  BY <1>1, ShiftAssumption, ArrayLengthMaxAssumption
<1>3. p \in [1..n -> 1..n] /\ \A i, j \in 1..n : p[i] = p[j] => i = j
  BY <1>2 DEF Bijection, Injection, Surjection, IsInjective
<1>4. /\ toInit \in [1..n -> MapField] /\ toInit \in Seq(MapField) /\ Len(toInit) = n
      /\ \A i \in 1..n : toInit[i] = fs[p[i]]
  BY <1>1, <1>2, <1>3 DEF construct
<1>5. /\ length = 0 /\ indexed = 0 /\ fArray = <<>>
      /\ tableLengthShift \in 3..MaxAllocShift /\ tableElementShift \in 1..3
      /\ tableLengthShift - 1 <= ElementBits(tableElementShift)
      /\ n < 2^(tableLengthShift - 1)
      /\ table = EmptyTable(tableLengthShift, tableElementShift)
  BY <1>2, Widths, ShiftAssumption DEF construct, InitLengthShift, InitElementShift
<1>6. /\ 2^tableLengthShift \in Nat /\ 2^(tableLengthShift - 1) \in Nat
      /\ 2^tableLengthShift = 2 * 2^(tableLengthShift - 1)
      /\ EmptyMark(tableElementShift) \in Nat
  BY <1>5, Sizes
<1>7. TableShape /\ \A s \in 0..TableIndexMax : Fetch(s) = -1
  BY <1>5, <1>6 DEF TableShape, EmptyTable, TableIndexMax, Fetch
<1>8. Room
  BY <1>2, <1>4, <1>5, <1>6 DEF Room
<1>9. KeysDistinct
  <2>1. \A i, j \in 1..n : fs[i].key = fs[j].key => i = j
    BY <1>2 DEF Constructors, AcceptedConstructor
  <2>2. ASSUME NEW i \in 1..n, NEW j \in 1..n, toInit[i].key = toInit[j].key
        PROVE  i = j
    <3>1. p[i] \in 1..n /\ p[j] \in 1..n /\ fs[p[i]].key = fs[p[j]].key
      BY <2>2, <1>3, <1>4
    <3> QED
      BY <3>1, <2>1, <1>3
  <2> QED
    BY <2>2, <1>4, <1>5 DEF KeysDistinct
<1> QED
  BY <1>5, <1>7, <1>8, <1>9 DEF TableInv, EntriesValid, EntriesOnce, FieldsReachable

\* What depends on the table and the keys survives any change of the values alone.
LEMMA SameKeys ==
    ASSUME TableInv, UNCHANGED <<length, tableVars, toInit>>,
           fArray' \in [0..(length - 1) -> MapField],
           \A j \in 0..(length - 1) : fArray'[j].key = fArray[j].key
    PROVE  TableInv'
<1> USE DEF tableVars
<1>1. TableIndexMax' = TableIndexMax /\ TableShape' /\ Room' /\ KeysDistinct'
  BY DEF TableInv, TableShape, Room, KeysDistinct, TableIndexMax
<1>2. \A s : Fetch(s)' = Fetch(s)
  BY DEF Fetch
<1>3. EntriesValid' /\ EntriesOnce'
  BY <1>1, <1>2 DEF TableInv, EntriesValid, EntriesOnce
<1>4. ASSUME NEW j \in 0..(indexed - 1), NEW e
      PROVE  Fetch(Probe(fArray[j].key, e))' = Fetch(Probe(fArray[j].key, e))
  <2>1. fArray'[j].key = fArray[j].key
    BY DEF TableInv, Room
  <2> QED
    BY <1>1, <2>1 DEF Fetch, Probe
<1>5. FieldsReachable'
  <2> SUFFICES ASSUME NEW j \in 0..(indexed - 1)
               PROVE  \E d \in 0..TableIndexMax :
                        /\ Fetch(Probe(fArray[j].key, d))' = j
                        /\ \A e \in 0..(d - 1) : Fetch(Probe(fArray[j].key, e))' # -1
    BY <1>1 DEF FieldsReachable
  <2>1. PICK d \in 0..TableIndexMax :
               /\ Fetch(Probe(fArray[j].key, d)) = j
               /\ \A e \in 0..(d - 1) : Fetch(Probe(fArray[j].key, e)) # -1
    BY DEF TableInv, FieldsReachable
  <2> QED
    BY <2>1, <1>4
<1> QED
  BY <1>1, <1>3, <1>5 DEF TableInv

\* As long as there is room, an index can be told from the empty mark.
LEMMA IndexBelowMark ==
    ASSUME TableShape, NEW n \in Nat, 2 * (n + 1) <= 2^tableLengthShift - 2
    PROVE  n < EmptyMark(tableElementShift)
<1>1. /\ 2^tableLengthShift \in Nat /\ 2^(tableLengthShift - 1) \in Nat
      /\ 2^tableLengthShift = 2 * 2^(tableLengthShift - 1)
      /\ 2^ElementBits(tableElementShift) \in Nat
      /\ 2^(tableLengthShift - 1) <= 2^ElementBits(tableElementShift)
  BY Sizes DEF TableShape
<1> QED
  BY <1>1 DEF EmptyMark

\* The slot that lookupDistinct returns.
LEMMA LookupDistinctResult ==
    ASSUME TableInv, NEW k \in Keys
    PROVE  \E d \in 0..TableIndexMax :
             StopsAtFree(k, d) /\ -(lookupDistinct(k) + 1) = Probe(k, d)
<1>1. PICK d \in 0..TableIndexMax :
        StopsAtFree(k, d) /\ d = CHOOSE x \in 0..TableIndexMax : StopsAtFree(k, x)
  BY FirstFree DEF TableInv
<1>2. Probe(k, d) \in Nat
  BY ProbeInTable DEF TableInv
<1>3. lookupDistinct(k) = -Probe(k, d) - 1
  BY <1>1 DEF lookupDistinct
<1>4. -(lookupDistinct(k) + 1) = Probe(k, d)
  BY <1>2, <1>3
<1> QED
  BY <1>1, <1>4

\* init_member keeps the table right.
LEMMA InitMemberStep == TableInv /\ CapacityInv /\ init_member => TableInv'
<1> SUFFICES ASSUME TableInv, CapacityInv, init_member PROVE TableInv'
  OBVIOUS
<1> DEFINE f == Head(toInit)
<1>1. /\ toInit \in Seq(MapField) /\ toInit # <<>> /\ f \in MapField /\ f = toInit[1]
      /\ toInit' = Tail(toInit) /\ Len(toInit) >= 1 /\ Len(toInit') = Len(toInit) - 1
      /\ toInit' \in Seq(MapField) /\ \A j \in 1..(Len(toInit) - 1) : toInit'[j] = toInit[j + 1]
  BY DEF init_member, TableInv, Room
<1>2. /\ length' = length + 1 /\ indexed' = indexed + 1 /\ indexed = length /\ length \in Nat
      /\ UNCHANGED <<tableLengthShift, tableElementShift>>
  BY <1>1 DEF init_member, mappingPush, TableInv, Room
<1>3. length < capacity
  BY <1>1, <1>2 DEF CapacityInv
<1>4. fArray' = [i \in 0..length |-> IF i < length THEN fArray[i] ELSE f]
  <2>1. PICK g \in Written(capacity, f.key, f.value) : fArray' = Appended(g)
    BY DEF init_member, mappingPush
  <2>2. g = f
    BY <2>1, <1>1, <1>3 DEF Written, MapField
  <2> QED
    BY <2>1, <2>2 DEF Appended
<1> HIDE DEF f
<1>5. f.key \in Keys
  BY <1>1 DEF MapField
<1>6. PICK d \in 0..TableIndexMax :
        StopsAtFree(f.key, d) /\ -(lookupDistinct(f.key) + 1) = Probe(f.key, d)
  BY <1>5, LookupDistinctResult
<1>7. table' = Put(Probe(f.key, d), indexed)
  BY <1>2, <1>6 DEF init_member, insert, f
<1>8. indexed < EmptyMark(tableElementShift)
  <2>1. 2^tableLengthShift \in Nat /\ 2 * (length + 1) <= 2^tableLengthShift - 2
    BY <1>1, <1>2, Sizes DEF TableInv, Room, TableShape
  <2> QED
    BY <2>1, <1>2, IndexBelowMark DEF TableInv
<1>9. /\ \A j \in 0..(indexed - 1) : fArray'[j].key = fArray[j].key
      /\ fArray'[indexed].key = f.key
  BY <1>2, <1>4
<1>10. TableShape' /\ EntriesValid' /\ EntriesOnce' /\ FieldsReachable'
  BY <1>2, <1>5, <1>6, <1>7, <1>8, <1>9, InsertStep
<1>11. Room'
  <2>1. fArray' \in [0..(length' - 1) -> MapField]
    BY <1>1, <1>2, <1>4 DEF TableInv, Room
  <2>2. 2^tableLengthShift \in Nat
    BY Sizes DEF TableInv, TableShape
  <2> QED
    BY <1>1, <1>2, <2>1, <2>2 DEF TableInv, Room
<1>12. KeysDistinct'
  <2>1. \A i, j \in 0..length : fArray'[i].key = fArray'[j].key => i = j
    BY <1>1, <1>2, <1>4 DEF TableInv, KeysDistinct, Room
  <2>2. \A i, j \in 1..Len(toInit') : toInit'[i].key = toInit'[j].key => i = j
    BY <1>1 DEF TableInv, KeysDistinct
  <2>3. \A i \in 0..length, j \in 1..Len(toInit') : fArray'[i].key # toInit'[j].key
    BY <1>1, <1>2, <1>4 DEF TableInv, KeysDistinct
  <2>4. 0..(length' - 1) = 0..length
    BY <1>2
  <2> QED
    BY <2>1, <2>2, <2>3, <2>4 DEF KeysDistinct
<1> QED
  BY <1>10, <1>11, <1>12 DEF TableInv

\* So does every iteration of the loop of mappingGrow.
LEMMA ReindexStep == TableInv /\ Reindex => TableInv'
<1> SUFFICES ASSUME TableInv, Reindex PROVE TableInv'
  OBVIOUS
<1> DEFINE k == fArray[indexed].key
<1>1. /\ length \in Nat /\ indexed \in 0..(length - 1) /\ k \in Keys
      /\ indexed' = indexed + 1 /\ toInit = <<>>
      /\ UNCHANGED <<arrayVars, tableLengthShift, tableElementShift, toInit>>
  BY DEF TableInv, Room, Reindex, MapField
<1> HIDE DEF k
<1>2. PICK d \in 0..TableIndexMax :
        StopsAtFree(k, d) /\ -(lookupDistinct(k) + 1) = Probe(k, d)
  BY <1>1, LookupDistinctResult
<1>3. table' = Put(Probe(k, d), indexed)
  BY <1>2 DEF Reindex, insert, k
<1>4. indexed < EmptyMark(tableElementShift)
  <2>1. 2^tableLengthShift \in Nat /\ 2 * (indexed + 1) <= 2^tableLengthShift - 2
    BY <1>1, Sizes DEF TableInv, Room, TableShape
  <2> QED
    BY <2>1, <1>1, IndexBelowMark DEF TableInv
<1>5. /\ \A j \in 0..(indexed - 1) : fArray'[j].key = fArray[j].key
      /\ fArray'[indexed].key = k
  BY <1>1 DEF arrayVars, k
<1>6. TableShape' /\ EntriesValid' /\ EntriesOnce' /\ FieldsReachable'
  BY <1>1, <1>2, <1>3, <1>4, <1>5, InsertStep
<1>7. Room' /\ KeysDistinct'
  BY <1>1 DEF TableInv, Room, KeysDistinct, arrayVars
<1> QED
  BY <1>6, <1>7 DEF TableInv
\* An operation that only returns a value leaves the table right.
LEMMA ReturnsStep == \A r : TableInv /\ Returns(r) => TableInv'
<1> SUFFICES ASSUME NEW r, TableInv, Returns(r) PROVE TableInv'
  OBVIOUS
<1>1. fArray' = fArray /\ UNCHANGED <<length, tableVars, toInit>>
  BY DEF Returns, arrayVars
<1>2. fArray' \in [0..(length - 1) -> MapField]
  BY <1>1 DEF TableInv, Room
<1> QED
  BY <1>1, <1>2, SameKeys

\* So does storing a new value in an existing field.
LEMMA SetValueStep == \A i : \A v \in Values : TableInv /\ SetValue(i, v) => TableInv'
<1> SUFFICES ASSUME NEW i, NEW v \in Values, TableInv, SetValue(i, v) PROVE TableInv'
  OBVIOUS
<1>1. /\ fArray' = [fArray EXCEPT ![i] = [key |-> fArray[i].key, value |-> v]]
      /\ fArray \in [0..(length - 1) -> MapField]
      /\ UNCHANGED <<length, tableVars, toInit>>
  BY DEF SetValue, TableInv, Room
<1>2. \A j \in 0..(length - 1) : fArray'[j] \in MapField /\ fArray'[j].key = fArray[j].key
  BY <1>1 DEF MapField
<1>3. fArray' \in [0..(length - 1) -> MapField]
  BY <1>1, <1>2
<1> QED
  BY <1>1, <1>2, <1>3, SameKeys

\* The table after growth has the shape its new size needs, and room for the fields.
LEMMA GrownShape ==
    ASSUME TableInv, growTable, TableFull(length + 1), toInit = <<>>
    PROVE  /\ TableShape' /\ \A s \in 0..TableIndexMax' : Fetch(s)' = -1
           /\ 2 * (length + 1) <= 2^tableLengthShift' - 2
<1>1. /\ tableLengthShift \in 3..MaxAllocShift /\ tableElementShift \in 1..3
      /\ tableLengthShift - 1 <= ElementBits(tableElementShift)
      /\ length \in Nat /\ 2 * length <= 2^tableLengthShift - 2
  BY DEF TableInv, TableShape, Room
<1>2. /\ tableLengthShift' = tableLengthShift + 1
      /\ tableElementShift' = GrownElementShift
      /\ tableLengthShift' + tableElementShift' <= MaxAllocShift
      /\ table' = EmptyTable(tableLengthShift', tableElementShift')
  BY DEF growTable
<1>3. UnitBits \in Nat \ {0} /\ MaxAllocShift \in Nat /\ MaxAllocShift < 8 * UnitBits
  BY ShiftAssumption
<1>4. tableElementShift' \in 1..3 /\ tableLengthShift <= ElementBits(tableElementShift')
  <2>1. CASE tableElementShift = 1
    BY <2>1, <1>1, <1>2, <1>3, Widths DEF GrownElementShift
  <2>2. CASE tableElementShift = 2
    BY <2>2, <1>1, <1>2, <1>3, Widths DEF GrownElementShift
  <2>3. CASE tableElementShift = 3
    BY <2>3, <1>1, <1>2, <1>3, Widths DEF GrownElementShift
  <2> QED
    BY <1>1, <2>1, <2>2, <2>3
<1>5. tableLengthShift' \in 3..MaxAllocShift
  BY <1>1, <1>2, <1>3, <1>4
<1>6. 2^tableLengthShift' \in Nat /\ EmptyMark(tableElementShift') \in Nat
      /\ 2^tableLengthShift' = 2 * 2^tableLengthShift
  BY <1>1, <1>2, <1>4, <1>5, Sizes
<1>7. TableShape'
  BY <1>1, <1>2, <1>4, <1>5, <1>6 DEF TableShape, EmptyTable, TableIndexMax
<1>8. \A s \in 0..TableIndexMax' : Fetch(s)' = -1
  BY <1>2 DEF EmptyTable, TableIndexMax, Fetch
<1>9. 2 * (length + 1) <= 2^tableLengthShift' - 2
  <2>1. /\ 2^tableLengthShift \in Nat /\ 2^(tableLengthShift - 1) \in Nat \ {0}
        /\ 2^tableLengthShift = 2 * 2^(tableLengthShift - 1)
    BY <1>1, Sizes
  <2> QED
    BY <2>1, <1>1, <1>6
<1> QED
  BY <1>7, <1>8, <1>9

\* Adding a field keeps the table right, whether or not the table has to grow.
LEMMA AddFieldStep ==
    ASSUME TableInv, CapacityInv, Idle, NEW k \in Keys, NEW v \in Values, NEW r,
           \A i \in 0..(length - 1) : fArray[i].key # k, AddField(k, v, r)
    PROVE  TableInv'
<1>1. CASE length >= capacity /\ GrowPanics(capacity)
  BY <1>1, ReturnsStep DEF AddField
<1>2. CASE ~ (length >= capacity /\ GrowPanics(capacity))
  <2> DEFINE f == [key |-> k, value |-> v]
             cap == IF length >= capacity THEN GrownCapacity(capacity, 0) ELSE capacity
  <2>1. /\ mappingGrowPush(k, v, lookup(k)) /\ toInit' = toInit /\ toInit = <<>>
        /\ indexed = length /\ length \in Nat
    BY <1>2 DEF AddField, Idle, TableInv, Room
  <2>2. length < cap
    BY <1>2, GrownCapacityExceeds DEF CapacityInv
  <2>3. mappingPush(k, v, cap)
    BY <2>1 DEF mappingGrowPush
  <2> HIDE DEF cap
  <2>4. length' = length + 1 /\ fArray' = [i \in 0..length |-> IF i < length THEN fArray[i] ELSE f]
    BY <2>2, <2>3 DEF mappingPush, Written, Appended
  <2>5. f \in MapField /\ f.key = k
    BY DEF MapField
  <2> HIDE DEF f
  <2>6. /\ fArray' \in [0..(length' - 1) -> MapField]
        /\ \A j \in 0..(length - 1) : fArray'[j].key = fArray[j].key
        /\ fArray'[length].key = k
    BY <2>1, <2>4, <2>5 DEF TableInv, Room
  <2>7. KeysDistinct'
    <3>1. \A i, j \in 0..length : fArray'[i].key = fArray'[j].key => i = j
      BY <2>1, <2>6 DEF TableInv, KeysDistinct
    <3> QED
      BY <3>1, <2>1, <2>4 DEF KeysDistinct
  <2>8. CASE TableFull(length + 1)
    <3>1. growTable
      BY <2>1, <2>8 DEF mappingGrowPush
    <3>2. /\ TableShape' /\ \A s \in 0..TableIndexMax' : Fetch(s)' = -1
          /\ 2 * (length + 1) <= 2^tableLengthShift' - 2 /\ indexed' = 0
      BY <3>1, <2>1, <2>8, GrownShape DEF growTable
    <3>3. Room'
      BY <3>2, <2>1, <2>4, <2>6 DEF Room
    <3>4. EntriesValid' /\ EntriesOnce' /\ FieldsReachable'
      BY <3>2 DEF EntriesValid, EntriesOnce, FieldsReachable
    <3> QED
      BY <3>2, <3>3, <3>4, <2>7 DEF TableInv
  <2>9. CASE ~ TableFull(length + 1)
    <3>1. /\ insert(lookup(k), length) /\ indexed' = indexed + 1
          /\ UNCHANGED <<tableLengthShift, tableElementShift>>
      BY <2>1, <2>9 DEF mappingGrowPush
    <3>2. PICK d \in 0..TableIndexMax : StopsAtFree(k, d) /\ lookup(k) = -Probe(k, d) - 1
      BY <2>1, LookupResult
    <3>3. Probe(k, d) \in Nat
      BY ProbeInTable DEF TableInv
    <3>4. -(lookup(k) + 1) = Probe(k, d)
      BY <3>2, <3>3
    <3>5. table' = Put(Probe(k, d), indexed)
      BY <3>1, <3>4, <2>1 DEF insert
    <3>6. 2 * (length + 1) <= 2^tableLengthShift - 2
      <4>1. /\ 2^tableLengthShift \in Nat /\ 2^(tableLengthShift - 1) \in Nat
            /\ 2^tableLengthShift = 2 * 2^(tableLengthShift - 1)
        BY Sizes DEF TableInv, TableShape
      <4> QED
        BY <4>1, <2>1, <2>9 DEF TableFull
    <3>7. indexed < EmptyMark(tableElementShift)
      BY <3>6, <2>1, IndexBelowMark DEF TableInv
    <3>8. TableShape' /\ EntriesValid' /\ EntriesOnce' /\ FieldsReachable'
      BY <3>1, <3>2, <3>5, <3>7, <2>1, <2>6, InsertStep
    <3>9. Room'
      BY <3>1, <3>6, <2>1, <2>4, <2>6 DEF Room
    <3> QED
      BY <3>8, <3>9, <2>7 DEF TableInv
  <2> QED
    BY <2>8, <2>9
<1> QED
  BY <1>1, <1>2
-----------------------------------------------------------------------------
(* The theorems.                                                            *)

\* The individual fields of the type are, or will be, there; the last result has its type.
ResultInv ==
    /\ length + Len(toInit) >= NFields
    /\ result \in Results

IInv == CapacityInv /\ TableInv /\ ResultInv

\* A key that lookup does not find is not the key of a field.
LEMMA NotFound ==
    ASSUME TableInv, Idle, NEW k \in Keys
    PROVE  /\ lookup(k) < 0 => \A i \in 0..(length - 1) : fArray[i].key # k
           /\ lookup(k) >= 0 => lookup(k) \in 0..(length - 1)
<1>1. indexed = length /\ length \in Nat
  BY DEF Idle, TableInv, Room
<1>2. ASSUME lookup(k) < 0, NEW i \in 0..(length - 1), fArray[i].key = k PROVE FALSE
  BY <1>1, <1>2, LookupResult
<1>3. ASSUME lookup(k) >= 0 PROVE lookup(k) \in 0..(length - 1)
  <2>1. CASE \E i \in 0..(length - 1) : fArray[i].key = k
    BY <2>1, <1>1, LookupResult
  <2>2. CASE \A i \in 0..(length - 1) : fArray[i].key # k
    <3>1. PICK d \in 0..TableIndexMax : lookup(k) = -Probe(k, d) - 1
      BY <2>2, <1>1, LookupResult
    <3>2. Probe(k, d) \in Nat
      BY ProbeInTable DEF TableInv
    <3> QED
      BY <3>1, <3>2, <1>3
  <2> QED
    BY <2>1, <2>2
<1> QED
  BY <1>2, <1>3

\* Every step of the runtime keeps the table right.
LEMMA TableStep == CapacityInv /\ TableInv /\ [Next]_vars => TableInv'
<1> SUFFICES ASSUME CapacityInv, TableInv, [Next]_vars PROVE TableInv'
  OBVIOUS
<1>1. CASE init_member
  BY <1>1, InitMemberStep
<1>2. CASE Reindex
  BY <1>2, ReindexStep
<1>3. CASE Get
  BY <1>3, ReturnsStep DEF Get, mapping_get
<1>4. ASSUME NEW k \in Keys, NEW v \in Values, mapping_set(k, v) PROVE TableInv'
  <2> DEFINE i == lookup(k)
             mt == IF i >= 0 /\ i < NFields THEN FieldTypes[i + 1] ELSE RestType
  <2>1. /\ Idle
        /\ IF v \notin mt THEN Returns("mapping store")
           ELSE IF i >= 0 THEN SetValue(i, v) ELSE AddField(k, v, "ok")
    BY <1>4 DEF mapping_set
  <2> HIDE DEF mt
  <2>2. CASE v \notin mt
    BY <2>1, <2>2, ReturnsStep
  <2>3. CASE v \in mt /\ i >= 0
    BY <2>1, <2>3, SetValueStep
  <2>4. CASE v \in mt /\ ~ (i >= 0)
    <3>2. \A j \in 0..(length - 1) : fArray[j].key # k
      <4> SUFFICES ASSUME NEW j \in 0..(length - 1), fArray[j].key = k PROVE FALSE
        OBVIOUS
      <4>1. i = j
        BY <2>1, LookupResult DEF Idle
      <4> HIDE DEF i
      <4> QED
        BY <4>1, <2>4
    <3> QED
      BY <2>1, <2>4, <3>2, AddFieldStep
  <2> QED
    BY <2>2, <2>3, <2>4
<1>5. ASSUME NEW k \in Keys, mapping_filling_get(k) PROVE TableInv'
  <2> DEFINE i == lookup(k)
  <2>1. /\ Idle
        /\ IF i >= 0 THEN Returns(fArray[i].value)
           ELSE IF Filler = NoFiller THEN Returns("no filler") ELSE AddField(k, Filler, Filler)
    BY <1>5 DEF mapping_filling_get
  <2>2. CASE i >= 0 \/ Filler = NoFiller
    BY <2>1, <2>2, ReturnsStep
  <2>3. CASE ~ (i >= 0) /\ Filler # NoFiller
    <3>1. Filler \in Values
      BY <2>3, DescAssumption
    <3>2. \A j \in 0..(length - 1) : fArray[j].key # k
      <4> SUFFICES ASSUME NEW j \in 0..(length - 1), fArray[j].key = k PROVE FALSE
        OBVIOUS
      <4>1. i = j
        BY <2>1, LookupResult DEF Idle
      <4> HIDE DEF i
      <4> QED
        BY <4>1, <2>3
    <3> QED
      BY <2>1, <2>3, <3>1, <3>2, AddFieldStep
  <2> QED
    BY <2>2, <2>3
<1>6. CASE IndexedGet
  BY <1>6, ReturnsStep DEF IndexedGet, mapping_indexed_get
<1>7. CASE IndexedSet
  BY <1>7, ReturnsStep, SetValueStep DEF IndexedSet, mapping_indexed_set
<1>8. CASE UNCHANGED vars
  <2>1. fArray' = fArray /\ UNCHANGED <<length, tableVars, toInit>>
    BY <1>8 DEF vars, tableVars
  <2>2. fArray' \in [0..(length - 1) -> MapField]
    BY <2>1 DEF TableInv, Room
  <2> QED
    BY <2>1, <2>2, SameKeys
<1>9. CASE Set
  BY <1>4, <1>9 DEF Set
<1>10. CASE FillingGet
  BY <1>5, <1>10 DEF FillingGet
<1> QED
  BY <1>1, <1>2, <1>3, <1>6, <1>7, <1>8, <1>9, <1>10 DEF Next
\* The constructor expression has at least the individual fields.
LEMMA ResultInit == Init => ResultInv
<1> SUFFICES ASSUME NEW fs \in Constructors,
                    NEW p \in Bijection(1..Len(fs), 1..Len(fs)), construct(fs, p)
             PROVE  ResultInv
  BY DEF Init
<1>1. PICK n \in InitCounts : fs \in [1..n -> MapField]
  BY DEF Constructors
<1>2. n \in Nat /\ Len(fs) = n /\ Len(fs) >= NFields
  BY <1>1, ShiftAssumption, ArrayLengthMaxAssumption DEF Constructors, AcceptedConstructor
<1>3. toInit = [i \in 1..n |-> fs[p[i]]] /\ length = 0 /\ result = "ok"
  BY <1>2 DEF construct
<1>4. Len(toInit) = n /\ NFields \in Nat
  BY <1>2, <1>3, DescAssumption DEF NFields
<1> QED
  BY <1>2, <1>3, <1>4 DEF ResultInv, Results

\* Operations return members or one of the codes.
LEMMA ResultStep == IInv /\ [Next]_vars => ResultInv'
<1> SUFFICES ASSUME IInv, [Next]_vars PROVE ResultInv'
  OBVIOUS
<1>1. /\ length \in Nat /\ toInit \in Seq(MapField) /\ NFields \in Nat /\ Len(toInit) \in Nat
      /\ fArray \in [0..(length - 1) -> MapField]
      /\ length + Len(toInit) >= NFields /\ result \in Results
  <2>1. NFields \in Nat
    BY DescAssumption DEF NFields
  <2> QED
    BY <2>1 DEF IInv, TableInv, Room, ResultInv
<1>2. \A j \in 0..(length - 1) : fArray[j].value \in Results
  BY <1>1 DEF MapField, Results
<1>3. /\ "ok" \in Results /\ "null" \in Results /\ "mapping store" \in Results
      /\ "no filler" \in Results /\ "list too long" \in Results /\ Values \subseteq Results
  BY DEF Results
<1>4. ASSUME NEW r \in Results, Returns(r) PROVE ResultInv'
  <2>1. result' = r /\ length' = length /\ toInit' = toInit
    BY <1>4 DEF Returns, arrayVars
  <2> QED
    BY <2>1, <1>1, <1>4 DEF ResultInv
<1>5. ASSUME NEW j, NEW v, SetValue(j, v) PROVE ResultInv'
  BY <1>1, <1>3, <1>5 DEF SetValue, ResultInv
<1>6. ASSUME NEW k, NEW v, NEW r \in Results, AddField(k, v, r) PROVE ResultInv'
  <2>1. CASE length >= capacity /\ GrowPanics(capacity)
    BY <2>1, <1>3, <1>4, <1>6 DEF AddField
  <2>2. CASE ~ (length >= capacity /\ GrowPanics(capacity))
    <3>1. mappingGrowPush(k, v, lookup(k)) /\ result' = r /\ toInit' = toInit
      BY <2>2, <1>6 DEF AddField
    <3>2. length' = length + 1
      BY <3>1 DEF mappingGrowPush, mappingPush
    <3> QED
      BY <3>1, <3>2, <1>1 DEF ResultInv
  <2> QED
    BY <2>1, <2>2
<1>7. CASE init_member
  <2>1. toInit # <<>> /\ toInit' = Tail(toInit) /\ length' = length + 1 /\ result' = result
    BY <1>7 DEF init_member, mappingPush
  <2>2. Len(toInit') = Len(toInit) - 1
    BY <2>1, <1>1
  <2> QED
    BY <2>1, <2>2, <1>1 DEF ResultInv
<1>8. CASE Reindex
  BY <1>1, <1>8 DEF Reindex, ResultInv, arrayVars
<1>9. ASSUME NEW k \in Keys, mapping_get(k) PROVE ResultInv'
  <2>1. Idle /\ Returns(IF lookup(k) < 0 THEN "null" ELSE fArray[lookup(k)].value)
    BY <1>9 DEF mapping_get
  <2>2. lookup(k) \in Int
    <3>1. CASE \E i \in 0..(length - 1) : fArray[i].key = k
      BY <3>1, <2>1, LookupResult DEF IInv, Idle
    <3>2. CASE \A i \in 0..(length - 1) : fArray[i].key # k
      <4>1. PICK d \in 0..TableIndexMax : lookup(k) = -Probe(k, d) - 1
        BY <2>1, <3>2, LookupResult DEF IInv, Idle
      <4>2. Probe(k, d) \in Int
        BY ProbeInTable DEF IInv, TableInv
      <4> QED
        BY <4>1, <4>2
    <3> QED
      BY <3>1, <3>2
  <2>3. (IF lookup(k) < 0 THEN "null" ELSE fArray[lookup(k)].value) \in Results
    <3>1. CASE lookup(k) < 0
      BY <3>1, <1>3
    <3>2. CASE lookup(k) >= 0
      BY <3>2, <2>1, <2>2, <1>2, NotFound DEF IInv
    <3> QED
      BY <2>2, <3>1, <3>2
  <2> QED
    BY <2>1, <2>3, <1>4
<1>10. CASE Set
  BY <1>10, <1>3, <1>4, <1>5, <1>6 DEF Set, mapping_set
<1>11. ASSUME NEW k \in Keys, mapping_filling_get(k) PROVE ResultInv'
  <2>1. /\ Idle
        /\ IF lookup(k) >= 0 THEN Returns(fArray[lookup(k)].value)
           ELSE IF Filler = NoFiller THEN Returns("no filler") ELSE AddField(k, Filler, Filler)
    BY <1>11 DEF mapping_filling_get
  <2>2. CASE lookup(k) >= 0
    BY <2>1, <2>2, <1>2, <1>4, NotFound DEF IInv
  <2>3. CASE ~ (lookup(k) >= 0)
    BY <2>1, <2>3, <1>3, <1>4, <1>6, DescAssumption
  <2> QED
    BY <2>2, <2>3
<1>12. ASSUME NEW j \in 0..(NFields - 1), mapping_indexed_get(j) PROVE ResultInv'
  <2>1. toInit = <<>> /\ Returns(fArray[j].value)
    BY <1>12 DEF mapping_indexed_get, Idle
  <2>2. j \in 0..(length - 1)
    BY <2>1, <1>1
  <2> QED
    BY <2>1, <2>2, <1>2, <1>4
<1>13. CASE IndexedSet
  BY <1>13, <1>3, <1>4, <1>5 DEF IndexedSet, mapping_indexed_set
<1>14. CASE UNCHANGED vars
  BY <1>14, <1>1 DEF vars, ResultInv
<1>15. CASE Get
  BY <1>9, <1>15 DEF Get
<1>16. CASE FillingGet
  BY <1>11, <1>16 DEF FillingGet
<1>17. CASE IndexedGet
  BY <1>12, <1>17 DEF IndexedGet
<1> QED
  BY <1>7, <1>8, <1>10, <1>13, <1>14, <1>15, <1>16, <1>17 DEF Next

\* The inductive invariant.
LEMMA Invariance == 1 \notin InitCounts => (Spec => []IInv)
<1>1. 1 \notin InitCounts /\ Init => IInv
  BY CapacityInit, TableInit, ResultInit DEF IInv
<1>2. IInv /\ [Next]_vars => IInv'
  BY CapacityStep, TableStep, ResultStep DEF IInv
<1> QED
  BY <1>1, <1>2, PTL DEF Spec

\* Every variable keeps its type, the elements of the table their width.
THEOREM TypeCorrect == 1 \notin InitCounts => (Spec => []TypeOK)
<1>1. IInv => TypeOK
  <2> SUFFICES ASSUME IInv PROVE TypeOK
    OBVIOUS
  <2>1. /\ capacity \in Nat /\ tableLengthShift \in 2..MaxAllocShift
        /\ tableElementShift \in 1..3
    BY ArrayLengthMaxAssumption, ShiftAssumption DEF IInv, CapacityInv, TableInv, TableShape
  <2> QED
    BY <2>1 DEF IInv, TableInv, TableShape, Room, ResultInv, TypeOK
<1> QED
  BY <1>1, Invariance, PTL

\* lookup finds exactly the fields of the array, for every hash function, any number of
\* fields and across every growth of the table.
THEOREM LookupAlwaysCorrect == 1 \notin InitCounts => (Spec => []LookupCorrect)
<1>1. IInv => LookupCorrect
  <2> SUFFICES ASSUME IInv, Idle, NEW k \in Keys
               PROVE  /\ \A i \in 0..(length - 1) : fArray[i].key = k => lookup(k) = i
                      /\ (\A i \in 0..(length - 1) : fArray[i].key # k) => lookup(k) < 0
    BY DEF LookupCorrect
  <2>1. TableInv /\ indexed = length
    BY DEF IInv, Idle
  <2>2. ASSUME \A i \in 0..(length - 1) : fArray[i].key # k PROVE lookup(k) < 0
    <3>1. PICK d \in 0..TableIndexMax : lookup(k) = -Probe(k, d) - 1
      BY <2>1, <2>2, LookupResult
    <3>2. Probe(k, d) \in Nat
      BY <2>1, ProbeInTable DEF TableInv
    <3> QED
      BY <3>1, <3>2
  <2> QED
    BY <2>1, <2>2, LookupResult
<1> QED
  BY <1>1, Invariance, PTL

\* No lookup loops for ever: there is a free slot on the probe path of every key.
THEOREM ProbingTerminates == 1 \notin InitCounts => (Spec => []ProbingAlwaysEnds)
<1>1. IInv => ProbingAlwaysEnds
  BY FirstFree DEF IInv, TableInv, ProbingAlwaysEnds
<1> QED
  BY <1>1, Invariance, PTL

\* Every index can be told from the empty mark, whatever the width of the elements.
THEOREM IndexesAlwaysFit == 1 \notin InitCounts => (Spec => []IndexesFitElements)
<1>1. IInv => IndexesFitElements
  <2> SUFFICES ASSUME IInv PROVE IndexesFitElements
    OBVIOUS
  <2>1. /\ tableLengthShift \in 3..MaxAllocShift /\ tableElementShift \in 1..3
        /\ tableLengthShift - 1 <= ElementBits(tableElementShift)
        /\ length \in Nat /\ toInit \in Seq(MapField)
        /\ 2 * (length + Len(toInit)) <= 2^tableLengthShift - 2
    BY DEF IInv, TableInv, TableShape, Room
  <2>2. /\ 2^tableLengthShift \in Nat /\ 2^(tableLengthShift - 1) \in Nat
        /\ 2^tableLengthShift = 2 * 2^(tableLengthShift - 1)
        /\ 2^ElementBits(tableElementShift) \in Nat
        /\ 2^(tableLengthShift - 1) <= 2^ElementBits(tableElementShift)
    BY <2>1, Sizes
  <2>3. Len(toInit) \in Nat
    BY <2>1
  <2> QED
    BY <2>1, <2>2, <2>3 DEF IndexesFitElements, EmptyMark
<1> QED
  BY <1>1, Invariance, PTL
\* No step moves, renames or removes a field.
THEOREM FieldsNeverMove == 1 \notin InitCounts => (Spec => FieldsStay)
<1> DEFINE Stay == /\ length' >= length
                   /\ \A i \in 0..(length - 1) : fArray'[i].key = fArray[i].key
<1>1. IInv /\ [Next]_vars => [Stay]_vars
  <2> SUFFICES ASSUME IInv, Next PROVE Stay
    OBVIOUS
  <2>1. length \in Nat /\ fArray \in [0..(length - 1) -> MapField]
    BY DEF IInv, TableInv, Room
  <2>2. ASSUME NEW r, Returns(r) PROVE Stay
    BY <2>1, <2>2 DEF Returns, arrayVars
  <2>3. ASSUME NEW j, NEW v, SetValue(j, v) PROVE Stay
    BY <2>1, <2>3 DEF SetValue
  <2>4. ASSUME NEW k, NEW v, NEW c, mappingPush(k, v, c) PROVE Stay
    BY <2>1, <2>4 DEF mappingPush, Appended
  <2>5. ASSUME NEW k, NEW v, NEW r, AddField(k, v, r) PROVE Stay
    BY <2>2, <2>4, <2>5 DEF AddField, mappingGrowPush
  <2>6. CASE init_member
    BY <2>4, <2>6 DEF init_member
  <2>7. CASE Reindex
    BY <2>1, <2>7 DEF Reindex, arrayVars
  <2>8. CASE Get \/ IndexedGet
    BY <2>2, <2>8 DEF Get, mapping_get, IndexedGet, mapping_indexed_get
  <2>9. CASE Set
    BY <2>2, <2>3, <2>5, <2>9 DEF Set, mapping_set
  <2>10. CASE FillingGet
    BY <2>2, <2>5, <2>10 DEF FillingGet, mapping_filling_get
  <2>11. CASE IndexedSet
    BY <2>2, <2>3, <2>11 DEF IndexedSet, mapping_indexed_set
  <2> QED
    BY <2>6, <2>7, <2>8, <2>9, <2>10, <2>11 DEF Next
<1> QED
  BY <1>1, Invariance, PTL DEF FieldsStay, Spec
=============================================================================

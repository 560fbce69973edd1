------------------------------ MODULE Mapping -------------------------------
(***************************************************************************)
(* A mapping value of the runtime: an array of fields in insertion order,  *)
(* indexed by an open-addressing hash table that is probed backwards.  The *)
(* model covers the life of one mapping, from the constructor expression   *)
(* the compiler accepts, through the mapping_init_member calls it emits,   *)
(* to the get, set and filling-get calls of the running program.           *)
(*                                                                         *)
(* mappingGrow's loop over the fields runs as steps of its own (Reindex),  *)
(* during which no other operation is enabled.                             *)
(***************************************************************************)
EXTENDS GenericArray, Sequences, Functions

CONSTANTS
    Keys,         \* field names
    Hash,         \* _bal_string_hash
    Values,       \* member values, apart from the null pointer
    FieldNames,   \* the individual fields of the inherent type, in descriptor order
    FieldTypes,   \* MappingDesc.fieldTypes, as sets of values
    RestType,     \* MappingDesc.restType: {} for a closed record
    Filler,       \* the value structCreateFiller makes, or NoFiller
    NoFiller,
    UnitBits,     \* width of the narrowest table element: 8
    MaxAllocShift,\* _bal_alloc(1 << n) runs out of memory for n above this: 63
    InitCounts    \* the numbers of fields of the constructor expressions considered

VARIABLES
    fArray,             \* fields, by index
    length, capacity,
    table,              \* hash slot -> index into fArray, or the empty mark
    tableLengthShift, tableElementShift,
    indexed,            \* fields 0..indexed-1 are in the table
    toInit,             \* init_member calls still to come
    result              \* what the last operation returned

vars == <<fArray, length, capacity, table, tableLengthShift, tableElementShift,
          indexed, toInit, result>>
arrayVars == <<fArray, length, capacity>>
tableVars == <<table, tableLengthShift, tableElementShift, indexed>>

MapField == [key : Keys, value : Values]
Results == Values \cup {"ok", "null", "mapping store", "no filler", "list too long"}
NFields == Len(FieldNames)
Required == {FieldNames[i] : i \in 1..NFields}

\* The type by which a member named k is governed.
MemberType(k) ==
    IF k \in Required
    THEN FieldTypes[CHOOSE i \in 1..NFields : FieldNames[i] = k]
    ELSE RestType

ASSUME DescAssumption ==
    /\ FieldNames \in Seq(Keys) /\ IsInjective(FieldNames)
    /\ FieldTypes \in [1..NFields -> SUBSET Values]
    /\ RestType \subseteq Values
    /\ Filler = NoFiller \/ Filler \in RestType
    /\ NoFiller \notin Values

ASSUME HashAssumption == Hash \in [Keys -> Nat]

\* The largest element of the table is 8 bytes wide.
ASSUME ShiftAssumption ==
    /\ UnitBits \in Nat \ {0} /\ MaxAllocShift \in Nat
    /\ MaxAllocShift < 8 * UnitBits
    /\ InitCounts \subseteq 0..ArrayLengthMax

\* Facts of arithmetic about the powers of two in use, for the prover.
ASSUME PowerAssumption ==
    /\ 2^0 = 1
    /\ \A n \in 0..(8 * UnitBits) : 2^n \in Nat \ {0} /\ 2^(n + 1) = 2 * 2^n
    /\ \A m, n \in 0..(8 * UnitBits) : m <= n => 2^m <= 2^n

-----------------------------------------------------------------------------
(* The table: slots 0 .. 2^tableLengthShift - 1.                            *)

ElementBits(es) == UnitBits * 2^es
EmptyMark(es) == 2^ElementBits(es) - 1

Fetch(i) == IF table[i] = EmptyMark(tableElementShift) THEN -1 ELSE table[i]

\* Storing truncates to the width of an element.
Put(i, n) == [table EXCEPT ![i] = n % 2^ElementBits(tableElementShift)]

TableIndexMax == 2^tableLengthShift - 1

\* The slot d steps along the probe path of key k.
Probe(k, d) ==
    LET home == Hash[k] % (TableIndexMax + 1)
    IN  IF d <= home THEN home - d ELSE home + TableIndexMax + 1 - d

matches(k, mapIndex) == fArray[mapIndex].key = k

\* The step at which the loop of lookup leaves the probe path of k.
StopsAt(k, d) ==
    /\ d \in 0..TableIndexMax
    /\ Fetch(Probe(k, d)) = -1 \/ matches(k, Fetch(Probe(k, d)))
    /\ \A e \in 0..(d - 1) : Fetch(Probe(k, e)) # -1 /\ ~ matches(k, Fetch(Probe(k, e)))

\* lookup's result: an index into fArray, or -i - 1 for the free slot i.
lookup(k) ==
    LET i == Probe(k, CHOOSE d \in 0..TableIndexMax : StopsAt(k, d))
    IN  IF Fetch(i) = -1 THEN -i - 1 ELSE Fetch(i)

\* lookupDistinct compares no keys: it only looks for a free slot.
StopsAtFree(k, d) ==
    /\ d \in 0..TableIndexMax
    /\ Fetch(Probe(k, d)) = -1
    /\ \A e \in 0..(d - 1) : Fetch(Probe(k, e)) # -1

lookupDistinct(k) == -Probe(k, CHOOSE d \in 0..TableIndexMax : StopsAtFree(k, d)) - 1

\* Otherwise the loops of lookup and lookupDistinct would not end.
ProbingEnds(k) == ~ \A d \in 0..TableIndexMax : Fetch(Probe(k, d)) # -1

EmptyTable(ls, es) == [i \in 0..(2^ls - 1) |-> EmptyMark(es)]

\* Mutant: the table has the least size there is, whatever the capacity.
InitLengthShift_Least(cap) == {1}

\* initTable: the least shift, from 2 up, that leaves room for cap; then one more.
InitLengthShift(cap) ==
    {ls \in 3..MaxAllocShift : cap < 2^(ls - 1) /\ \A r \in 2..(ls - 2) : cap >= 2^r}

InitElementShift(ls) ==
    {es \in 1..3 : ElementBits(es) >= ls - 1 /\ \A r \in 1..(es - 1) : ElementBits(r) < ls - 1}

-----------------------------------------------------------------------------
(* Construction.                                                            *)

\* A constructor expression as the compiler accepts it: no duplicate field, only
\* fields and members the type allows, and not fewer fields than the type names.
AcceptedConstructor(fs) ==
    /\ \A i, j \in 1..Len(fs) : fs[i].key = fs[j].key => i = j
    /\ \A i \in 1..Len(fs) : fs[i].value \in MemberType(fs[i].key)
    /\ Len(fs) >= NFields

Constructors ==
    {fs \in UNION {[1..n -> MapField] : n \in InitCounts} : AcceptedConstructor(fs)}

SortIndex(fs, i) ==
    IF fs[i].key \in Required
    THEN CHOOSE j \in 1..NFields : FieldNames[j] = fs[i].key
    ELSE NFields + i

\* Mutant: the fields are initialised in the order of the constructor expression.
Ordered_AsWritten(fs, p) == \A i \in 1..Len(fs) : p[i] = i

\* The order in which mappingOrderFields makes nback initialise the fields.
Ordered(fs, p) == \A i, j \in 1..Len(fs) : i < j => SortIndex(fs, p[i]) < SortIndex(fs, p[j])

construct(fs, p) ==
    /\ fArray = <<>> /\ length = 0 /\ capacity = Len(fs)
    /\ tableLengthShift \in InitLengthShift(Len(fs))
    /\ tableElementShift \in InitElementShift(tableLengthShift)
    /\ tableLengthShift + tableElementShift <= MaxAllocShift
    /\ table = EmptyTable(tableLengthShift, tableElementShift)
    /\ indexed = 0
    /\ toInit = [i \in 1..Len(fs) |-> fs[p[i]]]
    /\ result = "ok"

Init == \E fs \in Constructors : \E p \in Bijection(1..Len(fs), 1..Len(fs)) :
            Ordered(fs, p) /\ construct(fs, p)

Idle == indexed = length /\ toInit = <<>>

\* A write past the allocated members is undefined: anything may be read back.
Written(cap, k, v) == IF length < cap THEN {[key |-> k, value |-> v]} ELSE MapField

Appended(f) == [i \in 0..length |-> IF i < length THEN fArray[i] ELSE f]

insert(lookupIndex, mapIndex) == table' = Put(-(lookupIndex + 1), mapIndex)

\* The part of mappingPush that concerns the array.
mappingPush(k, v, cap) ==
    /\ \E f \in Written(cap, k, v) : fArray' = Appended(f)
    /\ length' = length + 1
    /\ capacity' = cap

init_member ==
    /\ toInit # <<>>
    /\ LET f == Head(toInit) IN
       /\ ProbingEnds(f.key)
       /\ mappingPush(f.key, f.value, capacity)
       /\ insert(lookupDistinct(f.key), length)
    /\ indexed' = indexed + 1
    /\ toInit' = Tail(toInit)
    /\ UNCHANGED <<tableLengthShift, tableElementShift, result>>

-----------------------------------------------------------------------------
(* Growth of the table.                                                     *)

GrownElementShift ==
    tableElementShift + (IF ElementBits(tableElementShift) < tableLengthShift THEN 1 ELSE 0)

\* Mutant: the fields already there are not put into the new table.
growTable_NoReindex ==
    /\ tableLengthShift' = tableLengthShift + 1
    /\ tableElementShift' = GrownElementShift
    /\ table' = EmptyTable(tableLengthShift', tableElementShift')
    /\ indexed' = length + 1

growTable ==
    /\ tableLengthShift' = tableLengthShift + 1
    /\ tableElementShift' = GrownElementShift
    /\ tableLengthShift' + tableElementShift' <= MaxAllocShift
    /\ table' = EmptyTable(tableLengthShift', tableElementShift')
    /\ indexed' = 0

TableFull(len) == len >= 2^(tableLengthShift - 1)

\* The entry just made is dropped with the old table when that is replaced.
mappingGrowPush(k, v, lookupIndex) ==
    LET cap == IF length >= capacity THEN GrownCapacity(capacity, 0) ELSE capacity
    IN  /\ mappingPush(k, v, cap)
        /\ IF TableFull(length + 1)
           THEN growTable
           ELSE /\ insert(lookupIndex, length)
                /\ indexed' = indexed + 1
                /\ UNCHANGED <<tableLengthShift, tableElementShift>>

\* Mutant: the loop does not advance.
Reindex_Stuck ==
    /\ indexed < length
    /\ table' = IF lookup(fArray[indexed].key) >= 0 THEN table
                ELSE Put(-(lookup(fArray[indexed].key) + 1), indexed)
    /\ UNCHANGED <<indexed, arrayVars, tableLengthShift, tableElementShift, toInit, result>>

\* One iteration of the loop of mappingGrow.
Reindex ==
    /\ indexed < length
    /\ ProbingEnds(fArray[indexed].key)
    /\ insert(lookupDistinct(fArray[indexed].key), indexed)
    /\ indexed' = indexed + 1
    /\ UNCHANGED <<arrayVars, tableLengthShift, tableElementShift, toInit, result>>

-----------------------------------------------------------------------------
(* The operations of the running program.                                   *)

Returns(r) == result' = r /\ UNCHANGED <<arrayVars, tableVars, toInit>>

mapping_get(k) ==
    /\ Idle /\ ProbingEnds(k)
    /\ Returns(IF lookup(k) < 0 THEN "null" ELSE fArray[lookup(k)].value)

\* Overwrites the value of an existing field.
SetValue(i, v) ==
    /\ fArray' = [fArray EXCEPT ![i] = [key |-> fArray[i].key, value |-> v]]
    /\ result' = "ok"
    /\ UNCHANGED <<length, capacity, tableVars, toInit>>

\* Adds a field, unless the array of fields cannot grow.
AddField(k, v, r) ==
    IF length >= capacity /\ GrowPanics(capacity)
    THEN Returns("list too long")
    ELSE /\ mappingGrowPush(k, v, lookup(k))
         /\ result' = r
         /\ UNCHANGED toInit

mapping_set(k, v) ==
    LET i == lookup(k)
        memberType == IF i >= 0 /\ i < NFields THEN FieldTypes[i + 1] ELSE RestType
    IN  /\ Idle /\ ProbingEnds(k)
        /\ IF v \notin memberType THEN Returns("mapping store")
           ELSE IF i >= 0 THEN SetValue(i, v)
           ELSE AddField(k, v, "ok")

\* Mutant: the filler is returned but not stored.
mapping_filling_get_NotStored(k) ==
    /\ Idle /\ ProbingEnds(k)
    /\ Returns(IF lookup(k) >= 0 THEN fArray[lookup(k)].value ELSE Filler)

mapping_filling_get(k) ==
    LET i == lookup(k)
    IN  /\ Idle /\ ProbingEnds(k)
        /\ IF i >= 0 THEN Returns(fArray[i].value)
           ELSE IF Filler = NoFiller THEN Returns("no filler")
           ELSE AddField(k, Filler, Filler)

\* nback uses the index of a field only when the type is a closed record.
mapping_indexed_get(i) ==
    /\ Idle /\ RestType = {}
    /\ Returns(fArray[i].value)

\* Mutant: the type of the field is not checked.
mapping_indexed_set_Unchecked(i, v) ==
    Idle /\ RestType = {} /\ SetValue(i, v)

mapping_indexed_set(i, v) ==
    /\ Idle /\ RestType = {}
    /\ IF v \in FieldTypes[i + 1] THEN SetValue(i, v) ELSE Returns("mapping store")

Get == \E k \in Keys : mapping_get(k)
Set == \E k \in Keys, v \in Values : mapping_set(k, v)
FillingGet == \E k \in Keys : mapping_filling_get(k)
IndexedGet == \E i \in 0..(NFields - 1) : mapping_indexed_get(i)
IndexedSet == \E i \in 0..(NFields - 1), v \in Values : mapping_indexed_set(i, v)

Next == init_member \/ Reindex \/ Get \/ Set \/ FillingGet \/ IndexedGet \/ IndexedSet

\* The runtime is sequential: what a call has begun, it goes on with.
Spec == Init /\ [][Next]_vars /\ WF_vars(init_member) /\ WF_vars(Reindex)
-----------------------------------------------------------------------------
(* Properties.                                                              *)

\* Every variable has its type; table elements have the width of tableElementShift.
TypeOK ==
    /\ length \in Nat /\ capacity \in Nat /\ indexed \in 0..length
    /\ fArray \in [0..(length - 1) -> MapField]
    /\ tableLengthShift \in 2..MaxAllocShift /\ tableElementShift \in 1..3
    /\ table \in [0..TableIndexMax -> 0..EmptyMark(tableElementShift)]
    /\ toInit \in Seq(MapField)
    /\ result \in Results

\* Between operations, and after any growth, lookup finds exactly the fields of the
\* array: the index of the field named k, or a negative number when there is none.
LookupCorrect ==
    Idle => \A k \in Keys :
        /\ \A i \in 0..(length - 1) : fArray[i].key = k => lookup(k) = i
        /\ (\A i \in 0..(length - 1) : fArray[i].key # k) => lookup(k) < 0

\* The loops of lookup and lookupDistinct always meet a free slot, also while
\* mappingGrow is rebuilding the table.
ProbingAlwaysEnds == \A k \in Keys : ProbingEnds(k)

\* "The length of fArray will always be <= (1 << tableLengthShift)/2 - 1" (balrt.h),
\* and so every index can be told from the empty mark of the table's element width.
IndexesFitElements ==
    /\ 2 * length <= 2^tableLengthShift - 2
    /\ length <= EmptyMark(tableElementShift)

\* No field is written outside the memory allocated for the array.
FieldsWithinCapacity == length <= capacity

\* "The new capacity must be greater than both the old capacity and min_capacity"
\* (list.c, _bal_array_grow): a push onto a full array enlarges it.
GrowthEnlarges == [][length >= capacity /\ length' > length => capacity' > capacity]_vars

\* The individual fields of the type are at their descriptor positions once the
\* mapping is constructed: mapping_indexed_get, mapping_indexed_set and the choice of
\* member type in mapping_set rely on it.
RequiredInPlace ==
    toInit = <<>> => /\ length >= NFields
                     /\ \A i \in 1..NFields : fArray[i - 1].key = FieldNames[i]

\* Every member belongs to the type its name has in the inherent type.
MembersTyped == \A i \in 0..(length - 1) : fArray[i].value \in MemberType(fArray[i].key)

\* No step moves, renames or removes a field: an index into the array stays valid
\* across growth of the array and of the table.
FieldsStay ==
    [][/\ length' >= length
       /\ \A i \in 0..(length - 1) : fArray'[i].key = fArray[i].key]_vars

\* Every construction and every rebuilding of the table comes to its end.
OperationsFinish == []<>Idle

\* The mapping implements a map with insertion order.
Abstract == INSTANCE OrderedMap WITH fields <- [i \in 1..length |-> fArray[i - 1]]
ImplementsOrderedMap == Abstract!Spec
=============================================================================

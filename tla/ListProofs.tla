----------------------------- MODULE ListProofs -----------------------------
(***************************************************************************)
(* Proofs about List: its members keep their types and identities, exact   *)
(* stores succeed, and it implements a GrowableList.                       *)
(***************************************************************************)
EXTENDS List, TLAPS

\* The integers that an index or a length may be.
WordInts == -(Word \div 2) .. (Word - 1)

\* The cast of a negative index exceeds every length.
LEMMA NegativeWraps ==
    ASSUME NEW w \in Nat, NEW i \in Int, -w <= i, i < 0
    PROVE  i % w = i + w
BY SMT

LEMMA UnsignedIndex ==
    /\ Indices \subseteq WordInts /\ 0 .. ArrayLengthMax \subseteq WordInts
    /\ \A i \in WordInts : \A n \in 0 .. ArrayLengthMax :
        Unsigned(i) < n <=> i \in 0 .. (n - 1)
    /\ \A i \in WordInts : \A n \in 0 .. ArrayLengthMax :
        Unsigned(i) >= n <=> i < 0 \/ i >= n
<1>1. /\ Word \in Nat /\ Word > 2 * ArrayLengthMax /\ ArrayLengthMax \in Nat
      /\ Indices \subseteq -(Word \div 2) .. (Word \div 2) - 1
  BY WordAssumption, ArrayLengthMaxAssumption
<1>2. Word \div 2 \in Nat /\ 2 * (Word \div 2) <= Word
  BY <1>1
<1>3. Indices \subseteq WordInts /\ 0 .. ArrayLengthMax \subseteq WordInts
  BY <1>1, <1>2 DEF WordInts
<1>4. ASSUME NEW i \in WordInts
      PROVE  Unsigned(i) = IF i < 0 THEN i + Word ELSE i
  <2>1. i \in Int /\ -Word <= i /\ i < Word
    BY <1>1, <1>2 DEF WordInts
  <2>2. CASE i < 0
    BY <2>1, <2>2, <1>1, NegativeWraps, Zenon DEF Unsigned
  <2>3. CASE i >= 0
    BY <2>1, <2>3, <1>1 DEF Unsigned
  <2> QED
    BY <2>1, <2>2, <2>3
<1>5. \A i \in WordInts : i \in Int /\ i + Word > ArrayLengthMax
  BY <1>1, <1>2 DEF WordInts
<1> QED
  BY <1>1, <1>3, <1>4, <1>5

-----------------------------------------------------------------------------
(* Types and representations.                                               *)

\* What the assumption says about one type.
LEMMA TypeFacts ==
    ASSUME NEW t \in ListTypes
    PROVE  /\ t.initial \in Seq(SUBSET Values) /\ t.rest \subseteq Values
           /\ t.fixedLength \in Nat /\ Len(t.initial) \in Nat /\ t.fixedLength >= Len(t.initial)
           /\ Len(t.initial) = 0 => t.fixedLength = 0
           /\ \A k \in 1 .. Len(t.initial) : t.initial[k] \subseteq Values
           /\ t.filler \in {"none", "copy", "each"}
<1>1. /\ t.initial \in Seq(SUBSET Values) /\ t.rest \subseteq Values
      /\ t.fixedLength \in Nat /\ t.fixedLength >= Len(t.initial)
      /\ t.initial = <<>> => t.fixedLength = 0
      /\ t.filler \in {"none", "copy", "each"}
  BY ListTypesAssumption
<1> QED
  BY <1>1

\* The member type at an index: of the initial members, the last one repeated, or of
\* the rest.
LEMMA TypeAtIndex ==
    ASSUME NEW t \in ListTypes, t.fixedLength <= ArrayLengthMax, NEW i \in WordInts
    PROVE  /\ MemberTypeAt(t, i) = IF i \in 0 .. (t.fixedLength - 1)
                                   THEN t.initial[IF i < Len(t.initial) THEN i + 1 ELSE Len(t.initial)]
                                   ELSE t.rest
           /\ i \in 0 .. (t.fixedLength - 1) =>
                MemberTypeAt(t, i) \in {t.initial[k] : k \in 1 .. Len(t.initial)}
           /\ MemberTypeAt(t, i) \subseteq Values
<1>1. Unsigned(i) < t.fixedLength <=> i \in 0 .. (t.fixedLength - 1)
  BY UnsignedIndex, TypeFacts, ArrayLengthMaxAssumption
<1>2. /\ MemberTypeAt(t, i) = IF i \in 0 .. (t.fixedLength - 1)
                              THEN t.initial[IF i < Len(t.initial) THEN i + 1 ELSE Len(t.initial)]
                              ELSE t.rest
  BY <1>1 DEF MemberTypeAt
<1>3. i \in 0 .. (t.fixedLength - 1) =>
        (IF i < Len(t.initial) THEN i + 1 ELSE Len(t.initial)) \in 1 .. Len(t.initial)
  BY TypeFacts
<1> QED
  BY <1>2, <1>3, TypeFacts

\* A value is its tag and its payload.
LEMMA ValueShape ==
    /\ \A v \in Values : v.n \in Int /\ v = [tag |-> v.tag, n |-> v.n]
    /\ [tag |-> "int", n |-> 0] \in Ints /\ [tag |-> "int", n |-> 0] \in Bytes
    /\ [tag |-> "float", n |-> 0] \in Floats /\ ByteMax \in Nat
<1>1. \A v \in Values : v.n \in Int /\ v = [tag |-> v.tag, n |-> v.n]
  BY ListTypesAssumption
<1>2. [tag |-> "int", n |-> 0] \in Values /\ [tag |-> "float", n |-> 0] \in Values
  BY ListTypesAssumption
<1>3. ByteMax \in Nat /\ 0 \in 0 .. ByteMax
  BY WordAssumption
<1> QED
  BY <1>1, <1>2, <1>3 DEF Ints, Bytes, Floats

\* The four representations, and the rest types of the specialised ones.
LEMMA Representations ==
    ASSUME NEW t \in ListTypes
    PROVE  \/ ReprPrefix(t) = "generic"
           \/ t.fixedLength = 0 /\ ReprPrefix(t) = "int_array" /\ t.rest = Ints
           \/ t.fixedLength = 0 /\ ReprPrefix(t) = "float_array" /\ t.rest = Floats
           \/ t.fixedLength = 0 /\ ReprPrefix(t) = "byte_array" /\ t.rest = Bytes
BY DEF ReprPrefix

\* What a cell of the array may hold.
Cells == Values \cup {Garbage} \cup [tag : {"raw"}, n : Int]

\* A value of the member type is read back as it was stored, whatever the representation.
LEMMA RoundTrip ==
    ASSUME NEW t \in ListTypes, NEW v \in Values, ReprPrefix(t) # "generic" => v \in t.rest
    PROVE  /\ ToHeap(ReprPrefix(t), v) \in Cells
           /\ FromHeap(ReprPrefix(t), ToHeap(ReprPrefix(t), v)) = v
<1>1. v.n \in Int /\ v = [tag |-> v.tag, n |-> v.n]
  BY ValueShape
<1>2. CASE ReprPrefix(t) = "generic"
  BY <1>2 DEF ToHeap, FromHeap, Cells
<1>3. CASE ReprPrefix(t) = "int_array" /\ t.rest = Ints
  <2>1. v.tag = "int"
    BY <1>3 DEF Ints
  <2>2. ToHeap(ReprPrefix(t), v) = [tag |-> "raw", n |-> v.n]
    BY <1>3 DEF ToHeap
  <2> QED
    BY <2>1, <2>2, <1>1, <1>3 DEF FromHeap, Cells
<1>4. CASE ReprPrefix(t) = "float_array" /\ t.rest = Floats
  <2>1. v.tag = "float"
    BY <1>4 DEF Floats
  <2>2. ToHeap(ReprPrefix(t), v) = [tag |-> "raw", n |-> v.n]
    BY <1>4 DEF ToHeap
  <2> QED
    BY <2>1, <2>2, <1>1, <1>4 DEF FromHeap, Cells
<1>5. CASE ReprPrefix(t) = "byte_array" /\ t.rest = Bytes
  <2>1. v.tag = "int" /\ v.n \in 0 .. ByteMax /\ ByteMax \in Nat
    BY <1>5, ValueShape DEF Bytes, Ints
  <2>2. v.n % (ByteMax + 1) = v.n
    BY <2>1
  <2>3. ToHeap(ReprPrefix(t), v) = [tag |-> "raw", n |-> v.n]
    BY <2>2, <1>5 DEF ToHeap
  <2> QED
    BY <2>1, <2>3, <1>1, <1>5 DEF FromHeap, Cells
<1> QED
  BY <1>2, <1>3, <1>4, <1>5, Representations

\* The set function of a specialised array refuses exactly what is outside of its type.
LEMMA RefusesOthers ==
    ASSUME NEW t \in ListTypes, ReprPrefix(t) # "generic", NEW v \in Values
    PROVE  Refuses(ReprPrefix(t), v) <=> v \notin t.rest
<1>1. v.n \in Int /\ ByteMax \in Nat
  BY ValueShape
<1>2. CASE ReprPrefix(t) = "int_array" /\ t.rest = Ints
  BY <1>2 DEF Refuses, Ints
<1>3. CASE ReprPrefix(t) = "float_array" /\ t.rest = Floats
  BY <1>3 DEF Refuses, Floats
<1>4. CASE ReprPrefix(t) = "byte_array" /\ t.rest = Bytes
  BY <1>1, <1>4 DEF Refuses, Bytes, Ints
<1> QED
  BY <1>2, <1>3, <1>4, Representations

\* The zeroes of a specialised array are its filler.
LEMMA ZeroIsFiller ==
    ASSUME NEW t \in ListTypes, ReprPrefix(t) # "generic"
    PROVE  /\ Zeroes \in Cells /\ FromHeap(ReprPrefix(t), Zeroes) = t.value
           /\ t.filler = "copy" /\ t.value \in t.rest \ FillerLists
BY ListTypesAssumption DEF Zeroes, Cells

-----------------------------------------------------------------------------
(* The inductive invariant.                                                 *)

\* The array: its length, its capacity and what its cells may hold.
ArrayInv ==
    /\ desc \in ListTypes
    /\ capacity \in 0 .. ArrayLengthMax /\ length \in 0 .. capacity
    /\ members \in [0 .. (capacity - 1) -> Cells]
    /\ created \in 0 .. MaxLists

\* Every filler with an identity that is in the list was made by an earlier operation.
FillersKnown == \A i \in 0 .. (length - 1) : Member(i) \in FillerLists => Member(i).n < created

ListInv == ArrayInv /\ MembersTyped /\ FillersNotShared /\ FillersKnown

\* The tests of an index against the length and the reach of the array.
LEMMA Ranges ==
    ASSUME ListInv, NEW i \in WordInts
    PROVE  /\ i \in Int
           /\ InRange(i) <=> i \in 0 .. (length - 1)
           /\ OutOfReach(i) <=> i \notin 0 .. (ArrayLengthMax - 1)
<1>1. /\ capacity \in 0 .. ArrayLengthMax /\ length \in 0 .. capacity /\ ArrayLengthMax \in Nat
  BY ArrayLengthMaxAssumption DEF ListInv, ArrayInv
<1>2. i \in Int
  BY WordAssumption DEF WordInts
<1>3. Unsigned(i) < length <=> i \in 0 .. (length - 1)
  BY <1>1, UnsignedIndex
<1>4. /\ Unsigned(i) >= capacity <=> i < 0 \/ i >= capacity
      /\ Unsigned(i) >= ArrayLengthMax <=> i < 0 \/ i >= ArrayLengthMax
  BY <1>1, UnsignedIndex
<1> QED
  BY <1>1, <1>2, <1>3, <1>4 DEF InRange, OutOfReach

\* The member types of the inherent type.
LEMMA OwnTypes ==
    ASSUME ListInv, NEW i \in WordInts
    PROVE  /\ desc \in ListTypes /\ desc.fixedLength \in 0 .. length /\ desc.rest \subseteq Values
           /\ MemberTypeAt(desc, i) \subseteq Values
           /\ i \notin 0 .. (desc.fixedLength - 1) => MemberTypeAt(desc, i) = desc.rest
           /\ ReprPrefix(desc) # "generic" => MemberTypeAt(desc, i) = desc.rest
<1>1. /\ desc \in ListTypes /\ length \in 0 .. ArrayLengthMax /\ length >= desc.fixedLength
      /\ ArrayLengthMax \in Nat
  BY ArrayLengthMaxAssumption DEF ListInv, ArrayInv, MembersTyped
<1>2. desc.fixedLength \in Nat /\ desc.fixedLength <= ArrayLengthMax /\ desc.rest \subseteq Values
  BY <1>1, TypeFacts
<1>3. /\ MemberTypeAt(desc, i) \subseteq Values
      /\ i \notin 0 .. (desc.fixedLength - 1) => MemberTypeAt(desc, i) = desc.rest
  BY <1>1, <1>2, TypeAtIndex
<1>4. ReprPrefix(desc) # "generic" => desc.fixedLength = 0
  BY <1>1, Representations
<1> QED
  BY <1>1, <1>2, <1>3, <1>4

\* Only the length and the members of the list are seen through the invariant, and a
\* step that leaves them alone keeps it.
LEMMA KeptUnchanged ==
    ASSUME ListInv, UNCHANGED <<desc, members, length, capacity>>,
           created' \in created .. MaxLists
    PROVE  ListInv' /\ \A k : Member(k)' = Member(k)
<1>1. \A k : Member(k)' = Member(k)
  BY DEF Member
<1>2. ArrayInv'
  BY DEF ListInv, ArrayInv
<1>3. MembersTyped' /\ FillersNotShared'
  BY DEF ListInv, MembersTyped, FillersNotShared, Member
<1>4. FillersKnown'
  <2> SUFFICES ASSUME NEW i \in 0 .. (length - 1), Member(i) \in FillerLists
               PROVE  Member(i).n < created'
    BY <1>1 DEF FillersKnown
  <2>1. Member(i).n < created /\ Member(i).n \in Int
    BY ValueShape DEF ListInv, FillersKnown, FillerLists
  <2> QED
    BY <2>1 DEF ListInv, ArrayInv
<1> QED
  BY <1>1, <1>2, <1>3, <1>4 DEF ListInv

\* The room that is made for an index within reach.
LEMMA RoomSuffices ==
    ASSUME ListInv, NEW i \in length .. (ArrayLengthMax - 1)
    PROVE  Room(i) \in (i + 1) .. ArrayLengthMax
<1>1. /\ capacity \in 0 .. ArrayLengthMax /\ length \in 0 .. capacity
      /\ ArrayLengthMax \in Nat /\ InitialCapacity \in Nat /\ ArrayLengthMax >= InitialCapacity
  BY ArrayLengthMaxAssumption, InitialCapacityAssumption DEF ListInv, ArrayInv
<1>2. capacity \div 2 \in Nat
  BY <1>1
<1> QED
  BY <1>1, <1>2 DEF Room, GrownCapacity, Extended, Larger

-----------------------------------------------------------------------------
(* What the runtime does to the array.                                      *)

\* A member is replaced by a value of its type that is no filler.
LEMMA ReplaceEffect ==
    ASSUME ListInv, NEW i \in 0 .. (length - 1), NEW v \in ProgramValues,
           v \in MemberTypeAt(desc, i), Replace(i, ToHeap(ReprPrefix(desc), v)),
           UNCHANGED <<desc, created>>
    PROVE  /\ ListInv' /\ length' = length
           /\ \A k \in 0 .. (length - 1) : Member(k)' = IF k = i THEN v ELSE Member(k)
<1> DEFINE cell == ToHeap(ReprPrefix(desc), v)
<1>1. /\ desc \in ListTypes /\ capacity \in 0 .. ArrayLengthMax /\ length \in 0 .. capacity
      /\ members \in [0 .. (capacity - 1) -> Cells] /\ ArrayLengthMax \in Nat
  BY ArrayLengthMaxAssumption DEF ListInv, ArrayInv
<1>2. i \in WordInts
  BY <1>1, UnsignedIndex
<1>3. v \in Values /\ v \notin FillerLists
  BY DEF ProgramValues
<1>4. cell \in Cells /\ FromHeap(ReprPrefix(desc), cell) = v
  BY <1>1, <1>2, <1>3, OwnTypes, RoundTrip
<1>5. members' = [members EXCEPT ![i] = cell] /\ length' = length /\ capacity' = capacity
  BY DEF Replace
<1> HIDE DEF cell
<1>6. members' \in [0 .. (capacity - 1) -> Cells]
  BY <1>1, <1>4, <1>5
<1>7. \A k \in 0 .. (length - 1) : members'[k] = IF k = i THEN cell ELSE members[k]
  BY <1>1, <1>5
<1>8. \A k \in 0 .. (length - 1) : Member(k)' = IF k = i THEN v ELSE Member(k)
  BY <1>4, <1>7 DEF Member
<1>9. ArrayInv'
  BY <1>5, <1>6 DEF ListInv, ArrayInv
<1>10. MembersTyped'
  BY <1>5, <1>8 DEF ListInv, MembersTyped, MemberTypeAt
<1>11. FillersNotShared'
  BY <1>3, <1>5, <1>8 DEF ListInv, FillersNotShared
<1>12. FillersKnown'
  BY <1>3, <1>5, <1>8 DEF ListInv, FillersKnown
<1> QED
  BY <1>5, <1>8, <1>9, <1>10, <1>11, <1>12 DEF ListInv

\* The values a gap and the member after it may have: of the rest type, and those with an
\* identity made in this step, no two of them the same.
FreshFrom(i, val) ==
    /\ \A k \in length .. i : val[k] \in desc.rest
    /\ \A k \in length .. i : val[k] \in FillerLists => val[k].n \in created .. (created' - 1)
    /\ \A k, m \in length .. i : val[k] \in FillerLists /\ val[k] = val[m] => k = m

\* Members are appended up to an index within reach.
LEMMA ExtendEffect ==
    ASSUME ListInv, NEW i \in length .. (ArrayLengthMax - 1), NEW gap, NEW cell,
           NEW val, FreshFrom(i, val),
           \A k \in length .. (i - 1) : gap[k] \in Cells /\ FromHeap(ReprPrefix(desc), gap[k]) = val[k],
           cell \in Cells, FromHeap(ReprPrefix(desc), cell) = val[i],
           Extend(i, gap, cell), desc' = desc, created' \in created .. MaxLists
    PROVE  /\ ListInv' /\ length' = i + 1
           /\ \A k \in 0 .. i : Member(k)' = IF k < length THEN Member(k) ELSE val[k]
<1>1. /\ desc \in ListTypes /\ capacity \in 0 .. ArrayLengthMax /\ length \in 0 .. capacity
      /\ members \in [0 .. (capacity - 1) -> Cells] /\ ArrayLengthMax \in Nat
      /\ created \in 0 .. MaxLists /\ MaxLists \in Nat
  BY ArrayLengthMaxAssumption, WordAssumption DEF ListInv, ArrayInv
<1>2. Room(i) \in (i + 1) .. ArrayLengthMax /\ i \in Nat
  BY <1>1, RoomSuffices
<1>3. /\ capacity' = Room(i) /\ length' = i + 1
      /\ members' = [j \in 0 .. (Room(i) - 1) |->
                      IF j = i THEN cell ELSE IF j < length THEN members[j]
                      ELSE IF j < i THEN gap[j] ELSE Garbage]
  BY DEF Extend
<1>4. members' \in [0 .. (capacity' - 1) -> Cells]
  <2> SUFFICES ASSUME NEW j \in 0 .. (Room(i) - 1)
               PROVE  (IF j = i THEN cell ELSE IF j < length THEN members[j]
                       ELSE IF j < i THEN gap[j] ELSE Garbage) \in Cells
    BY <1>3
  <2>1. Garbage \in Cells
    BY DEF Cells
  <2>2. j < length => members[j] \in Cells
    BY <1>1, <1>2
  <2>3. ~ (j < length) /\ j < i => gap[j] \in Cells
    BY <1>1, <1>2
  <2> QED
    BY <2>1, <2>2, <2>3
<1>5. \A k \in 0 .. i : members'[k] = IF k = i THEN cell ELSE IF k < length THEN members[k] ELSE gap[k]
  BY <1>1, <1>2, <1>3
<1>6. \A k \in 0 .. i : Member(k)' = IF k < length THEN Member(k) ELSE val[k]
  <2> SUFFICES ASSUME NEW k \in 0 .. i
               PROVE  FromHeap(ReprPrefix(desc), members'[k])
                        = IF k < length THEN FromHeap(ReprPrefix(desc), members[k]) ELSE val[k]
    BY DEF Member
  <2>1. CASE k < length
    BY <2>1, <1>1, <1>2, <1>5
  <2>2. CASE k = i
    BY <2>2, <1>1, <1>2, <1>5
  <2>3. CASE k \in length .. (i - 1)
    BY <2>3, <1>1, <1>2, <1>5
  <2> QED
    BY <2>1, <2>2, <2>3, <1>1, <1>2
<1>7. ArrayInv'
  BY <1>1, <1>2, <1>3, <1>4 DEF ArrayInv
<1>8. MembersTyped'
  <2>1. length' >= desc.fixedLength
    BY <1>1, <1>2, <1>3, TypeFacts DEF ListInv, MembersTyped
  <2>2. ASSUME NEW k \in 0 .. i PROVE Member(k)' \in MemberTypeAt(desc, k)
    <3>1. k \in WordInts
      BY <1>1, <1>2, UnsignedIndex
    <3>2. CASE k < length
      BY <3>2, <1>1, <1>2, <1>6 DEF ListInv, MembersTyped
    <3>3. CASE k \in length .. i
      <4>1. MemberTypeAt(desc, k) = desc.rest
        BY <3>1, <3>3, <1>1, OwnTypes
      <4> QED
        BY <4>1, <3>3, <1>1, <1>2, <1>6 DEF FreshFrom
    <3> QED
      BY <3>2, <3>3, <1>1, <1>2
  <2> QED
    BY <2>1, <2>2, <1>2, <1>3 DEF MembersTyped, MemberTypeAt
<1>9. FillersKnown'
  <2> SUFFICES ASSUME NEW k \in 0 .. i, Member(k)' \in FillerLists PROVE Member(k)'.n < created'
    BY <1>2, <1>3 DEF FillersKnown
  <2>1. Member(k)'.n \in Int
    BY ValueShape DEF FillerLists
  <2>2. CASE k < length
    BY <2>1, <2>2, <1>1, <1>2, <1>6 DEF ListInv, FillersKnown
  <2>3. CASE k \in length .. i
    BY <2>1, <2>3, <1>1, <1>2, <1>6 DEF FreshFrom
  <2> QED
    BY <2>2, <2>3, <1>1, <1>2
<1>10. FillersNotShared'
  <2> SUFFICES ASSUME NEW k \in 0 .. i, NEW m \in 0 .. i,
                      Member(k)' \in FillerLists, Member(k)' = Member(m)'
               PROVE  k = m
    BY <1>2, <1>3 DEF FillersNotShared
  <2>1. Member(k)'.n \in Int
    BY ValueShape DEF FillerLists
  <2>2. CASE k < length /\ m < length
    BY <2>2, <1>1, <1>2, <1>6 DEF ListInv, FillersNotShared
  <2>3. CASE k \in length .. i /\ m \in length .. i
    BY <2>3, <1>1, <1>2, <1>6 DEF FreshFrom
  <2>4. CASE k < length /\ m \in length .. i
    BY <2>1, <2>4, <1>1, <1>2, <1>6 DEF FreshFrom, ListInv, FillersKnown
  <2>5. CASE k \in length .. i /\ m < length
    BY <2>1, <2>5, <1>1, <1>2, <1>6 DEF FreshFrom, ListInv, FillersKnown
  <2> QED
    BY <2>2, <2>3, <2>4, <2>5, <1>1, <1>2
<1> QED
  BY <1>3, <1>6, <1>7, <1>8, <1>9, <1>10 DEF ListInv

-----------------------------------------------------------------------------
(* What an operation does to the list, in terms of its members.             *)

\* The fillers of the inherent type.
Fillers == IF desc.filler = "each" THEN FillerLists ELSE {desc.value}

\* Every member but the one at i is as before or, past the old end, a filler.
Grows(i, n) ==
    /\ length' = n
    /\ \A k \in 0 .. (n - 1) : k # i => IF k < length THEN Member(k)' = Member(k) ELSE Member(k)' \in Fillers

StoreDone(i, v) ==
    /\ i \in 0 .. (ArrayLengthMax - 1) /\ v \in MemberTypeAt(desc, i)
    /\ i > length => desc.filler # "none"
    /\ Grows(i, IF i < length THEN length ELSE i + 1)
    /\ Member(i)' = v
    /\ result' = Ok(None)

\* The codes of a store that fails with cause; one more when the compiler relied on the
\* store to succeed.
StoreCodes == {"list store", "no filler", "index out of bounds", "list too long"}

StoreFailed(i, v, relied) ==
    /\ \/ v \notin MemberTypeAt(desc, i)
       \/ i \notin 0 .. (ArrayLengthMax - 1)
       \/ i > length /\ desc.filler = "none"
    /\ UNCHANGED <<members, length, capacity>>
    /\ \E code \in StoreCodes \cup {"internal error"} :
        /\ result' = Panics(code)
        /\ code = "internal error" => relied /\ v \notin MemberTypeAt(desc, i)

Stores(i, v, relied) ==
    ListInv' /\ desc' = desc /\ (StoreDone(i, v) \/ StoreFailed(i, v, relied))

FillDone(i) ==
    /\ i \in length .. (ArrayLengthMax - 1) /\ desc.filler # "none"
    /\ Grows(i, i + 1)
    /\ Member(i)' \in Fillers
    /\ result' = Ok(Member(i)')

\* The fillers made in a step: each belongs to the rest type, and has a number of its own.
LEMMA FillersFresh ==
    ASSUME ListInv, desc.filler # "none", NEW n \in Nat, Creates(n)
    PROVE  /\ created' \in created .. MaxLists
           /\ \A k \in 0 .. (n - 1) : Filler(k) \in desc.rest \cap Fillers
           /\ \A k \in 0 .. (n - 1) : Filler(k) \in FillerLists =>
                /\ desc.filler = "each" /\ Filler(k).n = created + k
                /\ Filler(k).n \in created .. (created' - 1)
<1>1. desc \in ListTypes /\ created \in 0 .. MaxLists /\ MaxLists \in Nat
  BY WordAssumption DEF ListInv, ArrayInv
<1>2. CASE desc.filler = "each"
  <2>1. created + n <= MaxLists /\ created' = created + n
    BY <1>2 DEF Creates
  <2>2. \A k \in 0 .. (n - 1) : Filler(k) = [tag |-> "list", n |-> created + k]
    BY <1>2 DEF Filler
  <2>3. \A k \in 0 .. (n - 1) : created + k \in 0 .. (MaxLists - 1)
    BY <1>1, <2>1
  <2>4. \A k \in 0 .. (n - 1) : Filler(k) \in desc.rest
    BY <1>1, <1>2, <2>2, <2>3, ListTypesAssumption
  <2>5. \A k \in 0 .. (n - 1) : Filler(k) \in FillerLists
    BY <1>1, <2>2, <2>3, <2>4, TypeFacts DEF FillerLists
  <2> QED
    BY <1>1, <1>2, <2>1, <2>2, <2>3, <2>4, <2>5 DEF Fillers
<1>3. CASE desc.filler = "copy"
  <2>1. created' = created
    BY <1>3 DEF Creates
  <2>2. \A k \in 0 .. (n - 1) : Filler(k) = desc.value
    BY <1>3 DEF Filler
  <2>3. desc.value \in desc.rest \ FillerLists
    BY <1>1, <1>3, ListTypesAssumption
  <2> QED
    BY <1>1, <1>3, <2>1, <2>2, <2>3 DEF Fillers
<1> QED
  BY <1>1, <1>2, <1>3, TypeFacts

\* A failure changes nothing but the result, and perhaps the count of fillers made.
LEMMA StoreFailure ==
    ASSUME ListInv, NEW i \in WordInts, NEW v, NEW relied \in BOOLEAN, NEW code, Fail(code), desc' = desc,
           created' \in created .. MaxLists,
           \/ v \notin MemberTypeAt(desc, i)
           \/ i \notin 0 .. (ArrayLengthMax - 1)
           \/ i > length /\ desc.filler = "none",
           \/ code \in StoreCodes
           \/ code = "internal error" /\ relied /\ v \notin MemberTypeAt(desc, i)
    PROVE  Stores(i, v, relied)
<1>1. UNCHANGED <<members, length, capacity>> /\ result' = Panics(code)
  BY Zenon DEF Fail
<1>2. ListInv'
  BY <1>1, KeptUnchanged, Zenon
<1>3. code = "internal error" => relied /\ v \notin MemberTypeAt(desc, i)
  BY Zenon DEF StoreCodes
<1>4. code \in StoreCodes \cup {"internal error"}
  BY Zenon
<1>5. StoreFailed(i, v, relied)
  BY <1>1, <1>3, <1>4, Zenon DEF StoreFailed
<1> QED
  BY <1>2, <1>5, Zenon DEF Stores

\* The operations that create nothing, or a bounded number.
LEMMA CreatesBounded ==
    ASSUME ListInv
    PROVE  /\ created' = created => created' \in created .. MaxLists
           /\ \A n \in Nat : Creates(n) => created' \in created .. MaxLists
<1>1. created \in 0 .. MaxLists /\ MaxLists \in Nat
  BY WordAssumption DEF ListInv, ArrayInv
<1> QED
  BY <1>1 DEF Creates

\* A store in range, on any representation.
LEMMA StoreInRange ==
    ASSUME ListInv, NEW i \in 0 .. (length - 1), NEW v \in ProgramValues, NEW relied \in BOOLEAN,
           v \in MemberTypeAt(desc, i), Replace(i, ToHeap(ReprPrefix(desc), v)),
           result' = Ok(None), UNCHANGED <<desc, created>>
    PROVE  Stores(i, v, relied)
<1>1. /\ ListInv' /\ length' = length
      /\ \A k \in 0 .. (length - 1) : Member(k)' = IF k = i THEN v ELSE Member(k)
  BY ReplaceEffect
<1>2. length \in 0 .. ArrayLengthMax /\ ArrayLengthMax \in Nat
  BY ArrayLengthMaxAssumption DEF ListInv, ArrayInv
<1>3. Grows(i, length)
  BY <1>1, <1>2 DEF Grows
<1>4. i < length /\ i \in 0 .. (ArrayLengthMax - 1) /\ ~ (i > length)
  BY <1>2
<1>5. Member(i)' = v
  BY <1>1
<1> QED
  BY <1>1, <1>3, <1>4, <1>5 DEF Stores, StoreDone

\* _bal_list_generic_set_tagged: the store is done or fails with cause.
LEMMA GenericSetEffect ==
    ASSUME ListInv, ReprPrefix(desc) = "generic", NEW i \in WordInts, NEW v \in ProgramValues,
           NEW exact \in BOOLEAN, NEW inexact \in BOOLEAN,
           GenericSet(exact, inexact, i, v), desc' = desc
    PROVE  Stores(i, v, exact /\ ~ inexact)
<1> DEFINE code(c) == IF inexact THEN "list store" ELSE c
           relied == exact /\ ~ inexact
<1> SUFFICES Stores(i, v, relied)
  OBVIOUS
<1>1. /\ i \in Int
      /\ InRange(i) <=> i \in 0 .. (length - 1)
      /\ OutOfReach(i) <=> i \notin 0 .. (ArrayLengthMax - 1)
  BY Ranges
<1>2. length \in Nat /\ length <= ArrayLengthMax /\ ArrayLengthMax \in Nat /\ desc \in ListTypes
  BY ArrayLengthMaxAssumption DEF ListInv, ArrayInv
<1>3. CASE ~ Allows(i, v) /\ Fail(code(StorePanicCode(exact))) /\ created' = created
  <2>1. v \notin MemberTypeAt(desc, i) /\ created' \in created .. MaxLists
    BY <1>3, CreatesBounded, Zenon DEF Allows
  <2>2. \/ code(StorePanicCode(exact)) \in StoreCodes
        \/ code(StorePanicCode(exact)) = "internal error" /\ relied
    BY DEF StorePanicCode, StoreCodes
  <2> HIDE DEF code, relied
  <2>3. relied \in BOOLEAN
    BY DEF relied
  <2> QED
    BY <2>1, <2>2, <2>3, <1>3, StoreFailure, Zenon
<1>4. CASE Allows(i, v) /\ InRange(i) /\ Replace(i, v) /\ result' = Ok(None) /\ created' = created
  <2>1. v \in MemberTypeAt(desc, i) /\ i \in 0 .. (length - 1)
    BY <1>1, <1>4 DEF Allows
  <2>2. ToHeap(ReprPrefix(desc), v) = v
    BY DEF ToHeap
  <2>3. relied \in BOOLEAN
    OBVIOUS
  <2> HIDE DEF relied
  <2> QED
    BY <2>1, <2>2, <2>3, <1>4, StoreInRange
<1>5. CASE i > length /\ desc.filler = "none" /\ Fail(code("no filler")) /\ created' = created
  <2>1. code("no filler") \in StoreCodes /\ created' \in created .. MaxLists
    BY <1>5, CreatesBounded, Zenon DEF StoreCodes
  <2> HIDE DEF code
  <2> QED
    BY <2>1, <1>5, StoreFailure, Zenon
<1>6. CASE /\ OutOfReach(i) /\ Fail(code(OutOfReachCode(i)))
           /\ IF i > length THEN Creates(1) ELSE UNCHANGED created
  <2>1. code(OutOfReachCode(i)) \in StoreCodes
    BY DEF StoreCodes, OutOfReachCode
  <2>2. created' \in created .. MaxLists
    BY <1>6, CreatesBounded, Zenon
  <2> HIDE DEF code
  <2> QED
    BY <2>1, <2>2, <1>1, <1>6, StoreFailure, Zenon
<1>7. CASE /\ Allows(i, v) /\ ~ InRange(i) /\ ~ OutOfReach(i)
           /\ i > length => desc.filler # "none"
           /\ Extend(i, [j \in length .. (i - 1) |-> GapFiller(j - length)], v)
           /\ result' = Ok(None) /\ Creates(i - length)
  <2> DEFINE gap == [j \in length .. (i - 1) |-> GapFiller(j - length)]
             val == [k \in length .. i |-> IF k = i THEN v ELSE Filler(k - length)]
  <2>1. i \in length .. (ArrayLengthMax - 1) /\ i - length \in Nat
    BY <1>1, <1>2, <1>7
  <2>2. MemberTypeAt(desc, i) = desc.rest /\ desc.rest \subseteq Values
    BY <2>1, <1>2, OwnTypes
  <2>3. v \in desc.rest /\ v \notin FillerLists /\ v \in Cells
    BY <2>2, <1>7 DEF Allows, ProgramValues, Cells
  <2>4. created' \in created .. MaxLists /\ created \in Nat
    BY <2>1, <1>7, CreatesBounded DEF ListInv, ArrayInv
  <2>5. ASSUME NEW k \in length .. (i - 1)
        PROVE  /\ Filler(k - length) \in desc.rest \cap Fillers
               /\ Filler(k - length) \in FillerLists =>
                    /\ Filler(k - length).n = created + (k - length)
                    /\ Filler(k - length).n \in created .. (created' - 1)
    <3>1. desc.filler # "none" /\ k - length \in 0 .. ((i - length) - 1)
      BY <1>2, <1>7, <2>1
    <3> QED
      BY <3>1, <1>7, <2>1, FillersFresh
  <2>6. FreshFrom(i, val)
    <3>1. \A k \in length .. i : val[k] \in desc.rest
      BY <2>1, <2>3, <2>5, <1>2
    <3>2. \A k \in length .. i : val[k] \in FillerLists => val[k].n \in created .. (created' - 1)
      BY <2>1, <2>3, <2>5, <1>2
    <3>3. ASSUME NEW k \in length .. i, NEW m \in length .. i, val[k] \in FillerLists, val[k] = val[m]
          PROVE  k = m
      <4>1. k # i /\ m # i
        BY <3>3, <2>3
      <4>2. val[k].n = created + (k - length) /\ val[m].n = created + (m - length)
        BY <4>1, <3>3, <2>1, <2>5, <1>2
      <4> QED
        BY <4>2, <3>3, <2>1, <2>4, <1>2
    <3> QED
      BY <3>1, <3>2, <3>3 DEF FreshFrom
  <2>7. \A k \in length .. (i - 1) : gap[k] \in Cells /\ FromHeap(ReprPrefix(desc), gap[k]) = val[k]
    BY <2>1, <2>2, <2>5, <1>2 DEF GapFiller, FromHeap, Cells
  <2>8. FromHeap(ReprPrefix(desc), v) = val[i]
    BY <2>1, <1>2 DEF FromHeap
  <2>9. \A k \in length .. (i - 1) : val[k] \in Fillers
    BY <2>1, <2>5, <1>2
  <2>10. val[i] = v
    BY <2>1, <1>2
  <2>11. Extend(i, gap, v)
    BY <1>7
  <2> HIDE DEF gap, val
  <2>12. /\ ListInv' /\ length' = i + 1
         /\ \A k \in 0 .. i : Member(k)' = IF k < length THEN Member(k) ELSE val[k]
    BY <2>1, <2>3, <2>4, <2>6, <2>7, <2>8, <2>11, ExtendEffect
  <2>13. Grows(i, i + 1) /\ Member(i)' = v
    BY <2>1, <2>9, <2>10, <2>12, <1>2 DEF Grows
  <2> QED
    BY <2>1, <2>12, <2>13, <1>2, <1>7 DEF Stores, StoreDone, Allows
<1> QED
  BY <1>3, <1>4, <1>5, <1>6, <1>7, Zenon DEF GenericSet

\* _bal_list_int_array_set_int and its likes: the same on the specialised arrays.
LEMMA ArraySetEffect ==
    ASSUME ListInv, ReprPrefix(desc) # "generic", NEW i \in WordInts, NEW v \in ProgramValues,
           NEW exact \in BOOLEAN, ArraySet(ReprPrefix(desc), exact, i, v), desc' = desc
    PROVE  Stores(i, v, exact)
<1> DEFINE repr == ReprPrefix(desc)
<1>1. /\ i \in Int
      /\ InRange(i) <=> i \in 0 .. (length - 1)
      /\ OutOfReach(i) <=> i \notin 0 .. (ArrayLengthMax - 1)
  BY Ranges
<1>2. length \in Nat /\ length <= ArrayLengthMax /\ ArrayLengthMax \in Nat /\ desc \in ListTypes
  BY ArrayLengthMaxAssumption DEF ListInv, ArrayInv
<1>3. MemberTypeAt(desc, i) = desc.rest /\ v \in Values /\ v \notin FillerLists
  BY OwnTypes DEF ProgramValues
<1>4. Refuses(repr, v) <=> v \notin desc.rest
  BY <1>2, <1>3, RefusesOthers
<1>5. created' = created /\ created' \in created .. MaxLists
  BY CreatesBounded DEF ArraySet
<1>6. CASE Refuses(repr, v) /\ Fail(StorePanicCode(exact))
  <2>1. StorePanicCode(exact) \in StoreCodes \/ (StorePanicCode(exact) = "internal error" /\ exact)
    BY DEF StorePanicCode, StoreCodes
  <2> QED
    BY <2>1, <1>3, <1>4, <1>5, <1>6, StoreFailure, Zenon
<1>7. CASE ~ Refuses(repr, v) /\ InRange(i) /\ Replace(i, ToHeap(repr, v)) /\ result' = Ok(None)
  BY <1>1, <1>3, <1>4, <1>5, <1>7, StoreInRange
<1>8. CASE OutOfReach(i) /\ Fail(OutOfReachCode(i))
  <2>1. OutOfReachCode(i) \in StoreCodes
    BY DEF OutOfReachCode, StoreCodes
  <2> QED
    BY <2>1, <1>1, <1>5, <1>8, StoreFailure, Zenon
<1>9. CASE /\ ~ Refuses(repr, v) /\ ~ InRange(i) /\ ~ OutOfReach(i)
           /\ Extend(i, [j \in length .. (i - 1) |-> Zeroes], ToHeap(repr, v))
           /\ result' = Ok(None)
  <2> DEFINE gap == [j \in length .. (i - 1) |-> Zeroes]
             cell == ToHeap(repr, v)
             val == [k \in length .. i |-> IF k = i THEN v ELSE desc.value]
  <2>1. i \in length .. (ArrayLengthMax - 1)
    BY <1>1, <1>2, <1>9
  <2>2. v \in desc.rest
    BY <1>4, <1>9
  <2>3. /\ Zeroes \in Cells /\ FromHeap(repr, Zeroes) = desc.value
        /\ desc.filler = "copy" /\ desc.value \in desc.rest /\ desc.value \notin FillerLists
    BY <1>2, ZeroIsFiller
  <2>4. cell \in Cells /\ FromHeap(repr, cell) = v
    BY <1>2, <1>3, <2>2, RoundTrip
  <2>5. val[i] = v /\ \A k \in length .. (i - 1) : val[k] = desc.value
    BY <2>1, <1>2
  <2>6. \A k \in length .. (i - 1) : gap[k] = Zeroes
    OBVIOUS
  <2>7. Extend(i, gap, cell)
    BY <1>9
  <2> HIDE DEF gap, val, cell, repr
  <2>8. FreshFrom(i, val)
    <3>1. \A k \in length .. i : val[k] \in desc.rest /\ val[k] \notin FillerLists
      BY <2>1, <2>2, <2>3, <2>5, <1>2, <1>3
    <3> QED
      BY <3>1 DEF FreshFrom
  <2>9. /\ ListInv' /\ length' = i + 1
        /\ \A k \in 0 .. i : Member(k)' = IF k < length THEN Member(k) ELSE val[k]
    <3>1. \A k \in length .. (i - 1) : gap[k] \in Cells /\ FromHeap(ReprPrefix(desc), gap[k]) = val[k]
      BY <2>3, <2>5, <2>6 DEF repr
    <3>2. FromHeap(ReprPrefix(desc), cell) = val[i]
      BY <2>4, <2>5 DEF repr
    <3> QED
      BY <3>1, <3>2, <2>1, <2>4, <2>7, <2>8, <1>5, ExtendEffect
  <2>10. Grows(i, i + 1) /\ Member(i)' = v
    BY <2>1, <2>3, <2>5, <2>9, <1>2 DEF Grows, Fillers
  <2> QED
    BY <2>1, <2>2, <2>3, <2>9, <2>10, <1>2, <1>3, <1>9 DEF Stores, StoreDone
<1> QED
  BY <1>6, <1>7, <1>8, <1>9 DEF ArraySet

\* The set function of the descriptor.
LEMMA DescSetEffect ==
    ASSUME ListInv, NEW i \in WordInts, NEW v \in ProgramValues,
           NEW exact \in BOOLEAN, NEW inexact \in BOOLEAN,
           DescSet(exact, inexact, i, v), desc' = desc
    PROVE  \/ Stores(i, v, exact /\ ~ inexact)
           \/ ReprPrefix(desc) # "generic" /\ Stores(i, v, exact)
BY GenericSetEffect, ArraySetEffect DEF DescSet

\* _bal_list_filling_get on a generic list: the member is there afterwards.
LEMMA FillingGetEffect ==
    ASSUME ListInv, ReprPrefix(desc) = "generic", NEW i \in WordInts, FillingGetMember(i), desc' = desc
    PROVE  /\ ListInv'
           /\ \/ /\ i \in 0 .. (length - 1) /\ result' = Ok(Member(i))
                 /\ UNCHANGED <<members, length, capacity>>
              \/ FillDone(i)
              \/ /\ i \notin 0 .. (length - 1)
                 /\ i \notin 0 .. (ArrayLengthMax - 1) \/ desc.filler = "none"
                 /\ \E code \in StoreCodes \ {"list store"} : Fail(code)
<1>1. /\ i \in Int
      /\ InRange(i) <=> i \in 0 .. (length - 1)
  BY Ranges
<1>2. /\ length \in Nat /\ length <= ArrayLengthMax /\ ArrayLengthMax \in Nat /\ desc \in ListTypes
      /\ capacity \in Int /\ capacity <= ArrayLengthMax
  BY ArrayLengthMaxAssumption DEF ListInv, ArrayInv
<1>3. CASE /\ InRange(i) /\ result' = Ok(members[i])
           /\ UNCHANGED <<members, length, capacity, created>>
  <2>1. Member(i) = members[i]
    BY DEF Member, FromHeap
  <2>2. ListInv'
    BY <1>3, CreatesBounded, KeptUnchanged
  <2> QED
    BY <2>1, <2>2, <1>1, <1>3, Zenon
<1>4. ASSUME NEW code \in StoreCodes \ {"list store"}, Fail(code), created' \in created .. MaxLists,
             i \notin 0 .. (length - 1),
             i \notin 0 .. (ArrayLengthMax - 1) \/ desc.filler = "none"
      PROVE  /\ ListInv'
             /\ i \notin 0 .. (length - 1)
             /\ i \notin 0 .. (ArrayLengthMax - 1) \/ desc.filler = "none"
             /\ \E c \in StoreCodes \ {"list store"} : Fail(c)
  BY <1>4, KeptUnchanged, Zenon DEF Fail
<1>5. /\ i < 0 => i \notin 0 .. (length - 1) /\ i \notin 0 .. (ArrayLengthMax - 1)
      /\ i >= length => i \notin 0 .. (length - 1)
      /\ i >= ArrayLengthMax => i \notin 0 .. (ArrayLengthMax - 1)
  BY <1>1, <1>2
<1>6. CASE i < 0 /\ Fail("index out of bounds") /\ created' = created
  <2>1. "index out of bounds" \in StoreCodes \ {"list store"}
    BY DEF StoreCodes
  <2>2. i \notin 0 .. (length - 1) /\ i \notin 0 .. (ArrayLengthMax - 1)
    BY <1>6, <1>5, Zenon
  <2>3. created' \in created .. MaxLists
    BY <1>6, CreatesBounded, Zenon
  <2> QED
    BY <2>1, <2>2, <2>3, <1>4, <1>6, Zenon
<1>7. CASE i >= length /\ desc.filler = "none" /\ Fail("no filler") /\ created' = created
  <2>1. "no filler" \in StoreCodes \ {"list store"}
    BY DEF StoreCodes
  <2>2. i \notin 0 .. (length - 1)
    BY <1>7, <1>5, Zenon
  <2>3. created' \in created .. MaxLists
    BY <1>7, CreatesBounded, Zenon
  <2> QED
    BY <2>1, <2>2, <2>3, <1>4, <1>7, Zenon
<1>8. CASE i >= length /\ i >= ArrayLengthMax /\ Fail("list too long") /\ Creates(1)
  <2>1. "list too long" \in StoreCodes \ {"list store"}
    BY DEF StoreCodes
  <2>2. i \notin 0 .. (length - 1) /\ i \notin 0 .. (ArrayLengthMax - 1)
    BY <1>8, <1>5, Zenon
  <2>3. created' \in created .. MaxLists
    BY <1>8, CreatesBounded, Zenon
  <2> QED
    BY <2>1, <2>2, <2>3, <1>4, <1>8, Zenon
<1>9. CASE /\ i >= length /\ desc.filler # "none"
           /\ i < capacity \/ i < ArrayLengthMax
           /\ Extend(i, [j \in length .. (i - 1) |-> GapFiller(1 + j - length)], Filler(0))
           /\ result' = Ok(Filler(0)) /\ Creates(i - length + 1)
  <2> DEFINE gap == [j \in length .. (i - 1) |-> GapFiller(1 + j - length)]
             nth(k) == IF k = i THEN 0 ELSE 1 + k - length
             val == [k \in length .. i |-> Filler(nth(k))]
  <2>1. i \in length .. (ArrayLengthMax - 1) /\ i - length + 1 \in Nat
    BY <1>1, <1>2, <1>9
  <2>2. created' \in created .. MaxLists /\ created \in Nat /\ desc.rest \subseteq Values
    BY <2>1, <1>2, <1>9, CreatesBounded, TypeFacts DEF ListInv, ArrayInv
  <2>3. \A k \in length .. i : nth(k) \in 0 .. ((i - length + 1) - 1)
    BY <2>1, <1>2
  <2>4. \A k, m \in length .. i : nth(k) = nth(m) => k = m
    BY <2>1, <1>2
  <2>5. nth(i) = 0 /\ \A k \in length .. (i - 1) : nth(k) = 1 + k - length
    BY <2>1, <1>2
  <2> HIDE DEF nth
  <2>6. ASSUME NEW k \in length .. i
        PROVE  /\ val[k] \in desc.rest /\ val[k] \in Fillers
               /\ val[k] \in FillerLists =>
                    val[k].n = created + nth(k) /\ val[k].n \in created .. (created' - 1)
    BY <1>9, <2>1, <2>3, FillersFresh
  <2>7. val[i] = Filler(0) /\ \A k \in length .. (i - 1) : val[k] = gap[k]
    BY <2>1, <2>5, <1>2 DEF GapFiller
  <2>8. Extend(i, gap, Filler(0))
    BY <1>9
  <2> HIDE DEF gap, val
  <2>9. FreshFrom(i, val)
    <3>1. ASSUME NEW k \in length .. i, NEW m \in length .. i, val[k] \in FillerLists, val[k] = val[m]
          PROVE  k = m
      <4>1. val[k].n = created + nth(k) /\ val[k].n = created + nth(m)
        BY <3>1, <2>6
      <4>2. nth(k) \in Int /\ nth(m) \in Int
        BY <2>1, <2>3, <1>2
      <4> QED
        BY <4>1, <4>2, <2>2, <2>4
    <3> QED
      BY <3>1, <2>6 DEF FreshFrom
  <2>10. \A c : FromHeap(ReprPrefix(desc), c) = c
    BY DEF FromHeap
  <2>11. \A k \in length .. i : val[k] \in Cells
    BY <2>2, <2>6 DEF Cells
  <2>12. i \in length .. i /\ \A k \in length .. (i - 1) : k \in length .. i
    BY <2>1, <1>2
  <2>13. /\ \A k \in length .. (i - 1) : gap[k] \in Cells /\ FromHeap(ReprPrefix(desc), gap[k]) = val[k]
         /\ Filler(0) \in Cells /\ FromHeap(ReprPrefix(desc), Filler(0)) = val[i]
    BY <2>7, <2>10, <2>11, <2>12
  <2>14. /\ ListInv' /\ length' = i + 1
         /\ \A k \in 0 .. i : Member(k)' = IF k < length THEN Member(k) ELSE val[k]
    BY <2>1, <2>2, <2>8, <2>9, <2>13, ExtendEffect
  <2>15. Grows(i, i + 1)
    BY <2>1, <2>6, <2>14, <1>2 DEF Grows
  <2>16. Member(i)' = val[i]
    BY <2>1, <2>14, <1>2
  <2> QED
    BY <2>1, <2>6, <2>7, <2>12, <2>14, <2>15, <2>16, <1>9, Zenon DEF FillDone
<1> QED
  BY <1>3, <1>6, <1>7, <1>8, <1>9, Zenon DEF FillingGetMember

-----------------------------------------------------------------------------
(* The emitted code.                                                        *)

\* No list of the program is closed: every type has a rest type with a value.  Without it
\* an exact store may fail (isListSetAlwaysInexact skips an empty rest type).
NoClosedList == \A t \in ListTypes : t.rest # {}

\* For an array type the static member type is the rest type, whatever the index.
LEMMA StaticTypeOfArray ==
    ASSUME NEW t \in ListTypes, t.fixedLength = 0, NEW const \in BOOLEAN, NEW i \in WordInts
    PROVE  StaticMemberType(t, TRUE, const, i) = t.rest
<1>1. Len(t.initial) = 0
  BY TypeFacts
<1>2. MemberTypeAt(t, i) = t.rest
  BY TypeAtIndex, ArrayLengthMaxAssumption
<1>3. AllMemberTypes(t) = {t.rest} \ {{}}
  BY <1>1 DEF AllMemberTypes
<1>4. UNION AllMemberTypes(t) = t.rest
  BY <1>3
<1>5. ~ (t.fixedLength > 0)
  OBVIOUS
<1>6. CASE const = TRUE
  BY <1>2, <1>5, <1>6 DEF StaticMemberType
<1>7. CASE const = FALSE
  BY <1>4, <1>7 DEF StaticMemberType
<1> QED
  BY <1>6, <1>7, Zenon

\* A store on which the compiler relies is allowed by the inherent type.
LEMMA ReliedAllowed ==
    ASSUME ListInv, NEW const \in BOOLEAN, NEW i \in WordInts, NEW type, NEW v \in type,
           type \subseteq StaticMemberType(desc, TRUE, const, i),
           \/ ReprPrefix(desc) # "generic"
           \/ NoClosedList /\ ~ SetAlwaysInexact(desc, TRUE, const, type)
    PROVE  v \in MemberTypeAt(desc, i)
<1>1. desc \in ListTypes /\ desc.fixedLength \in Nat /\ desc.fixedLength <= ArrayLengthMax
  <2>1. desc \in ListTypes /\ length <= ArrayLengthMax /\ length \in Nat /\ ArrayLengthMax \in Nat
    BY ArrayLengthMaxAssumption DEF ListInv, ArrayInv
  <2>2. desc.fixedLength <= length /\ desc.fixedLength \in Nat
    BY <2>1, TypeFacts DEF ListInv, MembersTyped
  <2> QED
    BY <2>1, <2>2
<1>2. CASE ReprPrefix(desc) # "generic"
  <2>1. desc.fixedLength = 0
    BY <1>1, <1>2, Representations
  <2> QED
    BY <2>1, <1>1, <1>2, StaticTypeOfArray, OwnTypes, Zenon
<1>3. CASE const = TRUE
  BY <1>3 DEF StaticMemberType
<1>4. CASE NoClosedList /\ ~ SetAlwaysInexact(desc, TRUE, const, type) /\ const = FALSE
  <2>1. \A ty \in AllMemberTypes(desc) : type \subseteq ty
    BY <1>4 DEF SetAlwaysInexact
  <2>2. desc.rest \in AllMemberTypes(desc)
    BY <1>1, <1>4 DEF AllMemberTypes, NoClosedList
  <2>3. \A ty \in {desc.initial[k] : k \in 1 .. Len(desc.initial)} : ty \in AllMemberTypes(desc)
    BY DEF AllMemberTypes
  <2>4. CASE i \in 0 .. (desc.fixedLength - 1)
    BY <2>1, <2>3, <2>4, <1>1, TypeAtIndex, Zenon
  <2>5. CASE i \notin 0 .. (desc.fixedLength - 1)
    BY <2>1, <2>2, <2>5, OwnTypes
  <2> QED
    BY <2>4, <2>5
<1> QED
  BY <1>2, <1>3, <1>4, Zenon

\* A store that the type allows does not fail with an internal error.
LEMMA AllowedNotRelied ==
    ASSUME NEW i, NEW v, NEW relied \in BOOLEAN, Stores(i, v, relied),
           relied => v \in MemberTypeAt(desc, i)
    PROVE  Stores(i, v, FALSE)
BY Zenon DEF Stores, StoreFailed

\* The same on the code of buildListSet.
LEMMA ListSetEffect ==
    ASSUME ListInv, NEW t \in ListTypes, NEW atomic \in BOOLEAN, NEW exact \in BOOLEAN,
           NEW const \in BOOLEAN, NEW i \in Indices, NEW type, NEW v \in type \cap ProgramValues,
           ListSet(t, atomic, exact, const, i, type, v)
    PROVE  /\ \E relied \in BOOLEAN : Stores(i, v, relied)
           /\ NoClosedList => Stores(i, v, FALSE)
<1> DEFINE inexact == SetAlwaysInexact(t, atomic, const, type)
<1>1. /\ type \subseteq StaticMemberType(t, atomic, const, i) /\ v \in type /\ v \in ProgramValues
      /\ exact => atomic = TRUE /\ t = desc
      /\ desc' = desc
  BY DEF ListSet, Register
<1>2. i \in WordInts /\ i \in Int
  BY UnsignedIndex, WordAssumption
<1>3. inexact \in BOOLEAN
  BY DEF SetAlwaysInexact
<1>4. CASE /\ StoresDirectly(t, atomic, exact, i)
           /\ Replace(i, ToHeap(ReprPrefix(t), v)) /\ result' = Ok(None) /\ created' = created
  <2>1. atomic = TRUE /\ t = desc /\ ReprPrefix(desc) # "generic" /\ i \in 0 .. (length - 1)
    BY <1>1, <1>2, <1>4, Ranges DEF StoresDirectly, Specialized
  <2>2. v \in MemberTypeAt(desc, i)
    BY <2>1, <1>1, <1>2, ReliedAllowed, Zenon
  <2>3. Stores(i, v, FALSE)
    BY <2>1, <2>2, <1>1, <1>4, StoreInRange, Zenon
  <2> QED
    BY <2>3, Zenon
<1>5. CASE DescSet(exact, inexact, i, v)
  <2> HIDE DEF inexact
  <2>1. \/ Stores(i, v, exact /\ ~ inexact)
        \/ ReprPrefix(desc) # "generic" /\ Stores(i, v, exact)
    BY <1>1, <1>2, <1>3, <1>5, DescSetEffect
  <2>2. \E relied \in BOOLEAN : Stores(i, v, relied)
    BY <2>1, Zenon
  <2>3. CASE Stores(i, v, exact /\ ~ inexact)
    <3>1. ASSUME NoClosedList, exact, ~ inexact PROVE v \in MemberTypeAt(desc, i)
      <4>1. t = desc /\ atomic = TRUE /\ ~ SetAlwaysInexact(desc, TRUE, const, type)
        BY <3>1, <1>1, Zenon DEF inexact
      <4> QED
        BY <3>1, <4>1, <1>1, <1>2, ReliedAllowed, Zenon
    <3>2. NoClosedList => Stores(i, v, FALSE)
      BY <2>3, <3>1, AllowedNotRelied, Zenon
    <3> QED
      BY <2>2, <3>2, Zenon
  <2>4. CASE ReprPrefix(desc) # "generic" /\ Stores(i, v, exact)
    <3>1. exact => v \in MemberTypeAt(desc, i)
      BY <2>4, <1>1, <1>2, ReliedAllowed, Zenon
    <3>2. Stores(i, v, FALSE)
      BY <2>4, <3>1, AllowedNotRelied, Zenon
    <3> QED
      BY <2>2, <3>2, Zenon
  <2> QED
    BY <2>1, <2>3, <2>4, Zenon
<1> QED
  BY <1>4, <1>5, Zenon DEF ListSet

\* The same on push, which stores at the index of the length: the exact bit is kept
\* only on an array, whose members have one type.
LEMMA PushEffect ==
    ASSUME ListInv, NEW t \in ListTypes, NEW atomic \in BOOLEAN, NEW exact \in BOOLEAN,
           NEW v \in ProgramValues, Push(t, atomic, exact, v)
    PROVE  Stores(length, v, FALSE)
<1> DEFINE kept == exact /\ t.fixedLength = 0
<1>1. length \in 0 .. ArrayLengthMax /\ length \in WordInts
  BY UnsignedIndex, ArrayLengthMaxAssumption DEF ListInv, ArrayInv
<1>2. /\ desc' = desc /\ DescSet(kept, FALSE, length, v)
      /\ Register(t, atomic, exact) /\ v \in StaticMemberType(t, atomic, FALSE, length)
  BY Zenon DEF Push
<1>3. kept \in BOOLEAN
  OBVIOUS
<1>4. kept => v \in MemberTypeAt(desc, length)
  <2> SUFFICES ASSUME exact, t.fixedLength = 0 PROVE v \in MemberTypeAt(desc, length)
    OBVIOUS
  <2>1. atomic = TRUE /\ t = desc
    BY <1>2 DEF Register
  <2>2. v \in desc.rest
    BY <2>1, <1>1, <1>2, StaticTypeOfArray
  <2>3. length \notin 0 .. (desc.fixedLength - 1)
    BY <2>1, <1>1
  <2> QED
    BY <2>1, <2>2, <2>3, <1>1, OwnTypes
<1> HIDE DEF kept
<1>5. \/ Stores(length, v, kept /\ ~ FALSE)
      \/ ReprPrefix(desc) # "generic" /\ Stores(length, v, kept)
  BY <1>1, <1>2, <1>3, DescSetEffect, Zenon
<1>6. Stores(length, v, kept)
  BY <1>3, <1>5
<1> QED
  BY <1>3, <1>4, <1>6, AllowedNotRelied, Zenon

\* A read gives the member, or panics outside of the list, and changes nothing.
Reads(i) ==
    /\ ListInv' /\ UNCHANGED <<desc, members, length, capacity>>
    /\ result' = IF i \in 0 .. (length - 1) THEN Ok(Member(i)) ELSE Panics("index out of bounds")

\* buildListGet, directly or through the descriptor.
LEMMA ListGetEffect ==
    ASSUME ListInv, NEW t \in ListTypes, NEW atomic \in BOOLEAN, NEW exact \in BOOLEAN,
           NEW const \in BOOLEAN, NEW i \in Indices, ListGet(t, atomic, exact, const, i)
    PROVE  Reads(i)
<1>1. i \in WordInts
  BY UnsignedIndex
<1>2. InBounds(i) <=> i \in 0 .. (length - 1)
  BY <1>1, Ranges DEF InBounds, InRange
<1>3. exact => t = desc
  BY Zenon DEF ListGet, Register
<1>4. UNCHANGED <<desc, members, length, capacity, created>>
  BY Zenon DEF ListGet
<1>5. ListInv'
  BY <1>4, CreatesBounded, KeptUnchanged
<1>6. result' = IF ~ InBounds(i) THEN Panics("index out of bounds") ELSE Ok(Member(i))
  BY <1>3, Zenon DEF ListGet, Member
<1> QED
  BY <1>2, <1>4, <1>5, <1>6, Zenon DEF Reads

\* What a read for the container of a member does.
Fills(i) ==
    /\ ListInv' /\ desc' = desc
    /\ \/ /\ i \in 0 .. (length - 1) /\ result' = Ok(Member(i))
          /\ UNCHANGED <<members, length, capacity>>
       \/ FillDone(i)
       \/ /\ i \notin 0 .. (length - 1)
          /\ i \notin 0 .. (ArrayLengthMax - 1) \/ desc.filler = "none"
          /\ \E code \in StoreCodes \ {"list store"} : Fail(code)

\* A list whose static member type has only lists is a generic one.
LEMMA ListFillingGetEffect ==
    ASSUME ListInv, NEW t \in ListTypes, NEW const \in BOOLEAN, NEW i \in Indices,
           ListFillingGet(t, const, i)
    PROVE  Fills(i)
<1>1. i \in WordInts
  BY UnsignedIndex
<1>2. /\ Subtype(desc, t) /\ FillingGetMember(i) /\ desc' = desc
      /\ \A v \in StaticMemberType(t, TRUE, const, i) : v.tag = "list"
  BY Zenon DEF ListFillingGet, Register
<1>3. ReprPrefix(desc) = "generic"
  <2> SUFFICES ASSUME ReprPrefix(desc) # "generic" PROVE FALSE
    OBVIOUS
  <2>1. desc \in ListTypes
    BY DEF ListInv, ArrayInv
  <2>2. desc.fixedLength = 0 /\ desc.rest \in {Ints, Floats, Bytes}
    BY <2>1, Representations
  <2>3. t.fixedLength = 0 /\ desc.rest \subseteq t.rest
    BY <2>2, <1>2, TypeFacts DEF Subtype
  <2>4. \A v \in desc.rest : v.tag = "list"
    BY <2>3, <1>1, <1>2, StaticTypeOfArray, Zenon
  <2>5. [tag |-> "int", n |-> 0] \in desc.rest \/ [tag |-> "float", n |-> 0] \in desc.rest
    BY <2>2, ValueShape
  <2> QED
    BY <2>4, <2>5
<1> QED
  BY <1>1, <1>2, <1>3, FillingGetEffect, Zenon DEF Fills

\* Every step is one of these.
LEMMA StepEffect ==
    ASSUME ListInv, Next
    PROVE  \/ \E i \in Indices : Reads(i) \/ Fills(i)
           \/ \E i \in Indices \cup {length}, v \in ProgramValues, relied \in BOOLEAN :
                Stores(i, v, relied) /\ (NoClosedList => Stores(i, v, FALSE))
<1> DEFINE Good ==
        \/ \E i \in Indices : Reads(i) \/ Fills(i)
        \/ \E i \in Indices \cup {length}, v \in ProgramValues, relied \in BOOLEAN :
            Stores(i, v, relied) /\ (NoClosedList => Stores(i, v, FALSE))
<1> SUFFICES Good
  BY Zenon
<1>1. ASSUME NEW exact \in BOOLEAN, NEW t \in ListTypes, NEW atomic \in BOOLEAN,
             NEW v \in ProgramValues, Push(t, atomic, exact, v)
      PROVE  Good
  BY <1>1, PushEffect, Zenon
<1>2. ASSUME NEW exact \in BOOLEAN, NEW t \in ListTypes, NEW atomic \in BOOLEAN,
             NEW const \in BOOLEAN, NEW i \in Indices, ListGet(t, atomic, exact, const, i)
      PROVE  Good
  BY <1>2, ListGetEffect, Zenon
<1>3. ASSUME NEW t \in ListTypes, NEW const \in BOOLEAN, NEW i \in Indices, ListFillingGet(t, const, i)
      PROVE  Good
  BY <1>3, ListFillingGetEffect, Zenon
<1>4. ASSUME NEW exact \in BOOLEAN, NEW t \in ListTypes, NEW atomic \in BOOLEAN,
             NEW const \in BOOLEAN, NEW i \in Indices, NEW type \in MemberTypes,
             NEW v \in type \cap ProgramValues, ListSet(t, atomic, exact, const, i, type, v)
      PROVE  Good
  <2>1. (\E relied \in BOOLEAN : Stores(i, v, relied)) /\ (NoClosedList => Stores(i, v, FALSE))
    BY <1>4, ListSetEffect, ZenonT(60)
  <2>2. PICK relied \in BOOLEAN : Stores(i, v, relied) /\ (NoClosedList => Stores(i, v, FALSE))
    BY <2>1, Zenon
  <2>3. i \in Indices \cup {length} /\ v \in ProgramValues
    OBVIOUS
  <2> QED
    BY <2>2, <2>3, Zenon
<1> HIDE DEF Good
<1> QED
  BY <1>1, <1>2, <1>3, <1>4 DEF Next

\* A list as the constructor leaves it.
LEMMA InitEffect ==
    ASSUME Init
    PROVE  ListInv /\ length <= InitialCapacity /\ result = Ok(None)
<1>1. PICK n \in 0 .. InitialCapacity :
        \E vs \in [0 .. (n - 1) -> ProgramValues] :
            /\ n >= desc.fixedLength
            /\ \A i \in 0 .. (n - 1) : vs[i] \in MemberTypeAt(desc, i)
            /\ members = [i \in 0 .. (n - 1) |-> ToHeap(ReprPrefix(desc), vs[i])]
            /\ length = n
            /\ capacity = n
  BY DEF Init
<1>2. PICK vs \in [0 .. (n - 1) -> ProgramValues] :
        /\ n >= desc.fixedLength
        /\ \A i \in 0 .. (n - 1) : vs[i] \in MemberTypeAt(desc, i)
        /\ members = [i \in 0 .. (n - 1) |-> ToHeap(ReprPrefix(desc), vs[i])]
        /\ length = n
        /\ capacity = n
  BY <1>1
<1>3. /\ desc \in ListTypes /\ created = 0 /\ result = Ok(None) /\ n \in Nat
      /\ InitialCapacity \in Nat /\ ArrayLengthMax \in Nat /\ n <= ArrayLengthMax /\ MaxLists \in Nat
  BY InitialCapacityAssumption, ArrayLengthMaxAssumption, WordAssumption DEF Init
<1>4. desc.fixedLength <= ArrayLengthMax /\ desc.fixedLength \in Nat
  BY <1>2, <1>3, TypeFacts
<1>5. ASSUME NEW i \in 0 .. (n - 1)
      PROVE  /\ members[i] \in Cells /\ Member(i) = vs[i] /\ vs[i] \notin FillerLists
             /\ vs[i] \in MemberTypeAt(desc, i)
  <2>1. vs[i] \in Values /\ vs[i] \notin FillerLists /\ vs[i] \in MemberTypeAt(desc, i)
    BY <1>2 DEF ProgramValues
  <2>2. i \in WordInts
    BY <1>3, UnsignedIndex
  <2>3. ReprPrefix(desc) # "generic" => MemberTypeAt(desc, i) = desc.rest
    BY <2>2, <1>3, <1>4, TypeAtIndex, Representations
  <2>4. members[i] = ToHeap(ReprPrefix(desc), vs[i])
    BY <1>2
  <2> QED
    BY <2>1, <2>3, <2>4, <1>3, RoundTrip DEF Member
<1>6. members \in [0 .. (capacity - 1) -> Cells]
  BY <1>2, <1>5
<1>7. ArrayInv
  BY <1>2, <1>3, <1>6 DEF ArrayInv
<1>8. MembersTyped
  BY <1>2, <1>5 DEF MembersTyped
<1>9. FillersNotShared /\ FillersKnown
  BY <1>2, <1>5 DEF FillersNotShared, FillersKnown
<1> QED
  BY <1>2, <1>3, <1>7, <1>8, <1>9 DEF ListInv

\* The invariant is inductive, and so is the absence of internal errors.
LEMMA ListInvariance ==
    /\ Spec => []ListInv
    /\ NoClosedList => (Spec => []ExactStoresSucceed)
<1>1. Init => ListInv
  BY InitEffect
<1>2. ListInv /\ [Next]_vars => ListInv'
  <2> SUFFICES ASSUME ListInv, [Next]_vars PROVE ListInv'
    OBVIOUS
  <2>1. CASE UNCHANGED vars
    <3>1. UNCHANGED <<desc, members, length, capacity>> /\ created' = created
      BY <2>1 DEF vars
    <3> QED
      BY <3>1, CreatesBounded, KeptUnchanged
  <2>2. CASE Next
    BY <2>2, StepEffect, Zenon DEF Reads, Fills, Stores
  <2> QED
    BY <2>1, <2>2
<1>3. Init => ExactStoresSucceed
  <2>1. Ok(None).panic # "internal error"
    BY DEF Ok
  <2> HIDE DEF Ok
  <2> QED
    BY <2>1, InitEffect, Zenon DEF ExactStoresSucceed
<1>4. ASSUME NoClosedList, ListInv, ExactStoresSucceed, [Next]_vars PROVE ExactStoresSucceed'
  <2>1. CASE UNCHANGED vars
    BY <2>1, <1>4, Zenon DEF vars, ExactStoresSucceed
  <2>2. \A x : Ok(x).panic # "internal error"
    BY DEF Ok
  <2>3. \A c \in StoreCodes \cup {"index out of bounds"} : Panics(c).panic # "internal error"
    BY Zenon DEF Panics, StoreCodes
  <2>4. \A x : result' = Ok(x) => ExactStoresSucceed'
    BY <2>2, Zenon DEF ExactStoresSucceed
  <2>5. \A c \in StoreCodes \cup {"index out of bounds"} : result' = Panics(c) => ExactStoresSucceed'
    BY <2>3, Zenon DEF ExactStoresSucceed
  <2>6. ASSUME NEW i, Reads(i) PROVE ExactStoresSucceed'
    BY <2>6, <2>4, <2>5, Zenon DEF Reads
  <2>7. ASSUME NEW i, Fills(i) PROVE ExactStoresSucceed'
    BY <2>7, <2>4, <2>5, Zenon DEF Fills, FillDone, Fail
  <2>8. ASSUME NEW i, NEW v, Stores(i, v, FALSE) PROVE ExactStoresSucceed'
    BY <2>8, <2>4, <2>5, Zenon DEF Stores, StoreDone, StoreFailed
  <2>9. CASE Next
    BY <2>6, <2>7, <2>8, <2>9, <1>4, StepEffect, Zenon
  <2> QED
    BY <2>1, <2>9, <1>4
<1>5. Spec => []ListInv
  BY <1>1, <1>2, PTL DEF Spec
<1>6. ASSUME NoClosedList PROVE Spec => []ExactStoresSucceed
  <2>1. ListInv /\ ExactStoresSucceed /\ [Next]_vars => ExactStoresSucceed'
    BY <1>4, <1>6
  <2> QED
    BY <1>3, <1>5, <2>1, PTL DEF Spec
<1> QED
  BY <1>5, <1>6

\* Whatever static types the stores were compiled for, and through both paths, every
\* member of a list belongs to its inherent type: no store puts a value of another type
\* there, and growing shows no uninitialised memory (list.c, lines 129 to 145).
THEOREM MembersAlwaysTyped == Spec => []MembersTyped
<1>1. ListInv => MembersTyped
  BY DEF ListInv
<1> QED
  BY <1>1, ListInvariance, PTL

\* No two members of a list are the same filler with an identity, however the list grew
\* (list.c, lines 136 to 141 and 177 to 184).
THEOREM FillersNeverShared == Spec => []FillersNotShared
<1>1. ListInv => FillersNotShared
  BY DEF ListInv
<1> QED
  BY <1>1, ListInvariance, PTL

\* A store for which the compiler relies on the exact bit succeeds, provided that no list
\* type of the program is closed (the comment on storePanicCode in list.c).
THEOREM ExactStoresAlwaysSucceed == NoClosedList => (Spec => []ExactStoresSucceed)
BY ListInvariance

-----------------------------------------------------------------------------
(* The sequence that the list implements.                                   *)

Content == [k \in 1 .. length |-> Member(k - 1)]

\* The content as a sequence.
LEMMA ContentView ==
    ASSUME ListInv
    PROVE  /\ Len(Content) = length
           /\ \A i \in 0 .. (length - 1) : Content[i + 1] = Member(i)
           /\ Content \in [1 .. length -> Values]
<1>1. length \in Nat /\ length <= ArrayLengthMax /\ ArrayLengthMax \in Nat
  BY ArrayLengthMaxAssumption DEF ListInv, ArrayInv
<1>2. \A i \in 0 .. (length - 1) : Member(i) \in Values
  <2> SUFFICES ASSUME NEW i \in 0 .. (length - 1) PROVE Member(i) \in Values
    OBVIOUS
  <2>1. i \in WordInts
    BY <1>1, UnsignedIndex
  <2> QED
    BY <2>1, OwnTypes DEF ListInv, MembersTyped
<1>3. /\ \A k \in 1 .. length : k - 1 \in 0 .. (length - 1)
      /\ \A i \in 0 .. (length - 1) : i + 1 \in 1 .. length /\ (i + 1) - 1 = i
  BY <1>1
<1>4. Content \in [1 .. length -> Values] /\ \A i \in 0 .. (length - 1) : Content[i + 1] = Member(i)
  BY <1>2, <1>3 DEF Content
<1>5. Len(Content) = length
  BY <1>1, <1>4
<1> QED
  BY <1>4, <1>5

\* The length of a sequence given by its members.
LEMMA LengthOf ==
    ASSUME NEW n \in Nat, NEW c, c = [k \in 1 .. n |-> c[k]]
    PROVE  Len(c) = n
<1>1. c \in [1 .. n -> {c[k] : k \in 1 .. n}]
  OBVIOUS
<1> QED
  BY <1>1

\* The content after a step.
LEMMA ContentNext ==
    ASSUME length' \in Nat
    PROVE  /\ Len(Content') = length'
           /\ \A i \in 0 .. (length' - 1) : Content'[i + 1] = Member(i)'
           /\ UNCHANGED <<desc, members, length>> => Content' = Content
<1>1. Content' = [k \in 1 .. length' |-> Content'[k]]
  BY DEF Content
<1>2. Len(Content') = length'
  BY <1>1, LengthOf
<1>3. \A n \in Nat : \A i \in 0 .. (n - 1) : i + 1 \in 1 .. n /\ (i + 1) - 1 = i
  OBVIOUS
<1>4. \A i \in 0 .. (length' - 1) : Content'[i + 1] = Member(i)'
  BY <1>3, Zenon DEF Content, Member
<1>5. UNCHANGED <<desc, members, length>> => Content' = Content
  BY DEF Content, Member
<1> QED
  BY <1>2, <1>4, <1>5, Zenon

\* A filler with an identity occurs once in the content after a step.
LEMMA OwnIdentities ==
    ASSUME FillersNotShared', length' \in Nat, desc' = desc,
           NEW j \in 0 .. (length' - 1), Member(j)' \in Fillers
    PROVE  desc.filler = "each" => \A k \in 0 .. (length' - 1) : Content'[k + 1] = Content'[j + 1] => k = j
<1>1. \A k \in 0 .. (length' - 1) : Content'[k + 1] = Member(k)'
  BY ContentNext, Zenon
<1>2. ASSUME desc.filler = "each", NEW k \in 0 .. (length' - 1), Member(k)' = Member(j)' PROVE k = j
  <2>1. Member(k)' \in FillerLists
    BY <1>2 DEF Fillers
  <2> QED
    BY <2>1, <1>2, Zenon DEF FillersNotShared
<1> QED
  BY <1>1, <1>2, Zenon

\* A store that is done or fails with cause is a store of the sequence.
LEMMA StoreAbstract ==
    ASSUME ListInv, NEW i \in WordInts, NEW v \in Values, Stores(i, v, FALSE)
    PROVE  AsSequence!Store(i, v)
<1>1. /\ i \in Int /\ length \in Nat /\ length <= ArrayLengthMax /\ ArrayLengthMax \in Nat
      /\ desc \in ListTypes /\ desc.fixedLength <= length /\ desc.fixedLength \in Nat /\ desc' = desc
  BY Ranges, ArrayLengthMaxAssumption, TypeFacts DEF ListInv, ArrayInv, MembersTyped, Stores
<1>2. Len(Content) = length /\ \A k \in 0 .. (length - 1) : Content[k + 1] = Member(k)
  BY ContentView
<1>3. MemberTypeAt(desc, i) = IF i \in 0 .. (desc.fixedLength - 1)
                              THEN desc.initial[IF i < Len(desc.initial) THEN i + 1 ELSE Len(desc.initial)]
                              ELSE desc.rest
  BY <1>1, TypeAtIndex
<1>4. AsSequence!StoreFails(i, v) <=>
        \/ v \notin MemberTypeAt(desc, i)
        \/ i \notin 0 .. (ArrayLengthMax - 1)
        \/ i > length /\ desc.filler = "none"
  BY <1>1, <1>2, <1>3 DEF AsSequence!StoreFails, AsSequence!TypeAt, AsSequence!NoRoom,
                          AsSequence!NeedsFiller, Content
<1>5. CASE StoreDone(i, v)
  <2> DEFINE n == IF i < length THEN length ELSE i + 1
  <2>1. n \in Nat /\ n = length' /\ i \in 0 .. (n - 1)
    BY <1>1, <1>5 DEF StoreDone, Grows
  <2>2. Len(Content') = n /\ \A k \in 0 .. (n - 1) : Content'[k + 1] = Member(k)'
    BY <2>1, ContentNext
  <2>3. ASSUME NEW j \in 0 .. (n - 1), j # i
        PROVE  IF j < length THEN Content'[j + 1] = Content[j + 1]
               ELSE /\ Content'[j + 1] \in Fillers
                    /\ desc.filler = "each" => \A k \in 0 .. (n - 1) : Content'[k + 1] = Content'[j + 1] => k = j
    <3>1. IF j < length THEN Member(j)' = Member(j) ELSE Member(j)' \in Fillers
      BY <2>1, <2>3, <1>5 DEF StoreDone, Grows
    <3>2. FillersNotShared'
      BY DEF Stores, ListInv
    <3>3. CASE j < length
      <4>1. j \in 0 .. (length - 1)
        BY <3>3, <2>1, <1>1
      <4>2. Content'[j + 1] = Member(j)' /\ Content[j + 1] = Member(j)
        BY <4>1, <2>2, <1>2, Zenon
      <4> QED
        BY <4>2, <3>1, <3>3, Zenon
    <3>4. CASE ~ (j < length)
      BY <3>1, <3>2, <3>4, <2>1, <2>2, <1>1, OwnIdentities, Zenon
    <3> QED
      BY <3>3, <3>4
  <2>4. Content'[i + 1] = v /\ result' = [panic |-> "none", value |-> None]
    BY <2>1, <2>2, <1>5 DEF StoreDone, Ok
  <2>5. AsSequence!Extends(Content', n, i)
    BY <2>2, <2>3, <1>2, Zenon DEF AsSequence!Extends, AsSequence!At, AsSequence!OwnIdentity, Content, Fillers
  <2>6. ~ AsSequence!StoreFails(i, v)
    BY <1>1, <1>4, <1>5 DEF StoreDone
  <2> QED
    BY <2>4, <2>5, <2>6, <1>1, <1>2, Zenon DEF AsSequence!Store, AsSequence!At, Content
<1>6. CASE StoreFailed(i, v, FALSE)
  <2>1. AsSequence!StoreFails(i, v)
    BY <1>4, <1>6, Zenon DEF StoreFailed
  <2>2. PICK code \in StoreCodes : result' = [panic |-> code, value |-> None]
    BY <1>6, Zenon DEF StoreFailed, Panics
  <2>3. Content' = Content
    BY <1>1, <1>6, ContentNext, Zenon DEF StoreFailed
  <2>4. AsSequence!Panic(code)
    BY <2>2, <2>3, <1>1 DEF AsSequence!Panic, Content
  <2> QED
    BY <2>1, <2>4, Zenon DEF AsSequence!Store, StoreCodes
<1> QED
  BY <1>5, <1>6, Zenon DEF Stores

\* A read is a read of the sequence.
LEMMA ReadAbstract ==
    ASSUME ListInv, NEW i \in WordInts, Reads(i)
    PROVE  AsSequence!Get(i)
<1>1. length \in Nat /\ desc' = desc /\ length' = length
  <2>1. length \in Nat
    BY ArrayLengthMaxAssumption DEF ListInv, ArrayInv
  <2>2. desc' = desc /\ length' = length
    BY Zenon DEF Reads
  <2> QED
    BY <2>1, <2>2
<1>2. Len(Content) = length /\ \A k \in 0 .. (length - 1) : Content[k + 1] = Member(k)
  BY ContentView
<1>3. Content' = Content
  BY <1>1, ContentNext, Zenon DEF Reads
<1>4. CASE i \in 0 .. (length - 1)
  <2>1. result' = [panic |-> "none", value |-> Content[i + 1]]
    BY <1>2, <1>4 DEF Reads, Ok
  <2> QED
    BY <2>1, <1>1, <1>2, <1>3, <1>4, Zenon DEF AsSequence!Get, AsSequence!At, Content
<1>5. CASE i \notin 0 .. (length - 1)
  <2>1. result' = [panic |-> "index out of bounds", value |-> None]
    BY <1>5, Zenon DEF Reads, Panics
  <2> QED
    BY <2>1, <1>1, <1>2, <1>3, <1>5, Zenon DEF AsSequence!Get, AsSequence!Panic, Content
<1> QED
  BY <1>4, <1>5

\* The indices outside of a range that starts at 0.
LEMMA OutsideRange == \A n \in Nat, j \in Int : j \in 0 .. (n - 1) \/ j >= n \/ j < 0
OBVIOUS

\* A read for the container of a member is one of the sequence.
LEMMA FillAbstract ==
    ASSUME ListInv, NEW i \in WordInts, Fills(i)
    PROVE  AsSequence!FillingGet(i)
<1>1. /\ i \in Int /\ length \in Nat /\ length <= ArrayLengthMax /\ ArrayLengthMax \in Nat
      /\ desc' = desc
  <2>1. length \in Nat /\ length <= ArrayLengthMax /\ ArrayLengthMax \in Nat
    BY ArrayLengthMaxAssumption DEF ListInv, ArrayInv
  <2>2. i \in Int /\ desc' = desc
    BY Ranges, Zenon DEF Fills
  <2> QED
    BY <2>1, <2>2
<1>2. Len(Content) = length /\ \A k \in 0 .. (length - 1) : Content[k + 1] = Member(k)
  BY ContentView
<1>3. CASE i \in 0 .. (length - 1) /\ result' = Ok(Member(i)) /\ UNCHANGED <<members, length, capacity>>
  <2>1. Reads(i)
    BY <1>1, <1>3, Zenon DEF Reads, Fills
  <2>2. AsSequence!Get(i)
    BY <2>1, ReadAbstract
  <2> QED
    BY <2>2, <1>2, <1>3, Zenon DEF AsSequence!FillingGet, Content
<1>4. CASE FillDone(i)
  <2>1. /\ i \in length .. (ArrayLengthMax - 1) /\ desc.filler # "none" /\ length' = i + 1
        /\ i + 1 \in Nat /\ length' \in Nat /\ i \in 0 .. (length' - 1)
    BY <1>1, <1>4 DEF FillDone, Grows
  <2>2. Len(Content') = i + 1 /\ \A k \in 0 .. i : Content'[k + 1] = Member(k)'
    BY <2>1, ContentNext
  <2>3. FillersNotShared'
    BY Zenon DEF Fills, ListInv
  <2>4. ASSUME NEW j \in 0 .. i
        PROVE  IF j < length THEN Content'[j + 1] = Content[j + 1]
               ELSE /\ Content'[j + 1] \in Fillers
                    /\ desc.filler = "each" => \A k \in 0 .. i : Content'[k + 1] = Content'[j + 1] => k = j
    <3>1. IF j < length THEN Member(j)' = Member(j) ELSE Member(j)' \in Fillers
      BY <2>1, <1>1, <1>4 DEF FillDone, Grows
    <3>2. CASE j < length
      BY <3>1, <3>2, <2>2, <1>1, <1>2
    <3>3. CASE ~ (j < length)
      BY <3>1, <3>3, <2>1, <2>2, <2>3, <1>1, OwnIdentities
    <3> QED
      BY <3>2, <3>3
  <2>5. AsSequence!Extends(Content', i + 1, i)
    BY <2>1, <2>2, <2>4, <1>1, <1>2
       DEF AsSequence!Extends, AsSequence!At, AsSequence!OwnIdentity, Content, Fillers
  <2>6. /\ Content'[i + 1] \in Fillers
        /\ desc.filler = "each" => \A k \in 0 .. i : Content'[k + 1] = Content'[i + 1] => k = i
    BY <2>1, <2>4, <1>1
  <2>7. AsSequence!OwnIdentity(Content', i)
    BY <2>1, <2>2, <2>6 DEF AsSequence!OwnIdentity, AsSequence!At, Content
  <2>8. result' = [panic |-> "none", value |-> Content'[i + 1]]
    BY <2>1, <2>2, <1>1, <1>4 DEF FillDone, Ok
  <2>9. i >= length /\ ~ AsSequence!NoRoom(i)
    BY <2>1, <1>1 DEF AsSequence!NoRoom
  <2> QED
    BY <2>1, <2>5, <2>6, <2>7, <2>8, <2>9, <1>1, <1>2, Zenon
       DEF AsSequence!FillingGet, AsSequence!At, Content, Fillers
<1>5. CASE /\ i \notin 0 .. (length - 1)
           /\ i \notin 0 .. (ArrayLengthMax - 1) \/ desc.filler = "none"
           /\ \E code \in StoreCodes \ {"list store"} : Fail(code)
  <2>1. PICK code \in StoreCodes \ {"list store"} : Fail(code)
    BY <1>5, Zenon
  <2>2. Content' = Content /\ result' = [panic |-> code, value |-> None]
    BY <2>1, <1>1, ContentNext, Zenon DEF Fail, Panics
  <2>3. AsSequence!Panic(code)
    BY <2>2, <1>1, Zenon DEF AsSequence!Panic, Content
  <2>4. (i >= length \/ i < 0) /\ (AsSequence!NoRoom(i) \/ desc.filler = "none")
    <3>1. i >= length \/ i < 0
      BY <1>1, <1>5, OutsideRange, Zenon
    <3>2. i \in 0 .. (ArrayLengthMax - 1) \/ AsSequence!NoRoom(i)
      BY <1>1, OutsideRange, Zenon DEF AsSequence!NoRoom
    <3> QED
      BY <3>1, <3>2, <1>5, Zenon
  <2>5. code \in {"no filler", "index out of bounds", "list too long"}
    BY <2>1, Zenon DEF StoreCodes
  <2> QED
    BY <2>3, <2>4, <2>5, <1>2, Zenon DEF AsSequence!FillingGet, Content
<1> QED
  BY <1>3, <1>4, <1>5, Zenon DEF Fills

\* The indices of the program include every length, as the indices of type int do.
IndicesReach == 0 .. ArrayLengthMax \subseteq Indices

LEMMA InitAbstract ==
    ASSUME Init
    PROVE  AsSequence!AbsInit
<1>1. ListInv /\ length <= InitialCapacity /\ result = Ok(None)
  BY InitEffect
<1>2. /\ desc \in ListTypes /\ length \in Nat /\ length <= ArrayLengthMax /\ ArrayLengthMax \in Nat
      /\ desc.fixedLength <= length /\ desc.fixedLength \in Nat
  <2>1. desc \in ListTypes /\ length \in Nat /\ length <= ArrayLengthMax /\ ArrayLengthMax \in Nat
    BY <1>1, ArrayLengthMaxAssumption DEF ListInv, ArrayInv
  <2>2. desc.fixedLength <= length /\ desc.fixedLength \in Nat
    BY <2>1, <1>1, TypeFacts DEF ListInv, MembersTyped
  <2> QED
    BY <2>1, <2>2
<1>3. /\ Len(Content) = length /\ Content \in [1 .. length -> Values]
      /\ \A i \in 0 .. (length - 1) : Content[i + 1] = Member(i)
  BY <1>1, ContentView
<1>4. Content \in UNION {[1 .. n -> Values] : n \in 0 .. ArrayLengthMax}
  <2>1. length \in 0 .. ArrayLengthMax
    BY <1>2
  <2> HIDE DEF Content
  <2> QED
    BY <2>1, <1>3
<1>5. ASSUME NEW i \in 0 .. (length - 1)
      PROVE  Content[i + 1] \in
               IF i \in 0 .. (desc.fixedLength - 1)
               THEN desc.initial[IF i < Len(desc.initial) THEN i + 1 ELSE Len(desc.initial)]
               ELSE desc.rest
  <2>1. i \in WordInts
    BY <1>2, UnsignedIndex
  <2>2. Member(i) \in MemberTypeAt(desc, i)
    BY <1>1 DEF ListInv, MembersTyped
  <2>3. Content[i + 1] \in MemberTypeAt(desc, i)
    BY <2>2, <1>3
  <2>4. desc.fixedLength <= ArrayLengthMax
    BY <1>2
  <2> QED
    BY <2>1, <2>3, <2>4, <1>2, TypeAtIndex
<1>6. AsSequence!Belongs(Content, [initial |-> desc.initial, fixedLength |-> desc.fixedLength,
                                   rest |-> desc.rest, filler |-> desc.filler,
                                   fillers |-> IF desc.filler = "each" THEN FillerLists ELSE {desc.value}])
  BY <1>2, <1>3, <1>5 DEF AsSequence!Belongs, AsSequence!TypeAt, AsSequence!At
<1> QED
  BY <1>1, <1>2, <1>4, <1>6, Zenon DEF AsSequence!AbsInit, Content, Ok

\* Every step of the list is a step of the sequence, or is not seen.
LEMMA StepAbstract ==
    ASSUME NoClosedList, IndicesReach, ListInv, Next
    PROVE  AsSequence!AbsNext
<1> DEFINE Good == AsSequence!AbsNext
<1> SUFFICES Good
  OBVIOUS
<1> HIDE DEF Good
<1>1. \A i \in Indices : AsSequence!Get(i) \/ AsSequence!FillingGet(i) => Good
  BY DEF AsSequence!AbsNext, Good
<1>2. \A i \in Indices, v \in Values : AsSequence!Store(i, v) => Good
  BY DEF AsSequence!AbsNext, Good
<1>3. Indices \subseteq WordInts
  BY UnsignedIndex
<1>4. length \in Indices
  <2>1. length \in 0 .. ArrayLengthMax
    BY ArrayLengthMaxAssumption DEF ListInv, ArrayInv
  <2> QED
    BY <2>1 DEF IndicesReach
<1>5. ASSUME NEW i \in Indices, Reads(i) PROVE Good
  BY <1>1, <1>3, <1>5, ReadAbstract
<1>6. ASSUME NEW i \in Indices, Fills(i) PROVE Good
  BY <1>1, <1>3, <1>6, FillAbstract
<1>7. ASSUME NEW i \in Indices, NEW v \in ProgramValues, Stores(i, v, FALSE) PROVE Good
  <2>1. v \in Values /\ i \in WordInts
    BY <1>3 DEF ProgramValues
  <2>2. AsSequence!Store(i, v)
    BY <2>1, <1>7, StoreAbstract, Zenon
  <2> QED
    BY <2>1, <2>2, <1>2
<1>8. \/ \E i \in Indices : Reads(i) \/ Fills(i)
      \/ \E i \in Indices, v \in ProgramValues : Stores(i, v, FALSE)
  BY <1>4, StepEffect, Zenon
<1> QED
  BY <1>5, <1>6, <1>7, <1>8, Zenon

\* The four representations, the growth of the array, the direct path and the descriptor
\* cannot be told from outside: a list is a sequence whose stores are checked against the
\* inherent type and whose gaps are filled with fillers of their own, and an operation that
\* panics leaves it as it was.
THEOREM ListIsSequence == NoClosedList /\ IndicesReach => (Spec => ImplementsSequence)
<1> SUFFICES ASSUME NoClosedList, IndicesReach PROVE Spec => ImplementsSequence
  OBVIOUS
<1>1. Init => AsSequence!AbsInit
  BY InitAbstract
<1>2. ListInv /\ [Next]_vars => [AsSequence!AbsNext]_(AsSequence!absVars)
  <2> SUFFICES ASSUME ListInv, [Next]_vars PROVE [AsSequence!AbsNext]_(AsSequence!absVars)
    OBVIOUS
  <2>1. CASE Next
    BY <2>1, StepAbstract
  <2>2. CASE UNCHANGED vars
    BY <2>2 DEF vars, AsSequence!absVars, Member
  <2> QED
    BY <2>1, <2>2
<1>3. Spec => []ListInv
  BY ListInvariance
<1> QED
  BY <1>1, <1>2, <1>3, PTL DEF Spec, ImplementsSequence, AsSequence!AbsSpec
=============================================================================

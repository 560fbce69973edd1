-------------------------------- MODULE List --------------------------------
(***************************************************************************)
(* A list value of the runtime and the code the compiler emits to use it.  *)
(* The members are in a growable array of tagged pointers, or, when the    *)
(* inherent type is int[], byte[] or float[], of raw machine values.  The  *)
(* model covers the life of one list, used through registers whose static  *)
(* types are types it belongs to and whose exact bit may be set when the   *)
(* static type is the inherent type.                                       *)
(***************************************************************************)
EXTENDS GenericArray, Sequences

CONSTANTS
    Word,        \* the number of values of a 64-bit index
    ByteMax,     \* UINT8_MAX
    Values,      \* tagged values, as records of a tag and a payload
    ListTypes,   \* the list atomic types of the program
    MemberTypes, \* the static types of stored values: sets of values
    Indices,     \* the indices the program uses
    MaxLists     \* bound on the lists created as fillers

ASSUME WordAssumption ==
    /\ Word \in Nat /\ Word > 2 * ArrayLengthMax
    /\ ByteMax \in Nat
    /\ Indices \subseteq -(Word \div 2) .. (Word \div 2) - 1
    /\ MaxLists \in Nat

VARIABLES
    desc,        \* the inherent type
    members, length, capacity,
    created,     \* lists created as fillers so far
    result       \* of the last operation: the panic code, and the value if any

vars == <<desc, members, length, capacity, created, result>>

Ints == {v \in Values : v.tag = "int"}
Bytes == {v \in Ints : v.n \in 0 .. ByteMax}
Floats == {v \in Values : v.tag = "float"}

\* Lists made as fillers are numbered from 0; those of the program are not.
FillerLists == {v \in Values : v.tag = "list" /\ v.n >= 0}
ProgramValues == Values \ FillerLists

\* The cast of an index or a length to uint64_t.
Unsigned(i) == i % Word

None == [tag |-> "none", n |-> 0]
Garbage == [tag |-> "garbage", n |-> -1]
Ok(v) == [panic |-> "none", value |-> v]
Panics(code) == [panic |-> code, value |-> None]

-----------------------------------------------------------------------------
(* List types.                                                              *)

\* The type of the member at an index; a negative one is taken to have the rest
\* type.
MemberTypeAt(t, i) ==
    IF Unsigned(i) < t.fixedLength
    THEN t.initial[IF i < Len(t.initial) THEN i + 1 ELSE Len(t.initial)]
    ELSE t.rest

AllMemberTypes(t) == {t.initial[k] : k \in 1 .. Len(t.initial)} \cup ({t.rest} \ {{}})

\* A list whose inherent type is d belongs to t.
Subtype(d, t) ==
    /\ d.fixedLength >= t.fixedLength
    /\ d.rest \subseteq t.rest
    /\ \A i \in 0 .. d.fixedLength - 1 : MemberTypeAt(d, i) \subseteq MemberTypeAt(t, i)

\* listAtomicTypeToListReprPrefix
ReprPrefix(t) ==
    IF t.fixedLength # 0 THEN "generic"
    ELSE IF t.rest = Ints THEN "int_array"
    ELSE IF t.rest = Floats THEN "float_array"
    ELSE IF t.rest = Bytes THEN "byte_array"
    ELSE "generic"

\* The heap representation of a member, and the value it stands for.
ToHeap(repr, v) ==
    CASE repr = "generic" -> v
      [] repr = "byte_array" -> [tag |-> "raw", n |-> v.n % (ByteMax + 1)]
      [] OTHER -> [tag |-> "raw", n |-> v.n]

FromHeap(repr, cell) ==
    CASE repr = "generic" -> cell
      [] repr = "float_array" -> [tag |-> "float", n |-> cell.n]
      [] OTHER -> [tag |-> "int", n |-> cell.n]

\* What a list type gives for the members after the initial ones: fillers belong to
\* the rest type, and those of the specialised arrays are zero.
ASSUME ListTypesAssumption ==
    /\ Values \subseteq [tag : STRING, n : Int]
    /\ {[tag |-> "int", n |-> 0], [tag |-> "float", n |-> 0]} \subseteq Values
    /\ \A t \in ListTypes :
        /\ t.initial \in Seq(SUBSET Values) /\ t.rest \subseteq Values
        /\ t.fixedLength \in Nat /\ t.fixedLength >= Len(t.initial)
        /\ t.initial = <<>> => t.fixedLength = 0
        /\ t.filler \in {"none", "copy", "each"}
        /\ t.filler = "copy" => t.value \in t.rest \ FillerLists
        /\ t.filler = "each" => \A k \in 0 .. MaxLists - 1 : [tag |-> "list", n |-> k] \in t.rest
        /\ ReprPrefix(t) # "generic" =>
             t.filler = "copy" /\ t.value = FromHeap(ReprPrefix(t), [tag |-> "raw", n |-> 0])

-----------------------------------------------------------------------------
(* Construction: the constructor has as many operands as the type fixes, or *)
(* more, fillers among them; a list made as a filler has exactly that many. *)

Init ==
    /\ desc \in ListTypes
    /\ \E n \in 0 .. InitialCapacity :
        \E vs \in [0 .. n - 1 -> ProgramValues] :
            /\ n >= desc.fixedLength
            /\ \A i \in 0 .. n - 1 : vs[i] \in MemberTypeAt(desc, i)
            /\ members = [i \in 0 .. n - 1 |-> ToHeap(ReprPrefix(desc), vs[i])]
            /\ length = n
            /\ capacity = n
    /\ created = 0
    /\ result = Ok(None)

-----------------------------------------------------------------------------
(* The runtime.                                                             *)

\* structCreateFiller: the k-th value made in an operation.
Filler(k) == IF desc.filler = "each" THEN [tag |-> "list", n |-> created + k] ELSE desc.value

InRange(i) == Unsigned(i) < length

\* Neither in the array nor in reach of growing it.
OutOfReach(i) == Unsigned(i) >= capacity /\ Unsigned(i) >= ArrayLengthMax

OutOfReachCode(i) == IF i < 0 THEN "index out of bounds" ELSE "list too long"

Replace(i, cell) ==
    /\ members' = [members EXCEPT ![i] = cell]
    /\ UNCHANGED <<length, capacity>>

\* The capacity once there is room for index i.
Room(i) == IF i >= capacity THEN GrownCapacity(capacity, i + 1) ELSE capacity

\* Append the gap from length up to i - 1, and cell at i.
Extend(i, gap, cell) ==
    /\ capacity' = Room(i)
    /\ members' = [j \in 0 .. Room(i) - 1 |->
                    IF j = i THEN cell ELSE IF j < length THEN members[j]
                    ELSE IF j < i THEN gap[j] ELSE Garbage]
    /\ length' = i + 1

Fail(code) == result' = Panics(code) /\ UNCHANGED <<members, length, capacity>>

StorePanicCode(exact) == IF exact THEN "internal error" ELSE "list store"

\* Mutant: one filler serves for the whole gap.
GapFiller_Shared(k) == Filler(0)

\* The filler of the k-th member of the gap.
GapFiller(k) == Filler(k)

\* An operation makes n fillers, each with an identity of its own.
Creates(n) ==
    IF desc.filler = "each"
    THEN created + n <= MaxLists /\ created' = created + n
    ELSE UNCHANGED created

\* listDescAllowsTaggedAt
Allows(i, v) == v \in MemberTypeAt(desc, i)

\* _bal_list_generic_set_tagged, and with inexact the variant that calls it and
\* reports every failure as a bad store.
GenericSet(exact, inexact, i, v) ==
    LET code(c) == IF inexact THEN "list store" ELSE c
    IN  \/ /\ ~ Allows(i, v)
           /\ Fail(code(StorePanicCode(exact)))
           /\ UNCHANGED created
        \/ /\ Allows(i, v)
           /\ InRange(i)
           /\ Replace(i, v)
           /\ result' = Ok(None)
           /\ UNCHANGED created
        \/ /\ Allows(i, v)
           /\ ~ InRange(i)
           /\ i > length /\ desc.filler = "none"
           /\ Fail(code("no filler"))
           /\ UNCHANGED created
        \/ /\ Allows(i, v)
           /\ ~ InRange(i)
           /\ i > length => desc.filler # "none"
           /\ IF OutOfReach(i)
              THEN /\ Fail(code(OutOfReachCode(i)))
                   /\ IF i > length THEN Creates(1) ELSE UNCHANGED created
              ELSE /\ Extend(i, [j \in length .. i - 1 |-> GapFiller(j - length)], v)
                   /\ result' = Ok(None)
                   /\ Creates(i - length)

\* Mutant: the filler that is returned is the last one made.
FillingGetMember_Returned(i) ==
    /\ i >= length /\ desc.filler # "none" /\ i < ArrayLengthMax
    /\ Extend(i, [j \in length .. i - 1 |-> GapFiller(1 + j - length)], Filler(0))
    /\ result' = Ok(Filler(i - length))
    /\ Creates(i - length + 1)

\* _bal_list_filling_get: the first filler made is the one at the index.
FillingGetMember(i) ==
    \/ /\ InRange(i)
       /\ result' = Ok(members[i])
       /\ UNCHANGED <<members, length, capacity, created>>
    \/ /\ ~ InRange(i) /\ i < 0
       /\ Fail("index out of bounds")
       /\ UNCHANGED created
    \/ /\ i >= length /\ desc.filler = "none"
       /\ Fail("no filler")
       /\ UNCHANGED created
    \/ /\ i >= length /\ desc.filler # "none"
       /\ i >= capacity /\ i >= ArrayLengthMax
       /\ Fail("list too long")
       /\ Creates(1)
    \/ /\ i >= length /\ desc.filler # "none"
       /\ i < capacity \/ i < ArrayLengthMax
       /\ Extend(i, [j \in length .. i - 1 |-> GapFiller(1 + j - length)], Filler(0))
       /\ result' = Ok(Filler(0))
       /\ Creates(i - length + 1)

\* What the set function of an int, byte or float array refuses: the wrong basic
\* type, or an int that is no byte.
Refuses(repr, v) ==
    CASE repr = "int_array" -> v.tag # "int"
      [] repr = "byte_array" -> v.tag # "int" \/ v.n < 0 \/ ByteMax < v.n
      [] OTHER -> v.tag # "float"

\* Mutant: the gap is not cleared.
Zeroes_Not == Garbage

\* A member of a gap after the memset.
Zeroes == [tag |-> "raw", n |-> 0]

\* _bal_list_int_array_set_int and its likes.
ArraySet(repr, exact, i, v) ==
    /\ \/ Refuses(repr, v) /\ Fail(StorePanicCode(exact))
       \/ /\ ~ Refuses(repr, v) /\ InRange(i)
          /\ Replace(i, ToHeap(repr, v))
          /\ result' = Ok(None)
       \/ /\ ~ Refuses(repr, v) /\ ~ InRange(i)
          /\ IF OutOfReach(i)
             THEN Fail(OutOfReachCode(i))
             ELSE /\ Extend(i, [j \in length .. i - 1 |-> Zeroes], ToHeap(repr, v))
                  /\ result' = Ok(None)
    /\ UNCHANGED created

\* The function of the descriptor that is called, by the inherent type; for the
\* specialised arrays the inexact variant is the same function.
DescSet(exact, inexact, i, v) ==
    IF ReprPrefix(desc) = "generic"
    THEN GenericSet(exact, inexact, i, v)
    ELSE ArraySet(ReprPrefix(desc), exact, i, v)

-----------------------------------------------------------------------------
(* The code emitted for a register whose static type is t or, when atomic   *)
(* is false, a union that includes t.                                       *)

\* A register through which the list can be used.  Its exact bit says that the
\* static type is the inherent type.
Register(t, atomic, exact) == Subtype(desc, t) /\ (exact => atomic /\ t = desc)

\* listMemberTypeInnerVal, for a constant index and for one of type int.
StaticMemberType(t, atomic, const, i) ==
    IF ~ atomic THEN Values
    ELSE IF ~ const THEN UNION AllMemberTypes(t)
    ELSE IF i < 0 /\ t.fixedLength > 0 THEN {}
    ELSE MemberTypeAt(t, i)

\* Mutant: exactness is always relied on.
SetAlwaysInexact_Never(t, atomic, const, type) == FALSE

\* isListSetAlwaysInexact: the store may fail although the list is exact.
SetAlwaysInexact(t, atomic, const, type) ==
    atomic /\ ~ const /\ \E ty \in AllMemberTypes(t) : ~ (type \subseteq ty)

Specialized(t, atomic) == atomic /\ ReprPrefix(t) # "generic"

\* buildSpecializedListSet: the member is written without calling the runtime.
StoresDirectly(t, atomic, exact, i) ==
    Specialized(t, atomic) /\ exact /\ InRange(i)

\* buildListSet, for a value v of the static type type.
ListSet(t, atomic, exact, const, i, type, v) ==
    /\ Register(t, atomic, exact)
    /\ type \subseteq StaticMemberType(t, atomic, const, i) /\ v \in type
    /\ IF StoresDirectly(t, atomic, exact, i)
       THEN /\ Replace(i, ToHeap(ReprPrefix(t), v))
            /\ result' = Ok(None)
            /\ UNCHANGED created
       ELSE DescSet(exact, SetAlwaysInexact(t, atomic, const, type), i, v)
    /\ UNCHANGED desc

\* The test that buildListGet emits.
InBounds(i) == Unsigned(i) < length

\* buildListGet: an exact specialised array is read directly.
ListGet(t, atomic, exact, const, i) ==
    /\ Register(t, atomic, exact)
    /\ StaticMemberType(t, atomic, const, i) # {}
    /\ result' = IF ~ InBounds(i) THEN Panics("index out of bounds")
                 ELSE IF Specialized(t, atomic) /\ exact
                 THEN Ok(FromHeap(ReprPrefix(t), members[i]))
                 ELSE Ok(FromHeap(ReprPrefix(desc), members[i]))
    /\ UNCHANGED <<desc, members, length, capacity, created>>

\* buildListGet with fill, for the container of a member that is assigned to: its
\* members are structures, which no specialised array has.
ListFillingGet(t, const, i) ==
    /\ Register(t, TRUE, FALSE)
    /\ StaticMemberType(t, TRUE, const, i) # {}
    /\ \A v \in StaticMemberType(t, TRUE, const, i) : v.tag = "list"
    /\ FillingGetMember(i)
    /\ UNCHANGED desc

\* The library method push of a value v.  The signature is instantiated for the
\* register: an array keeps its static type, and so its exact bit; any other list
\* is widened to an array of its member types, which clears the bit.
Push(t, atomic, exact, v) ==
    /\ Register(t, atomic, exact)
    /\ v \in StaticMemberType(t, atomic, FALSE, length)
    /\ DescSet(exact /\ t.fixedLength = 0, FALSE, length, v)
    /\ UNCHANGED desc

Next ==
    \E exact \in BOOLEAN, t \in ListTypes, atomic \in BOOLEAN :
        \/ \E v \in ProgramValues : Push(t, atomic, exact, v)
        \/ \E const \in BOOLEAN, i \in Indices :
            \/ ListGet(t, atomic, exact, const, i)
            \/ ListFillingGet(t, const, i)
            \/ \E type \in MemberTypes : \E v \in type \cap ProgramValues :
                ListSet(t, atomic, exact, const, i, type, v)

Spec == Init /\ [][Next]_vars

-----------------------------------------------------------------------------

Member(i) == FromHeap(ReprPrefix(desc), members[i])

\* Every member belongs to the inherent type and the length is at least the one
\* the type fixes, whatever static types the stores were compiled for: no
\* uninitialised memory shows after growth or in a gap (list.c, lines 129 to 145).
MembersTyped ==
    /\ length >= desc.fixedLength
    /\ \A i \in 0 .. length - 1 : Member(i) \in MemberTypeAt(desc, i)

\* Two members never share a filler that has an identity: assigning to one of
\* them would change the other (lines 136 to 141 and 177 to 184).
FillersNotShared ==
    \A i, j \in 0 .. length - 1 : Member(i) \in FillerLists /\ Member(i) = Member(j) => i = j

\* The comment on storePanicCode: if the exact bit is set, the error should not
\* occur; what the compiler relies on when it does not call the inexact variant.
ExactStoresSucceed == result.panic # "internal error"

\* The list is the sequence of the language, through all static types.
AsSequence ==
    INSTANCE GrowableList WITH
        Descs <- {[initial |-> t.initial, fixedLength |-> t.fixedLength, rest |-> t.rest,
                   filler |-> t.filler,
                   fillers |-> IF t.filler = "each" THEN FillerLists ELSE {t.value}] :
                  t \in ListTypes},
        MaxLength <- ArrayLengthMax,
        NoValue <- None,
        inherent <- [initial |-> desc.initial, fixedLength |-> desc.fixedLength,
                     rest |-> desc.rest, filler |-> desc.filler,
                     fillers |-> IF desc.filler = "each" THEN FillerLists ELSE {desc.value}],
        content <- [k \in 1 .. length |-> Member(k - 1)],
        outcome <- result

\* Every operation, on any of the four representations and through the direct
\* path or the descriptor, does what it does on a sequence, or panics with cause
\* and leaves the list as it was.
ImplementsSequence == AsSequence!AbsSpec
=============================================================================

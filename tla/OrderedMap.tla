----------------------------- MODULE OrderedMap -----------------------------
(***************************************************************************)
(* What a mapping promises: a map that keeps its fields in insertion order *)
(* and admits under each name only members of that name's type.  It knows  *)
(* of no hash table, capacity or position.                                 *)
(***************************************************************************)
EXTENDS Integers, Sequences

CONSTANTS Keys, Values, FieldNames, FieldTypes, RestType, Filler, NoFiller

VARIABLES fields, result

Present(k) == \E i \in 1..Len(fields) : fields[i].key = k
PositionOf(k) == CHOOSE i \in 1..Len(fields) : fields[i].key = k

TypeOf(k) ==
    IF \E j \in 1..Len(FieldNames) : FieldNames[j] = k
    THEN FieldTypes[CHOOSE j \in 1..Len(FieldNames) : FieldNames[j] = k]
    ELSE RestType

Init == fields = <<>> /\ result = "ok"

Add(k, v) == fields' = Append(fields, [key |-> k, value |-> v])

Fails(why) == result' = why /\ UNCHANGED fields

\* Construction adds a field with a name of its own.
InitMember(k, v) ==
    /\ ~ Present(k) /\ v \in TypeOf(k)
    /\ Add(k, v)
    /\ UNCHANGED result

Get(k) ==
    /\ result' = IF Present(k) THEN fields[PositionOf(k)].value ELSE "null"
    /\ UNCHANGED fields

Set(k, v) ==
    \/ v \notin TypeOf(k) /\ Fails("mapping store")
    \/ /\ v \in TypeOf(k) /\ Present(k)
       /\ fields' = [fields EXCEPT ![PositionOf(k)].value = v]
       /\ result' = "ok"
    \/ v \in TypeOf(k) /\ ~ Present(k) /\ Add(k, v) /\ result' = "ok"
    \/ ~ Present(k) /\ Fails("list too long")

FillingGet(k) ==
    \/ Present(k) /\ Get(k)
    \/ ~ Present(k) /\ Filler = NoFiller /\ Fails("no filler")
    \/ ~ Present(k) /\ Filler # NoFiller /\ Add(k, Filler) /\ result' = Filler
    \/ ~ Present(k) /\ Fails("list too long")

Next == \E k \in Keys : \/ Get(k) \/ FillingGet(k)
                        \/ \E v \in Values : InitMember(k, v) \/ Set(k, v)

Spec == Init /\ [][Next]_<<fields, result>>
=============================================================================

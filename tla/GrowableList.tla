---------------------------- MODULE GrowableList ----------------------------
(***************************************************************************)
(* What a list value promises to the program: a sequence whose members     *)
(* belong to its inherent type, and in which a store beyond the end puts   *)
(* fillers into the gap.  An operation either has all of its effect or     *)
(* panics, and then it has none.                                           *)
(***************************************************************************)
EXTENDS Integers, Sequences

CONSTANTS
    Values,           \* what may be stored
    Descs,            \* inherent types, with their fillers
    MaxLength,        \* the greatest length a list may have
    Indices,
    NoValue           \* what an operation that returns nothing gives

VARIABLES
    inherent,         \* the inherent type, fixed at construction
    content,
    outcome           \* of the last operation: the panic, or the value it gave

absVars == <<inherent, content, outcome>>

\* Indices of the language start at 0.
At(c, i) == c[i + 1]
TypeAt(d, i) ==
    IF i \in 0 .. d.fixedLength - 1
    THEN d.initial[IF i < Len(d.initial) THEN i + 1 ELSE Len(d.initial)]
    ELSE d.rest

Belongs(c, d) == Len(c) >= d.fixedLength /\ \A i \in 0 .. Len(c) - 1 : At(c, i) \in TypeAt(d, i)

AbsInit ==
    /\ inherent \in Descs
    /\ content \in UNION {[1 .. n -> Values] : n \in 0 .. MaxLength} /\ Belongs(content, inherent)
    /\ outcome = [panic |-> "none", value |-> NoValue]

\* A member that stands for a value of its own is not the same as any other.
OwnIdentity(c, i) ==
    inherent.filler = "each" => \A j \in 0 .. Len(c) - 1 : At(c, j) = At(c, i) => j = i

\* c is the content, extended to length n by fillers, except at index i.
Extends(c, n, i) ==
    /\ Len(c) = n
    /\ \A j \in 0 .. n - 1 :
        j # i => IF j < Len(content)
                 THEN At(c, j) = At(content, j)
                 ELSE At(c, j) \in inherent.fillers /\ OwnIdentity(c, j)

NeedsFiller(i) == i > Len(content)
NoRoom(i) == i < 0 \/ i >= MaxLength

StoreFails(i, v) ==
    \/ v \notin TypeAt(inherent, i)
    \/ NoRoom(i)
    \/ NeedsFiller(i) /\ inherent.filler = "none"

Panic(code) == outcome' = [panic |-> code, value |-> NoValue] /\ UNCHANGED <<inherent, content>>

Store(i, v) ==
    \/ /\ ~ StoreFails(i, v)
       /\ Extends(content', IF i < Len(content) THEN Len(content) ELSE i + 1, i)
       /\ At(content', i) = v
       /\ outcome' = [panic |-> "none", value |-> NoValue]
       /\ UNCHANGED inherent
    \/ /\ StoreFails(i, v)
       /\ \E code \in {"list store", "no filler", "index out of bounds", "list too long"} :
            Panic(code)

Get(i) ==
    \/ /\ i \in 0 .. Len(content) - 1
       /\ outcome' = [panic |-> "none", value |-> At(content, i)]
       /\ UNCHANGED <<inherent, content>>
    \/ i \notin 0 .. Len(content) - 1 /\ Panic("index out of bounds")

\* Reading a member in order to assign to a member of it: the member is there
\* afterwards, and is what was returned.
FillingGet(i) ==
    \/ i \in 0 .. Len(content) - 1 /\ Get(i)
    \/ /\ i >= Len(content) /\ ~ NoRoom(i) /\ inherent.filler # "none"
       /\ Extends(content', i + 1, i)
       /\ At(content', i) \in inherent.fillers /\ OwnIdentity(content', i)
       /\ outcome' = [panic |-> "none", value |-> At(content', i)]
       /\ UNCHANGED inherent
    \/ /\ i >= Len(content) \/ i < 0
       /\ NoRoom(i) \/ inherent.filler = "none"
       /\ \E code \in {"no filler", "index out of bounds", "list too long"} : Panic(code)

AbsNext == \E i \in Indices : Get(i) \/ FillingGet(i) \/ \E v \in Values : Store(i, v)

AbsSpec == AbsInit /\ [][AbsNext]_absVars
=============================================================================

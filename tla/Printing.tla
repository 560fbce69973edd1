------------------------------ MODULE Printing ------------------------------
(***************************************************************************)
(* io:println on values that may be cyclic (print.c).  The C recursion is  *)
(* the sequence frames, innermost last; the entries of PrintStack are the  *)
(* pointers of the frames.  Output is the sequence of the things written:  *)
(* brackets, commas, dots and scalars (whose text is left out), each with  *)
(* the tagged pointer it is written for.                                   *)
(***************************************************************************)
EXTENDS Values, FiniteSets

VARIABLES
    frames,           \* [p, next]: loops of printTaggedInner; the first one is of printTagged
    output,
    printing          \* println has been called and has not returned

printVars == <<heap, frames, output, printing>>

\* Mutant: what has been printed stays on the stack.
stackContains_NotPopped(p) ==
    \E k \in DOMAIN output : output[k].kind = "open" /\ output[k].of = p

stackContains(p) == \E k \in DOMAIN frames : frames[k].p = p

Inner == frames[Len(frames)]

Token(kind, of) == [kind |-> kind, of |-> of]

\* A comma comes before every member but the first, except between the
\* arguments of println.
Comma == IF Len(frames) > 1 /\ Inner.next > 1 THEN <<Token("comma", Inner.p)>> ELSE <<>>

\* The key of a field is printed with a stack of its own.
Key == IF Inner.p.tag = "mapping" THEN <<Token("key", Inner.p)>> ELSE <<>>

Advanced == [frames EXCEPT ![Len(frames)] = [p |-> Inner.p, next |-> Inner.next + 1]]

\* printTaggedInner on a member: what is written, and the loop over the
\* members of a structure that is not being printed further out.
printTaggedInner(p) ==
    LET before == output \o Comma \o Key
    IN IF ~IsStructure(p)
       THEN output' = Append(before, Token("scalar", p)) /\ frames' = Advanced
       ELSE IF stackContains(p)
       THEN output' = Append(before, Token("dots", p)) /\ frames' = Advanced
       ELSE /\ output' = Append(before, Token("open", p))
            /\ frames' = Append(Advanced, [p |-> p, next |-> 1])

PrintMember ==
    /\ frames # <<>> /\ Inner.next <= Len(Members(Inner.p))
    /\ printTaggedInner(Members(Inner.p)[Inner.next])
    /\ UNCHANGED <<heap, printing>>

\* The end of a loop: the bracket, and the new line for printTagged.
EndMembers ==
    /\ frames # <<>> /\ Inner.next > Len(Members(Inner.p))
    /\ output' = Append(output, Token(IF Len(frames) = 1 THEN "newline" ELSE "close", Inner.p))
    /\ printing' = (Len(frames) > 1)
    /\ frames' = SubSeq(frames, 1, Len(frames) - 1)
    /\ UNCHANGED heap

\* The list of the arguments of println is made for the call: nothing refers
\* to it.
ArgumentLists ==
    {[tag |-> "list", at |-> a, exact |-> FALSE] : a \in
        {b \in Addresses :
            /\ heap[b].tag = "list"
            /\ \A c \in Addresses : \A i \in DOMAIN heap[c].members :
                heap[c].members[i] \in Pointers => heap[c].members[i].at # b}}

\* args is the list of the rest arguments; printTagged puts it on the stack.
println(args) ==
    /\ ~printing /\ output = <<>>
    /\ printing' = TRUE /\ frames' = <<[p |-> args, next |-> 1]>>
    /\ UNCHANGED <<heap, output>>

PrintWork == PrintMember \/ EndMembers
-----------------------------------------------------------------------------
\* The program goes on after println.
Printed == ~printing /\ output # <<>>

Forget == Printed /\ output' = <<>> /\ UNCHANGED <<heap, frames, printing>>

PrintInit ==
    /\ heap \in [Addresses -> Structures] /\ WellFormed
    /\ frames = <<>> /\ output = <<>> /\ printing = FALSE

PrintNext == (\E args \in ArgumentLists : println(args)) \/ PrintWork \/ Forget

PrintSpec == PrintInit /\ [][PrintNext]_printVars
-----------------------------------------------------------------------------
Tokens(kind) == {k \in DOMAIN output : output[k].kind = kind}

\* The brackets of p that are open before the k-th token.
OpenAt(k, p) ==
    Cardinality({i \in Tokens("open") : i < k /\ output[i].of = p})
    - Cardinality({i \in Tokens("close") : i < k /\ output[i].of = p})

\* println writes out everything that can be reached from its arguments, and
\* writes dots in place of a structure only inside the brackets of that same
\* structure, however the structures refer to each other
\* (stackContains, print.c:176).
PrintedWhole ==
    Printed =>
        LET written == {output[i].of.at : i \in Tokens("open") \cup Tokens("newline")}
        IN /\ \A a \in written : \A i \in DOMAIN heap[a].members :
                heap[a].members[i] \in Pointers => heap[a].members[i].at \in written
           /\ \A k \in Tokens("dots") : OpenAt(k, output[k].of) = 1
           /\ \A k \in Tokens("open") : OpenAt(k, output[k].of) = 0
           /\ \A k \in Tokens("open") : OpenAt(Len(output) + 1, output[k].of) = 0
=============================================================================

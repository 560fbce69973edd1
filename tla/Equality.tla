------------------------------ MODULE Equality ------------------------------
(***************************************************************************)
(* The == operator on values that may be cyclic: taggedPtrEq (balrt.h),    *)
(* _bal_list_eq_internal (list.c) and _bal_mapping_eq_internal             *)
(* (mapping.c).  The C recursion is the sequence stack of loops, innermost *)
(* last.  The frames that taggedPtrEq has made are the EqStack: a pair     *)
(* that is on it is taken to be equal.  _bal_list_eq and _bal_mapping_eq   *)
(* start with an empty EqStack, so their own pair is not on it.            *)
(***************************************************************************)
EXTENDS Values

VARIABLES
    root,             \* the pair that is being compared, or <<>>
    stack,            \* [p1, p2, next, assumed]: loops over members
    answer,           \* "none" before the outermost call has returned
    visited           \* history: all pairs a loop was started for

eqVars == <<heap, root, stack, answer, visited>>

HasPair(frame, tp1, tp2) == frame.p1 = tp1 /\ frame.p2 = tp2

-----------------------------------------------------------------------------
\* Mutant: only the first pointer of a pair is looked for.
OnEqStack_FirstOnly(tp1, tp2) == \E k \in DOMAIN stack : stack[k].assumed /\ stack[k].p1 = tp1

\* The test for a pair that is already being compared, with exact bits.
OnEqStack(tp1, tp2) == \E k \in DOMAIN stack : stack[k].assumed /\ HasPair(stack[k], tp1, tp2)

\* The cases of taggedPtrEq that are decided by the two tagged pointers.  Of
\* the tags in the switch none has the immediate flag.
scalarEq(tp1, tp2) == ~tp1.imm /\ PayloadEq(tp1.tag, tp1.val, tp2.val)

EqualAtOnce(tp1, tp2) ==
    \/ tp1 = tp2
    \/ /\ getTag(tp1) = getTag(tp2)
       /\ IF IsStructure(tp1) THEN OnEqStack(tp1, tp2) ELSE scalarEq(tp1, tp2)

\* A loop over members is needed, and the lengths that are tested before it
\* agree.
Descends(tp1, tp2) ==
    /\ IsStructure(tp1) /\ IsStructure(tp2) /\ tp1.tag = tp2.tag
    /\ Len(Members(tp1)) = Len(Members(tp2))

Frame(tp1, tp2, assumed) == [p1 |-> tp1, p2 |-> tp2, next |-> 1, assumed |-> assumed]
NextMember(f) == [p1 |-> f.p1, p2 |-> f.p2, next |-> f.next + 1, assumed |-> f.assumed]

Push(frame) ==
    /\ stack' = Append(stack, frame)
    /\ visited' = visited \cup {<<frame.p1, frame.p2>>}
    /\ answer' = "none"

\* Every caller returns false when a call returns false.
ReturnFalse == answer' = "false" /\ stack' = <<>> /\ UNCHANGED visited

\* Mutant: the caller compares the same member again.
ReturnTrue_Again(s) ==
    /\ IF s = <<>> THEN answer' = "true" ELSE answer' = "none"
    /\ stack' = s /\ UNCHANGED visited

\* A call returned true: its caller goes on with the next member, or there
\* was none.  s is the stack without the call.
ReturnTrue(s) ==
    /\ IF s = <<>>
       THEN answer' = "true" /\ stack' = s
       ELSE answer' = "none" /\ stack' = [s EXCEPT ![Len(s)] = NextMember(@)]
    /\ UNCHANGED visited

taggedPtrEq(tp1, tp2) ==
    IF EqualAtOnce(tp1, tp2) THEN ReturnTrue(stack)
    ELSE IF Descends(tp1, tp2) THEN Push(Frame(tp1, tp2, TRUE))
    ELSE ReturnFalse

-----------------------------------------------------------------------------
\* lookup of mapping.c: the index of the key, or 0.
Lookup(m, key) ==
    IF \E j \in DOMAIN m.members : m.keys[j] = key
    THEN CHOOSE j \in DOMAIN m.members : m.keys[j] = key
    ELSE 0

\* The member of p2 that the i-th member of p1 is compared with.
Partner(p1, p2, i) == IF p1.tag = "list" THEN i ELSE Lookup(heap[p2.at], heap[p1.at].keys[i])

Top == stack[Len(stack)]

\* One round of the loop of _bal_list_eq_internal or _bal_mapping_eq_internal.
CompareMember ==
    /\ stack # <<>> /\ Top.next <= Len(Members(Top.p1))
    /\ LET j == Partner(Top.p1, Top.p2, Top.next)
       IN IF j = 0 THEN ReturnFalse
          ELSE taggedPtrEq(Members(Top.p1)[Top.next], Members(Top.p2)[j])
    /\ UNCHANGED <<heap, root>>

\* The loop has ended: return true.
EndLoop ==
    /\ stack # <<>> /\ Top.next > Len(Members(Top.p1))
    /\ ReturnTrue(SubSeq(stack, 1, Len(stack) - 1))
    /\ UNCHANGED <<heap, root>>

-----------------------------------------------------------------------------
TaggedRoot(tp) == IsStructure(tp) => heap[tp.at].tag = tp.tag

\* The call of the program: no other one is running.
Begin(tp1, tp2) == root = <<>> /\ root' = <<tp1, tp2>> /\ UNCHANGED heap

\* _bal_eq
Eq(tp1, tp2) == Begin(tp1, tp2) /\ taggedPtrEq(tp1, tp2)

\* _bal_list_eq and _bal_mapping_eq: the pair is not put on the EqStack.
StructureEq(tp1, tp2) ==
    /\ Begin(tp1, tp2)
    /\ tp1 \in Pointers /\ tp2 \in Pointers /\ tp1.tag = tp2.tag
    /\ IF Descends(tp1, tp2) THEN Push(Frame(tp1, tp2, FALSE)) ELSE ReturnFalse

\* The program has the answer and goes on.
Resume ==
    /\ answer # "none"
    /\ root' = <<>> /\ answer' = "none" /\ visited' = {}
    /\ UNCHANGED <<heap, stack>>

EqCall(Roots) == \E r \in Roots :
    /\ TaggedRoot(r[1]) /\ TaggedRoot(r[2])
    /\ Eq(r[1], r[2]) \/ StructureEq(r[1], r[2])

EqWork == CompareMember \/ EndLoop

EqInit ==
    /\ heap \in [Addresses -> Structures] /\ WellFormed
    /\ root = <<>> /\ stack = <<>> /\ answer = "none" /\ visited = {}

EqNext == EqCall(TaggedPtrs \X TaggedPtrs) \/ EqWork \/ Resume

EqSpec == EqInit /\ [][EqNext]_eqVars
-----------------------------------------------------------------------------
\* When a comparison has ended, its answer is right, however the structures
\* refer to each other: assuming that a pair further out is equal never
\* makes different values equal, and no difference is seen where there is
\* none (the EqStack of taggedPtrEq, balrt.h:900).
EqualityCorrect ==
    /\ answer = "true" => DeepEqual(root[1], root[2])
    /\ answer = "false" => ~DeepEqual(root[1], root[2])
=============================================================================

----------------------------- MODULE Emptiness -----------------------------
(***************************************************************************)
(* The memoised test whether a type is empty: memoSubtypeIsEmpty of        *)
(* types/common.bal, called for list, mapping, function and error types.   *)
(*                                                                         *)
(* The emptiness predicate of a Bdd (listBddIsEmpty and its likes) asks    *)
(* whether other Bdds are empty, in an order of its own, and returns some  *)
(* time after the answers decide.  It is monotone: a Bdd that is empty     *)
(* stays so when more of the others are.  So it is given here by clauses:  *)
(* a Bdd is empty iff each of its clauses has a member that is empty.      *)
(***************************************************************************)
EXTENDS Naturals, Sequences

CONSTANTS
    Bdds,       \* what the memo tables are keyed by
    Systems     \* type environments: the clauses of each Bdd

ASSUME SystemsAssumption == Systems \subseteq [Bdds -> SUBSET SUBSET Bdds]

VARIABLES
    clauses,    \* the emptiness predicates of the environment
    memo,       \* the field empty of each BddMemo; "nil" also when there is none
    memoStack,  \* the Bdds of cx.memoStack
    calls,      \* the activations of memoSubtypeIsEmpty, the innermost last
    answer      \* the last top-level question, and what was returned for it

vars == <<clauses, memo, memoStack, calls, answer>>

MemoEmpty == {"true", "false", "loop", "cyclic", "provisional", "nil"}

\* An activation: the Bdd, the length of memoStack on entry, and where the
\* predicate is: the Bdds it has been told are empty, or are inhabited.
Activation ==
    [bdd : Bdds, initStackDepth : Nat, empty : SUBSET Bdds, inhabited : SUBSET Bdds]

Unasked == [bdd |-> {}, empty |-> "nil"]

Answers == {Unasked} \cup [bdd : Bdds, empty : {"true", "false"}]

Init ==
    /\ clauses \in Systems
    /\ memo = [b \in Bdds |-> "nil"]
    /\ memoStack = <<>>
    /\ calls = <<>>
    /\ answer = Unasked

-----------------------------------------------------------------------------

(* An emptiness predicate, between two of its questions. *)

Top == calls[Len(calls)]

\* Mutant: what the predicate is told of an inhabited Bdd is lost.
Told_Forgets(a, b, isEmpty) ==
    IF isEmpty THEN [a EXCEPT !.empty = a.empty \cup {b}] ELSE a

\* The activation once it has been told whether b is empty.
Told(a, b, isEmpty) ==
    IF isEmpty THEN [a EXCEPT !.empty = a.empty \cup {b}]
               ELSE [a EXCEPT !.inhabited = a.inhabited \cup {b}]

\* bddEvery, over the formulas of the paths of the Bdd, can have a result.
PredicateHolds(a) == \A c \in clauses[a.bdd] : c \cap a.empty # {}
PredicateFails(a) == \E c \in clauses[a.bdd] : c \subseteq a.inhabited

Questions(a) == UNION clauses[a.bdd] \ (a.empty \cup a.inhabited)

\* The caller, if any, goes on with the result for b; otherwise the question of
\* the user of the type system is answered.
Resume(rest, b, isEmpty) ==
    IF rest = <<>>
    THEN /\ calls' = rest
         /\ answer' = [bdd |-> b, empty |-> IF isEmpty THEN "true" ELSE "false"]
    ELSE /\ calls' = [rest EXCEPT ![Len(rest)] = Told(rest[Len(rest)], b, isEmpty)]
         /\ UNCHANGED answer

-----------------------------------------------------------------------------

(* memoSubtypeIsEmpty up to the call of isEmptyPredicate. *)

KnownEmpty(b) ==
    /\ memo[b] \in {"cyclic", "true"}
    /\ Resume(calls, b, TRUE)
    /\ UNCHANGED <<memo, memoStack>>

KnownInhabited(b) ==
    /\ memo[b] = "false"
    /\ Resume(calls, b, FALSE)
    /\ UNCHANGED <<memo, memoStack>>

\* The test for a loop.
IsLoop(b) == memo[b] \in {"provisional", "loop"}

Loop(b) ==
    /\ IsLoop(b)
    /\ memo' = [memo EXCEPT ![b] = "loop"]
    /\ Resume(calls, b, TRUE)
    /\ UNCHANGED memoStack

StackDepth == Len(memoStack)

Enter(b) ==
    /\ ~ IsLoop(b)
    /\ memo[b] \notin {"cyclic", "true", "false"}
    /\ memo' = [memo EXCEPT ![b] = "provisional"]
    /\ memoStack' = Append(memoStack, b)
    /\ calls' = Append(calls, [bdd |-> b, initStackDepth |-> StackDepth,
                               empty |-> {}, inhabited |-> {}])
    /\ UNCHANGED answer

memoSubtypeIsEmpty(b) ==
    /\ KnownEmpty(b) \/ KnownInhabited(b) \/ Loop(b) \/ Enter(b)
    /\ UNCHANGED clauses

\* A user of the type system asks: isEmpty, isSubtype, isCyclic.
TopLevel(b) ==
    /\ calls = <<>>
    /\ memoSubtypeIsEmpty(b)

\* The predicate that is running asks.
Ask(b) ==
    /\ calls # <<>>
    /\ b \in Questions(Top)
    /\ memoSubtypeIsEmpty(b)

-----------------------------------------------------------------------------

(* memoSubtypeIsEmpty from the return of isEmptyPredicate. *)

\* Mutant: the loop starts one entry too high.
AbovePushed_OffByOne(a) ==
    {memoStack[i] : i \in (a.initStackDepth + 3) .. Len(memoStack)}

\* The entries that the loop over memoStack visits.
AbovePushed(a) ==
    {memoStack[i] : i \in (a.initStackDepth + 2) .. Len(memoStack)}

\* Mutant: a wrong assumption is forgotten but its consequences are kept.
Settled_NotUndone(a, isEmpty) ==
    [b \in Bdds |->
        IF b = a.bdd
        THEN IF ~ isEmpty THEN "false" ELSE IF memo[b] = "loop" THEN "cyclic" ELSE "true"
        ELSE IF b \in AbovePushed(a) /\ memo[b] \in {"provisional", "loop", "cyclic"}
             THEN "true"
             ELSE memo[b]]

\* The memo table once the entries that depended on this one are settled or
\* undone, and this one is settled.
Settled(a, isEmpty) ==
    [b \in Bdds |->
        IF b = a.bdd
        THEN IF ~ isEmpty THEN "false" ELSE IF memo[b] = "loop" THEN "cyclic" ELSE "true"
        ELSE IF b \in AbovePushed(a) /\ memo[b] \in {"provisional", "loop", "cyclic"}
             THEN IF isEmpty THEN "true" ELSE "nil"
             ELSE memo[b]]

\* Mutant: every result is taken for final.
Certain_Always(a, isEmpty) == TRUE

\* The result for this activation is final, for the entries above it too.
Certain(a, isEmpty) == ~ isEmpty \/ a.initStackDepth = 0

Return ==
    /\ calls # <<>>
    /\ PredicateHolds(Top) \/ PredicateFails(Top)
    /\ LET a == Top
           isEmpty == PredicateHolds(a)
       IN /\ IF Certain(a, isEmpty)
             THEN /\ memo' = Settled(a, isEmpty)
                  /\ memoStack' = SubSeq(memoStack, 1, a.initStackDepth)
             ELSE UNCHANGED <<memo, memoStack>>
          /\ Resume(SubSeq(calls, 1, Len(calls) - 1), a.bdd, isEmpty)
    /\ UNCHANGED clauses

-----------------------------------------------------------------------------

Next == Return \/ \E b \in Bdds : TopLevel(b) \/ Ask(b)

\* A question that was put is worked on until it is answered.
Working == Return \/ \E b \in Bdds : Ask(b)

Spec == Init /\ [][Next]_vars

FairSpec == Spec /\ WF_vars(Working)

-----------------------------------------------------------------------------

(* What emptiness means: types are inductive, so the inhabited Bdds are the *)
(* least set closed under the predicates, and the empty ones the greatest   *)
(* set each member of which has its clauses met within the set.             *)

SelfSupporting(E) == \A b \in E : \A c \in clauses[b] : c \cap E # {}

Empty == UNION {E \in SUBSET Bdds : SelfSupporting(E)}

TypeOK ==
    /\ clauses \in Systems
    /\ memo \in [Bdds -> MemoEmpty]
    /\ memoStack \in Seq(Bdds)
    /\ calls \in Seq(Activation)
    /\ answer \in Answers

\* What isEmpty returns is right whatever was asked before it, and however many
\* assumptions had to be undone on the way (lines 62 to 74).
AnswerCorrect ==
    answer # Unasked => (answer.empty = "true" <=> answer.bdd \in Empty)

\* A result that is kept for later questions holds without any assumption,
\* also while an outer test that may still fail is running (lines 66 and 73).
MemoSound ==
    \A b \in Bdds :
        /\ memo[b] \in {"true", "cyclic"} => b \in Empty
        /\ memo[b] = "false" => b \notin Empty

\* The comment on Context.memoStack: it contains all entries of the tables with
\* empty == "provisional" (those that became "loop" included), each of them once.
MemoStackComplete ==
    /\ \A b \in Bdds : IsLoop(b) <=> \E i \in DOMAIN memoStack : memoStack[i] = b
    /\ \A i, j \in DOMAIN memoStack : memoStack[i] = memoStack[j] => i = j

\* No Bdd is being tested inside a test of itself, which bounds the recursion of
\* memoSubtypeIsEmpty through the predicates by the number of Bdds (line 47).
NoReentry ==
    \A i, j \in DOMAIN calls : calls[i].bdd = calls[j].bdd => i = j

\* Undoing memos, and testing the Bdds again, comes to an end: every question is
\* answered (lines 62 to 69).
QuestionsAnswered == calls # <<>> ~> calls = <<>>
=============================================================================

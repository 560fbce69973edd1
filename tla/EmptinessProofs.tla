-------------------------- MODULE EmptinessProofs --------------------------
(***************************************************************************)
(* memoSubtypeIsEmpty decides emptiness, for every environment of types.   *)
(*                                                                         *)
(* The difficulty is that an activation that finds its Bdd empty inside    *)
(* another test leaves it on memoStack, on the strength of assumptions.    *)
(* The invariant says what these rest on: a Bdd that is known to be empty, *)
(* or an entry of memoStack that will not be undone earlier.               *)
(***************************************************************************)
EXTENDS Emptiness, SequenceTheorems, TLAPS

Depth(k) == calls[k].initStackDepth

\* Entry i of memoStack may rest on b being empty: b is, or b is on memoStack,
\* and is undone by no activation that leaves entry i alone.
Supported(i, b) ==
    \/ b \in Empty
    \/ \E j \in DOMAIN memoStack :
          /\ memoStack[j] = b
          /\ \A l \in DOMAIN calls : i <= Depth(l) => j <= Depth(l)

\* memoStack holds the activations, in their order, among the entries left on it.
StackInv ==
    /\ MemoStackComplete
    /\ calls = <<>> => memoStack = <<>>
    /\ calls # <<>> => Depth(1) = 0
    /\ \A k \in DOMAIN calls : Depth(k) < Len(memoStack) /\ memoStack[Depth(k) + 1] = calls[k].bdd
    /\ \A k, l \in DOMAIN calls : k < l => Depth(k) < Depth(l)

\* What the predicates were told, and what they concluded.
SupportInv ==
    /\ \A k \in DOMAIN calls : \A b \in calls[k].inhabited : b \notin Empty
    /\ \A k \in DOMAIN calls : \A b \in calls[k].empty : Supported(Depth(k) + 1, b)
    /\ \A i \in DOMAIN memoStack :
          (\A k \in DOMAIN calls : Depth(k) + 1 # i) =>
              \A c \in clauses[memoStack[i]] : \E b \in c : Supported(i, b)

IInv == TypeOK /\ StackInv /\ SupportInv /\ MemoSound /\ AnswerCorrect

-----------------------------------------------------------------------------

\* A member of a self-supporting set is empty.
LEMMA SelfSupportingIsEmpty ==
    ASSUME NEW E \in SUBSET Bdds, SelfSupporting(E)
    PROVE  E \subseteq Empty
  BY DEF Empty

\* The empty Bdds support each other.
LEMMA EmptyIsSelfSupporting ==
    /\ Empty \subseteq Bdds
    /\ SelfSupporting(Empty)
  BY DEF Empty, SelfSupporting

\* A Bdd one of whose clauses has only inhabited members is inhabited.
LEMMA RefutedClause ==
    ASSUME NEW b \in Bdds, NEW c \in clauses[b], \A d \in c : d \notin Empty
    PROVE  b \notin Empty
  BY EmptyIsSelfSupporting DEF SelfSupporting

\* Emptiness is a matter of the environment alone.
LEMMA EmptyUnchanged ==
    ASSUME UNCHANGED clauses
    PROVE  Empty' = Empty
  BY DEF Empty, SelfSupporting

\* Handing a result to the caller changes what the caller was told, and nothing else.
LEMMA ToldFacts ==
    ASSUME NEW rest \in Seq(Activation), rest # <<>>, NEW b \in Bdds, NEW isEmpty \in BOOLEAN,
           NEW r, r = [rest EXCEPT ![Len(rest)] = Told(rest[Len(rest)], b, isEmpty)]
    PROVE  /\ r \in Seq(Activation)
           /\ Len(r) = Len(rest)
           /\ \A k \in 1 .. Len(rest) :
                 /\ r[k].bdd = rest[k].bdd
                 /\ r[k].initStackDepth = rest[k].initStackDepth
                 /\ \A x \in r[k].empty : x \in rest[k].empty \/ (isEmpty /\ x = b /\ k = Len(rest))
                 /\ \A x \in r[k].inhabited : x \in rest[k].inhabited \/ (~ isEmpty /\ x = b /\ k = Len(rest))
<1> DEFINE n == Len(rest)
           a == rest[n]
<1>1. n \in Nat /\ n > 0 /\ a \in Activation
  <2>1. n \in Nat /\ n # 0
    OBVIOUS
  <2> QED BY <2>1
<1>2. Told(a, b, isEmpty) \in Activation
  BY <1>1 DEF Told, Activation
<1>3. /\ Told(a, b, isEmpty).bdd = a.bdd
      /\ Told(a, b, isEmpty).initStackDepth = a.initStackDepth
      /\ \A x \in Told(a, b, isEmpty).empty : x \in a.empty \/ (isEmpty /\ x = b)
      /\ \A x \in Told(a, b, isEmpty).inhabited : x \in a.inhabited \/ (~ isEmpty /\ x = b)
  BY <1>1 DEF Told, Activation
<1>4. r \in Seq(Activation) /\ Len(r) = n
  BY <1>1, <1>2
<1>5. \A k \in 1 .. n : r[k] = IF k = n THEN Told(a, b, isEmpty) ELSE rest[k]
  BY <1>1
<1> QED
  BY <1>1, <1>3, <1>4, <1>5

\* What a prefix of a sequence is.
LEMMA PrefixFacts ==
    ASSUME NEW S, NEW s \in Seq(S), NEW n \in 0 .. Len(s)
    PROVE  /\ SubSeq(s, 1, n) \in Seq(S)
           /\ Len(SubSeq(s, 1, n)) = n
           /\ \A i \in 1 .. n : SubSeq(s, 1, n)[i] = s[i]
<1>1. Len(s) \in Nat /\ \A i \in 1 .. n : s[i] \in S
  BY LenProperties
<1>2. n \in Int /\ 1 \in Int
  BY <1>1
<1>3. /\ SubSeq(s, 1, n) \in Seq(S)
      /\ Len(SubSeq(s, 1, n)) = IF 1 <= n THEN n - 1 + 1 ELSE 0
      /\ \A i \in 1 .. n - 1 + 1 : SubSeq(s, 1, n)[i] = s[1 + i - 1]
  BY <1>1, <1>2, SubSeqProperties
<1> QED BY <1>1, <1>3

\* The shape of calls once an activation has returned.
LEMMA ReturnedCalls ==
    ASSUME TypeOK, calls # <<>>, NEW isEmpty \in BOOLEAN,
           Resume(SubSeq(calls, 1, Len(calls) - 1), Top.bdd, isEmpty)
    PROVE  /\ calls' \in Seq(Activation)
           /\ Len(calls') = Len(calls) - 1
           /\ \A k \in 1 .. Len(calls) - 1 :
                 /\ calls'[k].bdd = calls[k].bdd
                 /\ calls'[k].initStackDepth = calls[k].initStackDepth
                 /\ \A x \in calls'[k].empty :
                       x \in calls[k].empty \/ (isEmpty /\ x = Top.bdd /\ k = Len(calls) - 1)
                 /\ \A x \in calls'[k].inhabited :
                       x \in calls[k].inhabited \/ (~ isEmpty /\ x = Top.bdd /\ k = Len(calls) - 1)
           /\ \/ answer' = answer
              \/ isEmpty /\ answer' = [bdd |-> Top.bdd, empty |-> "true"]
              \/ ~ isEmpty /\ answer' = [bdd |-> Top.bdd, empty |-> "false"]
<1> DEFINE n == Len(calls)
           rest == SubSeq(calls, 1, n - 1)
<1>1. n \in Nat /\ n > 0 /\ calls \in Seq(Activation) /\ Top \in Activation
  <2>1. n \in Nat /\ n # 0 /\ calls \in Seq(Activation)
    BY DEF TypeOK
  <2> QED BY <2>1 DEF Top
<1>2. rest \in Seq(Activation) /\ Len(rest) = n - 1 /\ \A k \in 1 .. n - 1 : rest[k] = calls[k]
  <2>1. n - 1 \in 0 .. Len(calls)
    BY <1>1
  <2> QED BY <1>1, <2>1, PrefixFacts
<1> HIDE DEF rest
<1>3. CASE rest = <<>>
  <2>1. n - 1 = 0 /\ calls' = <<>>
    BY <1>2, <1>3 DEF Resume, rest
  <2> QED BY <1>1, <1>3, <2>1 DEF Resume, rest
<1>4. CASE rest # <<>>
  <2>1. /\ calls' = [rest EXCEPT ![Len(rest)] = Told(rest[Len(rest)], Top.bdd, isEmpty)]
        /\ answer' = answer
    BY <1>4 DEF Resume, rest
  <2>2. Top.bdd \in Bdds
    BY <1>1 DEF Activation
  <2>3. /\ calls' \in Seq(Activation)
        /\ Len(calls') = Len(rest)
        /\ \A k \in 1 .. Len(rest) :
              /\ calls'[k].bdd = rest[k].bdd
              /\ calls'[k].initStackDepth = rest[k].initStackDepth
              /\ \A x \in calls'[k].empty :
                    x \in rest[k].empty \/ (isEmpty /\ x = Top.bdd /\ k = Len(rest))
              /\ \A x \in calls'[k].inhabited :
                    x \in rest[k].inhabited \/ (~ isEmpty /\ x = Top.bdd /\ k = Len(rest))
    BY <1>2, <1>4, <2>1, <2>2, ToldFacts
  <2> QED BY <1>2, <2>1, <2>3
<1> QED BY <1>3, <1>4

\* An answer from the tables is handed to the predicate that asked.
LEMMA Delivered ==
    ASSUME TypeOK, StackInv, SupportInv, calls # <<>>, NEW b \in Bdds, NEW isEmpty \in BOOLEAN,
           calls' = [calls EXCEPT ![Len(calls)] = Told(Top, b, isEmpty)],
           UNCHANGED <<clauses, memoStack>>,
           \A x \in Bdds : IsLoop(x)' <=> IsLoop(x),
           isEmpty => Supported(Depth(Len(calls)) + 1, b),
           ~ isEmpty => b \notin Empty
    PROVE  calls' \in Seq(Activation) /\ StackInv' /\ SupportInv'
<1>1. /\ calls' \in Seq(Activation)
      /\ Len(calls') = Len(calls)
      /\ \A k \in 1 .. Len(calls) :
            /\ calls'[k].bdd = calls[k].bdd
            /\ calls'[k].initStackDepth = calls[k].initStackDepth
            /\ \A x \in calls'[k].empty : x \in calls[k].empty \/ (isEmpty /\ x = b /\ k = Len(calls))
            /\ \A x \in calls'[k].inhabited :
                  x \in calls[k].inhabited \/ (~ isEmpty /\ x = b /\ k = Len(calls))
  BY ToldFacts DEF TypeOK, Top
<1>2. calls \in Seq(Activation) /\ Len(calls) \in Nat /\ DOMAIN calls = 1 .. Len(calls)
      /\ DOMAIN calls' = DOMAIN calls /\ Len(calls) # 0
  BY <1>1 DEF TypeOK
<1>3. \A k \in DOMAIN calls : Depth(k)' = Depth(k)
  BY <1>1, <1>2 DEF Depth
<1>4. Empty' = Empty
  BY EmptyUnchanged
<1>5. \A i, x : Supported(i, x)' <=> Supported(i, x)
  BY <1>2, <1>3, <1>4 DEF Supported
<1>6. StackInv'
  <2>1. MemoStackComplete'
    BY DEF StackInv, MemoStackComplete
  <2>2. (calls = <<>> => memoStack = <<>>)'
    BY <1>1, <1>2
  <2>3. (calls # <<>> => Depth(1) = 0)'
    BY <1>2, <1>3 DEF StackInv
  <2>4. (\A k \in DOMAIN calls : Depth(k) < Len(memoStack) /\ memoStack[Depth(k) + 1] = calls[k].bdd)'
    <3> SUFFICES ASSUME NEW k \in DOMAIN calls
                 PROVE  (Depth(k) < Len(memoStack) /\ memoStack[Depth(k) + 1] = calls[k].bdd)'
      BY <1>2
    <3> QED BY <1>1, <1>2, <1>3 DEF StackInv
  <2>5. (\A k, l \in DOMAIN calls : k < l => Depth(k) < Depth(l))'
    BY <1>2, <1>3 DEF StackInv
  <2> QED BY <2>1, <2>2, <2>3, <2>4, <2>5 DEF StackInv
<1>7. SupportInv'
  <2>1. (\A k \in DOMAIN calls : \A x \in calls[k].inhabited : x \notin Empty)'
    <3> SUFFICES ASSUME NEW k \in DOMAIN calls, NEW x \in calls'[k].inhabited
                 PROVE  x \notin Empty
      BY <1>2, <1>4
    <3>1. x \in calls[k].inhabited \/ (~ isEmpty /\ x = b /\ k = Len(calls))
      BY <1>1, <1>2, Zenon
    <3> QED BY <3>1 DEF SupportInv
  <2>2. (\A k \in DOMAIN calls : \A x \in calls[k].empty : Supported(Depth(k) + 1, x))'
    <3> SUFFICES ASSUME NEW k \in DOMAIN calls, NEW x \in calls'[k].empty
                 PROVE  Supported(Depth(k) + 1, x)
      BY <1>2, <1>3, <1>5
    <3>1. x \in calls[k].empty \/ (isEmpty /\ x = b /\ k = Len(calls))
      BY <1>1, <1>2, Zenon
    <3> QED BY <3>1 DEF SupportInv
  <2>3. (\A i \in DOMAIN memoStack :
          (\A k \in DOMAIN calls : Depth(k) + 1 # i) =>
              \A c \in clauses[memoStack[i]] : \E x \in c : Supported(i, x))'
    BY <1>2, <1>3, <1>5 DEF SupportInv
  <2> QED BY <2>1, <2>2, <2>3 DEF SupportInv
<1> QED BY <1>1, <1>6, <1>7

\* A Bdd of which nothing is known is put on memoStack and tested.
LEMMA Entered ==
    ASSUME IInv, NEW b \in Bdds, Enter(b), UNCHANGED clauses
    PROVE  IInv'
<1>0. Len(calls) \in Nat /\ DOMAIN calls = 1 .. Len(calls)
      /\ Len(memoStack) \in Nat /\ DOMAIN memoStack = 1 .. Len(memoStack)
  BY DEF IInv, TypeOK
<1>n. PICK n \in Nat : n = Len(calls)
  BY <1>0
<1>m. PICK m \in Nat : m = Len(memoStack)
  BY <1>0
<1> DEFINE a == [bdd |-> b, initStackDepth |-> m, empty |-> {}, inhabited |-> {}]
<1>1. DOMAIN calls = 1 .. n /\ DOMAIN memoStack = 1 .. m
  BY <1>0, <1>n, <1>m
<1>2. /\ memoStack' \in Seq(Bdds) /\ Len(memoStack') = m + 1 /\ DOMAIN memoStack' = 1 .. (m + 1)
      /\ \A i \in 1 .. m : memoStack'[i] = memoStack[i]
      /\ memoStack'[m + 1] = b
  BY <1>n, <1>m DEF IInv, TypeOK, Enter
<1>3. a \in Activation /\ calls' = Append(calls, a)
  BY <1>m DEF Enter, StackDepth, Activation
<1>4. /\ a.bdd = b /\ a.initStackDepth = m /\ a.empty = {} /\ a.inhabited = {}
  OBVIOUS
<1> HIDE DEF a
<1>5. /\ calls' \in Seq(Activation) /\ Len(calls') = n + 1 /\ DOMAIN calls' = 1 .. (n + 1)
      /\ \A k \in 1 .. n : calls'[k] = calls[k]
      /\ calls'[n + 1] = a
  BY <1>n, <1>3 DEF IInv, TypeOK
<1>6. (\A k \in 1 .. n : Depth(k)' = Depth(k) /\ Depth(k) \in Nat) /\ Depth(n + 1)' = m
  <2>1. \A k \in 1 .. n : calls[k] \in Activation
    BY <1>1 DEF IInv, TypeOK
  <2> QED BY <1>4, <1>5, <2>1 DEF Depth, Activation
<1>7. Empty' = Empty
  BY EmptyUnchanged
<1>8. /\ memo' \in [Bdds -> MemoEmpty]
      /\ \A x \in Bdds : memo'[x] = IF x = b THEN "provisional" ELSE memo[x]
  BY DEF IInv, TypeOK, Enter, MemoEmpty
<1>9. TypeOK'
  BY <1>2, <1>5, <1>8 DEF IInv, TypeOK, Enter
<1>10. MemoStackComplete'
  <2>1. \A x \in Bdds : IsLoop(x)' <=> IsLoop(x) \/ x = b
    BY <1>8 DEF IsLoop
  <2>2. ~ IsLoop(b)
    BY DEF Enter
  <2>3. \A x \in Bdds : IsLoop(x) <=> \E i \in 1 .. m : memoStack[i] = x
    BY <1>1 DEF IInv, StackInv, MemoStackComplete
  <2>4. \A x \in Bdds : IsLoop(x)' <=> \E i \in 1 .. (m + 1) : memoStack'[i] = x
    BY <1>1, <1>2, <2>1, <2>3
  <2>5. \A i \in 1 .. m : memoStack'[i] # b
    BY <1>2, <2>2, <2>3
  <2>6. \A i, j \in 1 .. m : memoStack'[i] = memoStack'[j] => i = j
    BY <1>1, <1>2 DEF IInv, StackInv, MemoStackComplete
  <2>7. \A i, j \in 1 .. (m + 1) : memoStack'[i] = memoStack'[j] => i = j
    BY <1>1, <1>2, <2>5, <2>6
  <2> QED BY <1>2, <2>4, <2>7 DEF MemoStackComplete
<1>11. StackInv'
  <2>1. (calls = <<>> => memoStack = <<>>)'
    BY <1>1, <1>5
  <2>2. (calls # <<>> => Depth(1) = 0)'
    <3>1. CASE n = 0
      <4>1. calls = <<>> /\ memoStack = <<>>
        <5>1. calls \in Seq(Activation) /\ Len(calls) = 0
          BY <1>n, <3>1 DEF IInv, TypeOK
        <5>2. calls = <<>>
          BY <5>1
        <5> QED BY <5>2 DEF IInv, StackInv
      <4> QED BY <1>m, <1>6, <3>1, <4>1
    <3>2. CASE n # 0
      <4>1. calls # <<>> /\ 1 \in 1 .. n
        <5>1. calls # <<>>
          BY <1>n, <3>2
        <5> QED BY <3>2, <5>1
      <4> QED BY <1>6, <4>1 DEF IInv, StackInv
    <3> QED BY <3>1, <3>2
  <2>3. ASSUME NEW k \in 1 .. (n + 1)
        PROVE  (Depth(k) < Len(memoStack) /\ memoStack[Depth(k) + 1] = calls[k].bdd)'
    <3>1. CASE k = n + 1
      BY <1>1, <1>2, <1>4, <1>5, <1>6, <3>1
    <3>2. CASE k \in 1 .. n
      <4>1. Depth(k) < m /\ memoStack[Depth(k) + 1] = calls[k].bdd
        BY <1>m, <1>1, <3>2 DEF IInv, StackInv
      <4> QED BY <1>1, <1>2, <1>5, <1>6, <3>2, <4>1
    <3> QED BY <1>1, <3>1, <3>2
  <2>4. ASSUME NEW k \in 1 .. (n + 1), NEW l \in 1 .. (n + 1), k < l
        PROVE  (Depth(k) < Depth(l))'
    <3>1. k \in 1 .. n /\ Depth(k) < m
      BY <1>m, <1>1, <2>4 DEF IInv, StackInv
    <3>2. CASE l = n + 1
      BY <1>6, <3>1, <3>2
    <3>3. CASE l \in 1 .. n
      BY <1>1, <1>6, <2>4, <3>1, <3>3 DEF IInv, StackInv
    <3> QED BY <1>1, <3>2, <3>3
  <2> QED BY <1>5, <1>10, <2>1, <2>2, <2>3, <2>4 DEF StackInv
<1>12. ASSUME NEW i \in 1 .. m, NEW x, Supported(i, x)
       PROVE  Supported(i, x)'
  <2>1. CASE x \in Empty
    BY <1>7, <2>1 DEF Supported
  <2>2. CASE \E j \in 1 .. m : /\ memoStack[j] = x
                               /\ \A l \in 1 .. n : i <= Depth(l) => j <= Depth(l)
    <3>1. PICK j \in 1 .. m : /\ memoStack[j] = x
                              /\ \A l \in 1 .. n : i <= Depth(l) => j <= Depth(l)
      BY <2>2
    <3>2. j \in DOMAIN memoStack' /\ memoStack'[j] = x
      BY <1>1, <1>2, <3>1
    <3>3. \A l \in 1 .. (n + 1) : l \in 1 .. n \/ l = n + 1
      BY <1>1
    <3>4. \A l \in DOMAIN calls' : i <= Depth(l)' => j <= Depth(l)'
      BY <1>1, <1>5, <1>6, <3>1, <3>3
    <3> QED BY <3>2, <3>4 DEF Supported
  <2> QED BY <1>1, <1>12, <2>1, <2>2 DEF Supported
<1>13. SupportInv'
  <2>1. ASSUME NEW k \in 1 .. (n + 1), NEW x \in calls'[k].inhabited
        PROVE  x \notin Empty
    <3>1. k \in 1 .. n
      BY <1>1, <1>4, <1>5, <2>1
    <3> QED BY <1>1, <1>5, <2>1, <3>1 DEF IInv, SupportInv
  <2>2. ASSUME NEW k \in 1 .. (n + 1), NEW x \in calls'[k].empty
        PROVE  Supported(Depth(k) + 1, x)'
    <3>1. k \in 1 .. n
      BY <1>1, <1>4, <1>5, <2>2
    <3>2. Supported(Depth(k) + 1, x) /\ Depth(k) + 1 \in 1 .. m
      <4>1. x \in calls[k].empty /\ k \in DOMAIN calls
        BY <1>1, <1>5, <2>2, <3>1
      <4>2. Depth(k) < m /\ Depth(k) \in Nat
        BY <1>m, <1>6, <3>1, <4>1 DEF IInv, StackInv
      <4>3. Supported(Depth(k) + 1, x)
        BY <4>1 DEF IInv, SupportInv
      <4> QED BY <4>2, <4>3
    <3>3. Supported(Depth(k) + 1, x)' <=> \E i \in 1 .. m : i = Depth(k) + 1 /\ Supported(i, x)'
      BY <1>6, <3>1, <3>2
    <3> QED BY <1>12, <3>2, <3>3
  <2>3. ASSUME NEW i \in 1 .. (m + 1), \A k \in 1 .. (n + 1) : Depth(k)' + 1 # i,
               NEW c \in clauses[memoStack'[i]]
        PROVE  \E x \in c : Supported(i, x)'
    <3>1. i \in 1 .. m
      BY <1>1, <1>6, <2>3
    <3>2. \A k \in 1 .. n : Depth(k) + 1 # i
      BY <1>1, <1>6, <2>3
    <3>3. PICK x \in c : Supported(i, x)
      BY <1>1, <1>2, <2>3, <3>1, <3>2 DEF IInv, SupportInv
    <3> QED BY <1>12, <3>1, <3>3
  <2>4. (\A k \in DOMAIN calls : \A x \in calls[k].inhabited : x \notin Empty)'
    BY <1>5, <1>7, <2>1
  <2>5. (\A k \in DOMAIN calls : \A x \in calls[k].empty : Supported(Depth(k) + 1, x))'
    BY <1>5, <2>2
  <2>6. (\A i \in DOMAIN memoStack :
          (\A k \in DOMAIN calls : Depth(k) + 1 # i) =>
              \A c \in clauses[memoStack[i]] : \E x \in c : Supported(i, x))'
    BY <1>2, <1>5, <2>3
  <2> QED BY <2>4, <2>5, <2>6 DEF SupportInv
<1>14. MemoSound' /\ AnswerCorrect'
  <2>1. MemoSound'
    BY <1>7, <1>8 DEF IInv, MemoSound
  <2>2. AnswerCorrect'
    BY <1>7 DEF IInv, AnswerCorrect, Enter
  <2> QED BY <2>1, <2>2
<1> QED BY <1>9, <1>11, <1>13, <1>14 DEF IInv

\* The facts about the innermost activation and its callers that the three ways of
\* returning have in common.
LEMMA TopFacts ==
    ASSUME TypeOK, StackInv, calls # <<>>
    PROVE  /\ Len(calls) \in Nat /\ Len(calls) > 0 /\ DOMAIN calls = 1 .. Len(calls)
           /\ Len(memoStack) \in Nat /\ DOMAIN memoStack = 1 .. Len(memoStack)
           /\ \A k \in 1 .. Len(calls) : calls[k] \in Activation /\ Depth(k) \in Nat
           /\ Top.bdd \in Bdds /\ Top.initStackDepth = Depth(Len(calls))
           /\ Depth(Len(calls)) < Len(memoStack)
           /\ memoStack[Depth(Len(calls)) + 1] = Top.bdd
           /\ \A k \in 1 .. Len(calls) - 1 : Depth(k) < Depth(Len(calls))
           /\ Depth(Len(calls)) = 0 <=> Len(calls) = 1
<1>1. calls \in Seq(Activation) /\ Len(calls) \in Nat /\ Len(calls) # 0
      /\ DOMAIN calls = 1 .. Len(calls)
  BY DEF TypeOK
<1>2. Len(memoStack) \in Nat /\ DOMAIN memoStack = 1 .. Len(memoStack)
  BY DEF TypeOK
<1>3. Len(calls) > 0 /\ Len(calls) \in DOMAIN calls /\ 1 \in DOMAIN calls
  BY <1>1
<1>4. \A k \in 1 .. Len(calls) : calls[k] \in Activation /\ Depth(k) \in Nat
  <2>1. \A k \in 1 .. Len(calls) : calls[k] \in Activation
    BY <1>1
  <2> QED BY <2>1 DEF Depth, Activation
<1>5. Top.bdd \in Bdds /\ Top.initStackDepth = Depth(Len(calls))
  BY <1>1, <1>3, <1>4 DEF Depth, Activation, Top
<1>6. Depth(Len(calls)) < Len(memoStack) /\ memoStack[Depth(Len(calls)) + 1] = Top.bdd
  BY <1>3 DEF StackInv, Top
<1>7. \A k \in 1 .. Len(calls) - 1 : Depth(k) < Depth(Len(calls))
  <2> SUFFICES ASSUME NEW k \in 1 .. Len(calls) - 1 PROVE Depth(k) < Depth(Len(calls))
    OBVIOUS
  <2>1. k \in DOMAIN calls /\ k < Len(calls)
    BY <1>1
  <2> QED BY <1>3, <2>1 DEF StackInv
<1>8. Depth(1) = 0
  BY DEF StackInv
<1>9. Len(calls) # 1 => Depth(Len(calls)) # 0
  <2> SUFFICES ASSUME Len(calls) # 1 PROVE Depth(1) < Depth(Len(calls))
    BY <1>3, <1>4, <1>8
  <2>1. 1 \in 1 .. Len(calls) - 1
    BY <1>1
  <2> QED BY <1>7, <2>1
<1> QED BY <1>1, <1>2, <1>3, <1>4, <1>5, <1>6, <1>7, <1>8, <1>9

\* An empty Bdd inside another test stays on memoStack.
LEMMA ReturnedProvisionally ==
    ASSUME IInv, calls # <<>>, PredicateHolds(Top), Top.initStackDepth # 0,
           Resume(SubSeq(calls, 1, Len(calls) - 1), Top.bdd, TRUE),
           UNCHANGED <<clauses, memo, memoStack>>
    PROVE  IInv'
<1>0. TypeOK /\ StackInv /\ SupportInv
  BY DEF IInv
<1>n. PICK n \in Nat : n = Len(calls)
  BY <1>0, TopFacts
<1>1. /\ n > 1 /\ DOMAIN calls = 1 .. n /\ DOMAIN memoStack = 1 .. Len(memoStack)
      /\ Len(memoStack) \in Nat
      /\ \A k \in 1 .. n : Depth(k) \in Nat
      /\ Top.bdd \in Bdds /\ Depth(n) < Len(memoStack) /\ memoStack[Depth(n) + 1] = Top.bdd
      /\ \A k \in 1 .. n - 1 : Depth(k) < Depth(n)
  BY <1>0, <1>n, TopFacts
<1>2. /\ calls' \in Seq(Activation)
      /\ Len(calls') = n - 1
      /\ \A k \in 1 .. n - 1 :
            /\ calls'[k].bdd = calls[k].bdd
            /\ calls'[k].initStackDepth = calls[k].initStackDepth
            /\ \A x \in calls'[k].empty : x \in calls[k].empty \/ (x = Top.bdd /\ k = n - 1)
            /\ \A x \in calls'[k].inhabited : x \in calls[k].inhabited
  BY <1>0, <1>n, ReturnedCalls
<1>3. answer' = answer
  <2>1. Len(SubSeq(calls, 1, Len(calls) - 1)) = Len(calls) - 1
    <3>1. calls \in Seq(Activation) /\ Len(calls) - 1 \in 0 .. Len(calls)
      BY <1>0, <1>n, <1>1 DEF TypeOK
    <3> QED BY <3>1, PrefixFacts
  <2>2. SubSeq(calls, 1, Len(calls) - 1) # <<>>
    <3>1. PICK rest : rest = SubSeq(calls, 1, Len(calls) - 1)
      OBVIOUS
    <3>2. Len(rest) = n - 1 /\ n > 1
      BY <1>n, <1>1, <2>1, <3>1
    <3>3. rest # <<>>
      BY <3>2
    <3> QED BY <3>1, <3>3
  <2> QED BY <2>2 DEF Resume
<1>4. DOMAIN calls' = 1 .. n - 1 /\ \A k \in 1 .. n - 1 : Depth(k)' = Depth(k)
  BY <1>2 DEF Depth
<1>5. Empty' = Empty
  BY EmptyUnchanged
<1>6. \A i, x : Supported(i, x) => Supported(i, x)'
  <2> SUFFICES ASSUME NEW i, NEW x, Supported(i, x) PROVE Supported(i, x)'
    OBVIOUS
  <2>1. \A l \in DOMAIN calls' : l \in DOMAIN calls /\ Depth(l)' = Depth(l)
    BY <1>1, <1>4
  <2> QED BY <1>5, <2>1 DEF Supported
<1>7. TypeOK'
  BY <1>0, <1>2, <1>3 DEF TypeOK
<1>8. StackInv'
  <2>1. MemoStackComplete'
    BY <1>0 DEF StackInv, MemoStackComplete, IsLoop
  <2>2. calls' # <<>>
    BY <1>1, <1>2
  <2>3. Depth(1)' = 0
    <3>1. 1 \in 1 .. n - 1
      BY <1>1
    <3> QED BY <1>0, <1>4, <3>1 DEF StackInv
  <2>4. ASSUME NEW k \in 1 .. n - 1
        PROVE  (Depth(k) < Len(memoStack) /\ memoStack[Depth(k) + 1] = calls[k].bdd)'
    <3>1. k \in DOMAIN calls
      BY <1>1
    <3> QED BY <1>0, <1>2, <1>4, <3>1 DEF StackInv
  <2>5. ASSUME NEW k \in 1 .. n - 1, NEW l \in 1 .. n - 1, k < l
        PROVE  (Depth(k) < Depth(l))'
    <3>1. k \in DOMAIN calls /\ l \in DOMAIN calls
      BY <1>1
    <3> QED BY <1>0, <1>4, <2>5, <3>1 DEF StackInv
  <2> QED BY <1>4, <2>1, <2>2, <2>3, <2>4, <2>5 DEF StackInv
<1>9. ASSUME NEW k \in 1 .. n - 1, NEW x \in calls'[k].empty
      PROVE  Supported(Depth(k) + 1, x)'
  <2>1. Depth(k)' = Depth(k) /\ k \in DOMAIN calls
    BY <1>1, <1>4
  <2>2. CASE x \in calls[k].empty
    <3>1. Supported(Depth(k) + 1, x)
      BY <1>0, <2>1, <2>2 DEF SupportInv
    <3>2. \A i : i = Depth(k) + 1 => Supported(i, x)'
      BY <1>6, <3>1
    <3> QED BY <2>1, <3>2
  <2>3. CASE x = Top.bdd /\ k = n - 1
    <3>1. PICK d \in Nat : d = Depth(n)
      BY <1>1
    <3>2. d + 1 \in DOMAIN memoStack' /\ memoStack'[d + 1] = x
      BY <1>1, <2>3, <3>1
    <3>3. \A l \in DOMAIN calls' : Depth(l)' <= Depth(k)'
      <4> SUFFICES ASSUME NEW l \in 1 .. n - 1 PROVE Depth(l) <= Depth(k)
        BY <1>4, <2>1
      <4>1. l = k \/ l < k
        BY <2>3
      <4>2. l \in DOMAIN calls
        BY <1>1
      <4> QED BY <1>0, <1>1, <2>1, <4>1, <4>2 DEF StackInv
    <3>4. \A l \in DOMAIN calls' : ~ (Depth(k)' + 1 <= Depth(l)')
      BY <1>1, <1>4, <2>1, <3>3
    <3> QED BY <3>2, <3>4 DEF Supported
  <2> QED BY <1>2, <1>9, <2>2, <2>3
<1>10. ASSUME NEW i \in DOMAIN memoStack, \A k \in 1 .. n - 1 : Depth(k) + 1 # i,
              NEW c \in clauses[memoStack[i]]
       PROVE  \E x \in c : Supported(i, x)'
  <2>1. CASE i = Depth(n) + 1
    <3>1. PICK x \in c : x \in Top.empty
      BY <1>1, <1>10, <2>1 DEF PredicateHolds
    <3>2. Supported(i, x)
      <4>1. n \in DOMAIN calls /\ Top = calls[n]
        BY <1>n, <1>1 DEF Top
      <4>2. Supported(Depth(n) + 1, x)
        BY <1>0, <3>1, <4>1, Zenon DEF SupportInv
      <4> QED BY <2>1, <4>2
    <3> QED BY <1>6, <3>2
  <2>2. CASE i # Depth(n) + 1
    <3>1. \A k \in DOMAIN calls : k \in 1 .. n - 1 \/ k = n
      BY <1>1
    <3>2. \A k \in DOMAIN calls : Depth(k) + 1 # i
      BY <1>10, <2>2, <3>1
    <3>3. PICK x \in c : Supported(i, x)
      BY <1>0, <1>10, <3>2 DEF SupportInv
    <3> QED BY <1>6, <3>3
  <2> QED BY <2>1, <2>2
<1>11. SupportInv'
  <2>1. (\A k \in DOMAIN calls : \A x \in calls[k].inhabited : x \notin Empty)'
    <3> SUFFICES ASSUME NEW k \in 1 .. n - 1, NEW x \in calls'[k].inhabited PROVE x \notin Empty
      BY <1>4, <1>5
    <3>1. k \in DOMAIN calls /\ x \in calls[k].inhabited
      BY <1>1, <1>2
    <3> QED BY <1>0, <3>1 DEF SupportInv
  <2>2. (\A k \in DOMAIN calls : \A x \in calls[k].empty : Supported(Depth(k) + 1, x))'
    BY <1>4, <1>9
  <2>3. (\A i \in DOMAIN memoStack :
          (\A k \in DOMAIN calls : Depth(k) + 1 # i) =>
              \A c \in clauses[memoStack[i]] : \E x \in c : Supported(i, x))'
    BY <1>4, <1>10
  <2> QED BY <2>1, <2>2, <2>3 DEF SupportInv
<1>12. MemoSound' /\ AnswerCorrect'
  BY <1>3, <1>5 DEF IInv, MemoSound, AnswerCorrect
<1> QED BY <1>7, <1>8, <1>11, <1>12 DEF IInv

\* The outermost test has found its Bdd empty: memoStack supports itself.
LEMMA ReturnedEmpty ==
    ASSUME IInv, calls # <<>>, PredicateHolds(Top), Top.initStackDepth = 0,
           Resume(SubSeq(calls, 1, Len(calls) - 1), Top.bdd, TRUE),
           memo' = Settled(Top, TRUE),
           memoStack' = SubSeq(memoStack, 1, Top.initStackDepth),
           UNCHANGED clauses
    PROVE  IInv'
<1>0. TypeOK /\ StackInv /\ SupportInv
  BY DEF IInv
<1>1. /\ Len(calls) = 1 /\ DOMAIN calls = 1 .. 1 /\ DOMAIN memoStack = 1 .. Len(memoStack)
      /\ Len(memoStack) \in Nat /\ 0 < Len(memoStack)
      /\ Top.bdd \in Bdds /\ Depth(1) = 0 /\ memoStack[1] = Top.bdd /\ Top = calls[1]
  BY <1>0, TopFacts DEF Top
<1>2. \A i \in DOMAIN memoStack : memoStack[i] \in Bdds
  BY <1>0 DEF TypeOK
<1> DEFINE E == Empty \cup {memoStack[i] : i \in DOMAIN memoStack}
<1>3. E \in SUBSET Bdds
  BY <1>2, EmptyIsSelfSupporting
<1>4. \A i, x : Supported(i, x) => x \in E
  BY DEF Supported
<1>5. ASSUME NEW i \in DOMAIN memoStack, NEW c \in clauses[memoStack[i]]
      PROVE  c \cap E # {}
  <2>1. CASE i = 1
    <3>1. PICK x \in c : x \in Top.empty
      BY <1>1, <1>5, <2>1 DEF PredicateHolds
    <3>2. 1 \in DOMAIN calls /\ x \in calls[1].empty
      BY <1>1, <3>1
    <3>3. Supported(Depth(1) + 1, x)
      BY <1>0, <3>2 DEF SupportInv
    <3> QED BY <1>4, <3>3
  <2>2. CASE i # 1
    <3>1. \A k \in DOMAIN calls : Depth(k) + 1 # i
      BY <1>1, <2>2
    <3>2. PICK x \in c : Supported(i, x)
      BY <1>0, <1>5, <3>1 DEF SupportInv
    <3> QED BY <1>4, <3>2
  <2> QED BY <2>1, <2>2
<1>6. E \subseteq Empty
  <2>1. SelfSupporting(E)
    <3> SUFFICES ASSUME NEW b \in E, NEW c \in clauses[b] PROVE c \cap E # {}
      BY DEF SelfSupporting
    <3>1. CASE b \in Empty
      BY <3>1, EmptyIsSelfSupporting DEF SelfSupporting
    <3>2. CASE \E i \in DOMAIN memoStack : b = memoStack[i]
      BY <1>5, <3>2
    <3> QED BY <3>1, <3>2
  <2> QED BY <1>3, <2>1, SelfSupportingIsEmpty
<1>7. /\ calls' \in Seq(Activation) /\ Len(calls') = 0
      /\ \/ answer' = answer
         \/ answer' = [bdd |-> Top.bdd, empty |-> "true"]
  <2>1. TRUE \in BOOLEAN
    OBVIOUS
  <2>2. /\ calls' \in Seq(Activation) /\ Len(calls') = Len(calls) - 1
        /\ \/ answer' = answer
           \/ answer' = [bdd |-> Top.bdd, empty |-> "true"]
    BY <1>0, <2>1, ReturnedCalls, Zenon
  <2> QED BY <1>1, <2>2
<1>8. calls' = <<>> /\ DOMAIN calls' = {}
  BY <1>7
<1>9. memoStack' = <<>> /\ DOMAIN memoStack' = {} /\ memoStack' \in Seq(Bdds)
  <2>1. 1 \in Int /\ 0 \in Int /\ 0 < 1
    OBVIOUS
  <2>2. SubSeq(memoStack, 1, 0) = <<>>
    BY <2>1, SubSeqEmpty
  <2>3. memoStack' = <<>>
    BY <2>2
  <2> QED BY <2>3
<1>10. Empty' = Empty
  BY EmptyUnchanged
<1>11. \A b \in Bdds :
          \/ memo'[b] \in {"true", "cyclic"} /\ b \in Empty
          \/ memo'[b] = memo[b] /\ ~ IsLoop(b)
  <2> SUFFICES ASSUME NEW b \in Bdds
               PROVE  \/ memo'[b] \in {"true", "cyclic"} /\ b \in Empty
                      \/ memo'[b] = memo[b] /\ ~ IsLoop(b)
    OBVIOUS
  <2>1. CASE b = Top.bdd
    BY <1>1, <1>6, <2>1 DEF Settled
  <2>2. CASE b # Top.bdd /\ IsLoop(b)
    <3>1. PICK i \in DOMAIN memoStack : memoStack[i] = b
      BY <1>0, <2>2 DEF StackInv, MemoStackComplete
    <3>2. i \in (Top.initStackDepth + 2) .. Len(memoStack)
      BY <1>1, <2>2, <3>1
    <3>3. b \in AbovePushed(Top) /\ memo[b] \in {"provisional", "loop", "cyclic"} /\ b \in Empty
      BY <1>6, <2>2, <3>1, <3>2 DEF AbovePushed, IsLoop
    <3> QED BY <2>2, <3>3 DEF Settled
  <2>3. CASE b # Top.bdd /\ ~ IsLoop(b)
    <3>1. CASE b \in AbovePushed(Top) /\ memo[b] \in {"provisional", "loop", "cyclic"}
      <4>1. memo'[b] = "true" /\ memo[b] = "cyclic"
        BY <2>3, <3>1 DEF Settled, IsLoop
      <4> QED BY <4>1 DEF IInv, MemoSound
    <3>2. CASE ~ (b \in AbovePushed(Top) /\ memo[b] \in {"provisional", "loop", "cyclic"})
      BY <2>3, <3>2 DEF Settled
    <3> QED BY <3>1, <3>2
  <2> QED BY <2>1, <2>2, <2>3
<1>12. memo' \in [Bdds -> MemoEmpty]
  <2>1. \A b \in Bdds : memo[b] \in MemoEmpty
    BY <1>0 DEF TypeOK
  <2>2. \A b \in Bdds : memo'[b] \in MemoEmpty
    BY <1>11, <2>1 DEF MemoEmpty
  <2>3. memo' = [b \in Bdds |-> memo'[b]]
    BY DEF Settled
  <2> QED BY <2>2, <2>3
<1>13. TypeOK'
  <2>1. answer' \in Answers
    BY <1>0, <1>1, <1>7 DEF TypeOK, Answers
  <2> QED BY <1>0, <1>7, <1>9, <1>12, <2>1 DEF TypeOK
<1>14. StackInv'
  <2>1. \A b \in Bdds : ~ IsLoop(b)'
    BY <1>11 DEF IsLoop
  <2> QED BY <1>8, <1>9, <2>1 DEF StackInv, MemoStackComplete
<1>15. SupportInv'
  BY <1>8, <1>9 DEF SupportInv
<1>16. MemoSound'
  BY <1>10, <1>11 DEF IInv, MemoSound
<1>17. AnswerCorrect'
  <2>1. Top.bdd \in Empty
    BY <1>1, <1>6
  <2> QED BY <1>7, <1>10, <2>1 DEF IInv, AnswerCorrect
<1> QED BY <1>13, <1>14, <1>15, <1>16, <1>17 DEF IInv

\* A test has found its Bdd inhabited: what was assumed above it is undone.
LEMMA ReturnedInhabited ==
    ASSUME IInv, calls # <<>>, PredicateFails(Top),
           Resume(SubSeq(calls, 1, Len(calls) - 1), Top.bdd, FALSE),
           memo' = Settled(Top, FALSE),
           memoStack' = SubSeq(memoStack, 1, Top.initStackDepth),
           UNCHANGED clauses
    PROVE  IInv'
<1>0. TypeOK /\ StackInv /\ SupportInv
  BY DEF IInv
<1>n. PICK n \in Nat : n = Len(calls)
  BY <1>0, TopFacts
<1>d. PICK d \in Nat : d = Depth(n)
  BY <1>0, <1>n, TopFacts
<1>1. /\ n > 0 /\ DOMAIN calls = 1 .. n /\ DOMAIN memoStack = 1 .. Len(memoStack)
      /\ Len(memoStack) \in Nat
      /\ \A k \in 1 .. n : Depth(k) \in Nat
      /\ Top.bdd \in Bdds /\ Top.initStackDepth = d /\ d < Len(memoStack)
      /\ memoStack[d + 1] = Top.bdd
      /\ \A k \in 1 .. n - 1 : Depth(k) < d
      /\ d = 0 <=> n = 1
  BY <1>0, <1>n, <1>d, TopFacts
<1>2. Top.bdd \notin Empty
  <2>1. PICK c \in clauses[Top.bdd] : c \subseteq Top.inhabited
    BY DEF PredicateFails
  <2>2. n \in DOMAIN calls /\ Top = calls[n]
    BY <1>n, <1>1 DEF Top
  <2>3. \A x \in c : x \notin Empty
    BY <1>0, <2>1, <2>2 DEF SupportInv
  <2> QED BY <1>1, <2>3, RefutedClause
<1>3. /\ calls' \in Seq(Activation)
      /\ Len(calls') = n - 1
      /\ \A k \in 1 .. n - 1 :
            /\ calls'[k].bdd = calls[k].bdd
            /\ calls'[k].initStackDepth = calls[k].initStackDepth
            /\ \A x \in calls'[k].empty : x \in calls[k].empty
            /\ \A x \in calls'[k].inhabited : x \in calls[k].inhabited \/ x = Top.bdd
      /\ \/ answer' = answer
         \/ answer' = [bdd |-> Top.bdd, empty |-> "false"]
  <2>1. FALSE \in BOOLEAN
    OBVIOUS
  <2>2. /\ calls' \in Seq(Activation) /\ Len(calls') = Len(calls) - 1
        /\ \/ answer' = answer
           \/ answer' = [bdd |-> Top.bdd, empty |-> "false"]
    BY <1>0, <2>1, ReturnedCalls, Zenon
  <2>3. \A k \in 1 .. Len(calls) - 1 :
            /\ calls'[k].bdd = calls[k].bdd
            /\ calls'[k].initStackDepth = calls[k].initStackDepth
            /\ \A x \in calls'[k].empty : x \in calls[k].empty
            /\ \A x \in calls'[k].inhabited : x \in calls[k].inhabited \/ x = Top.bdd
    BY <1>0, <2>1, ReturnedCalls, Zenon
  <2> QED BY <1>n, <2>2, <2>3
<1>4. DOMAIN calls' = 1 .. n - 1 /\ \A k \in 1 .. n - 1 : Depth(k)' = Depth(k) /\ k \in DOMAIN calls
  <2>1. DOMAIN calls' = 1 .. n - 1
    BY <1>3
  <2>2. \A k \in 1 .. n - 1 : k \in DOMAIN calls
    BY <1>1
  <2>3. \A k \in 1 .. n - 1 : Depth(k)' = Depth(k)
    BY <1>3 DEF Depth
  <2> QED BY <2>1, <2>2, <2>3
<1>5. Empty' = Empty
  BY EmptyUnchanged
<1>6. /\ memoStack' \in Seq(Bdds) /\ Len(memoStack') = d /\ DOMAIN memoStack' = 1 .. d
      /\ \A i \in 1 .. d : memoStack'[i] = memoStack[i] /\ i \in DOMAIN memoStack
  <2>1. memoStack \in Seq(Bdds) /\ d \in 0 .. Len(memoStack)
    BY <1>0, <1>1 DEF TypeOK
  <2>2. /\ memoStack' \in Seq(Bdds) /\ Len(memoStack') = d
        /\ \A i \in 1 .. d : memoStack'[i] = memoStack[i]
    BY <1>1, <2>1, PrefixFacts
  <2> QED BY <1>1, <2>2
<1>7. ASSUME NEW i \in 1 .. d, NEW x, Supported(i, x)
      PROVE  Supported(i, x)'
  <2>1. CASE x \in Empty
    BY <1>5, <2>1 DEF Supported
  <2>2. CASE \E j \in DOMAIN memoStack :
                /\ memoStack[j] = x
                /\ \A l \in DOMAIN calls : i <= Depth(l) => j <= Depth(l)
    <3>1. PICK j \in DOMAIN memoStack :
                /\ memoStack[j] = x
                /\ \A l \in DOMAIN calls : i <= Depth(l) => j <= Depth(l)
      BY <2>2
    <3>2. n \in DOMAIN calls /\ i <= Depth(n)
      BY <1>1, <1>d
    <3>3. j <= d
      BY <1>d, <3>1, <3>2
    <3>4. j \in DOMAIN memoStack' /\ memoStack'[j] = x
      BY <1>1, <1>6, <3>1, <3>3
    <3>5. \A l \in DOMAIN calls' : i <= Depth(l)' => j <= Depth(l)'
      BY <1>4, <3>1
    <3> QED BY <3>4, <3>5 DEF Supported
  <2> QED BY <1>7, <2>1, <2>2 DEF Supported
<1>8. ASSUME NEW b \in Bdds
      PROVE  /\ memo'[b] \in MemoEmpty
             /\ IsLoop(b)' <=> \E i \in 1 .. d : memoStack[i] = b
             /\ memo'[b] = "false" => b = Top.bdd \/ memo[b] = "false"
             /\ memo'[b] \in {"true", "cyclic"} => memo'[b] = memo[b]
  <2>1. IsLoop(b) <=> \E i \in DOMAIN memoStack : memoStack[i] = b
    BY <1>0 DEF StackInv, MemoStackComplete
  <2>2. \A i, j \in DOMAIN memoStack : memoStack[i] = memoStack[j] => i = j
    BY <1>0 DEF StackInv, MemoStackComplete
  <2>3. memo[b] \in MemoEmpty
    BY <1>0 DEF TypeOK
  <2>4. CASE b = Top.bdd
    <3>1. memo'[b] = "false"
      BY <2>4 DEF Settled
    <3>2. ASSUME NEW i \in 1 .. d, memoStack[i] = b PROVE FALSE
      <4>1. i \in DOMAIN memoStack /\ d + 1 \in DOMAIN memoStack /\ i # d + 1
        BY <1>1
      <4> QED BY <1>1, <2>2, <2>4, <3>2, <4>1
    <3> QED BY <2>4, <3>1, <3>2 DEF IsLoop, MemoEmpty
  <2>5. CASE b # Top.bdd /\ \E i \in 1 .. d : memoStack[i] = b
    <3>1. PICK i \in 1 .. d : memoStack[i] = b
      BY <2>5
    <3>2. IsLoop(b)
      BY <1>6, <2>1, <3>1
    <3>3. b \notin AbovePushed(Top)
      <4> SUFFICES ASSUME NEW j \in (d + 2) .. Len(memoStack), memoStack[j] = b PROVE FALSE
        BY <1>1 DEF AbovePushed
      <4>1. j \in DOMAIN memoStack /\ j # i
        BY <1>1
      <4> QED BY <1>6, <2>2, <3>1, <4>1
    <3>4. memo'[b] = memo[b]
      BY <2>5, <3>3 DEF Settled
    <3> QED BY <2>3, <2>5, <3>2, <3>4 DEF IsLoop
  <2>6. CASE b # Top.bdd /\ ~ \E i \in 1 .. d : memoStack[i] = b
    <3>1. memo'[b] = memo[b] \/ memo'[b] = "nil"
      BY <2>6 DEF Settled
    <3>2. ~ IsLoop(b)'
      <4> SUFFICES ASSUME IsLoop(b)' PROVE FALSE
        OBVIOUS
      <4>1. memo'[b] = memo[b] /\ IsLoop(b)
        BY <3>1 DEF IsLoop
      <4>2. PICK i \in DOMAIN memoStack : memoStack[i] = b
        BY <2>1, <4>1
      <4>3. i \in (Top.initStackDepth + 2) .. Len(memoStack)
        BY <1>1, <2>6, <4>2
      <4>4. b \in AbovePushed(Top)
        BY <4>2, <4>3 DEF AbovePushed
      <4>5. memo'[b] = "nil"
        BY <2>6, <4>1, <4>4 DEF Settled, IsLoop
      <4> QED BY <4>5 DEF IsLoop
    <3> QED BY <2>3, <2>6, <3>1, <3>2 DEF MemoEmpty
  <2> QED BY <2>4, <2>5, <2>6
<1>9. TypeOK'
  <2>1. memo' = [b \in Bdds |-> memo'[b]]
    BY DEF Settled
  <2>2. memo' \in [Bdds -> MemoEmpty]
    BY <1>8, <2>1
  <2>3. answer' \in Answers
    BY <1>0, <1>1, <1>3 DEF TypeOK, Answers
  <2> QED BY <1>0, <1>3, <1>6, <2>2, <2>3 DEF TypeOK
<1>10. StackInv'
  <2>1. MemoStackComplete'
    <3>1. \A b \in Bdds : IsLoop(b)' <=> \E i \in DOMAIN memoStack' : memoStack'[i] = b
      <4>1. \A b \in Bdds : (\E i \in DOMAIN memoStack' : memoStack'[i] = b) <=> \E i \in 1 .. d : memoStack[i] = b
        BY <1>6
      <4> QED BY <1>8, <4>1, Zenon
    <3>2. \A i, j \in DOMAIN memoStack' : memoStack'[i] = memoStack'[j] => i = j
      BY <1>0, <1>6 DEF StackInv, MemoStackComplete
    <3> QED BY <3>1, <3>2 DEF MemoStackComplete
  <2>2. (calls = <<>> => memoStack = <<>>)'
    <3> SUFFICES ASSUME calls' = <<>> PROVE memoStack' = <<>>
      OBVIOUS
    <3>1. n - 1 = 0
      BY <1>3
    <3>2. Len(memoStack') = 0
      BY <1>1, <1>6, <3>1
    <3> QED BY <1>6, <3>2
  <2>3. (calls # <<>> => Depth(1) = 0)'
    <3> SUFFICES ASSUME calls' # <<>> PROVE Depth(1)' = 0
      OBVIOUS
    <3>1. n - 1 # 0
      <4> SUFFICES ASSUME n - 1 = 0 PROVE calls' = <<>>
        OBVIOUS
      <4> QED BY <1>3
    <3>2. 1 \in 1 .. n - 1
      BY <1>1, <3>1
    <3> QED BY <1>0, <1>4, <3>2 DEF StackInv
  <2>4. ASSUME NEW k \in 1 .. n - 1
        PROVE  (Depth(k) < Len(memoStack) /\ memoStack[Depth(k) + 1] = calls[k].bdd)'
    <3>1. Depth(k)' = Depth(k) /\ Depth(k) < d /\ Depth(k) \in Nat /\ k \in DOMAIN calls
      BY <1>1, <1>4
    <3>2. Depth(k) + 1 \in 1 .. d
      BY <3>1
    <3>3. memoStack'[Depth(k) + 1] = calls[k].bdd
      BY <1>0, <1>6, <3>1, <3>2 DEF StackInv
    <3> QED BY <1>3, <1>6, <3>1, <3>3
  <2>5. ASSUME NEW k \in 1 .. n - 1, NEW l \in 1 .. n - 1, k < l
        PROVE  (Depth(k) < Depth(l))'
    BY <1>0, <1>4, <2>5 DEF StackInv
  <2> QED BY <1>4, <2>1, <2>2, <2>3, <2>4, <2>5 DEF StackInv
<1>11. SupportInv'
  <2>1. (\A k \in DOMAIN calls : \A x \in calls[k].inhabited : x \notin Empty)'
    <3> SUFFICES ASSUME NEW k \in 1 .. n - 1, NEW x \in calls'[k].inhabited PROVE x \notin Empty
      BY <1>4, <1>5
    <3>1. k \in DOMAIN calls /\ (x \in calls[k].inhabited \/ x = Top.bdd)
      BY <1>3, <1>4
    <3> QED BY <1>0, <1>2, <3>1 DEF SupportInv
  <2>2. ASSUME NEW k \in 1 .. n - 1, NEW x \in calls'[k].empty
        PROVE  Supported(Depth(k) + 1, x)'
    <3>1. k \in DOMAIN calls /\ x \in calls[k].empty /\ Depth(k)' = Depth(k)
      BY <1>3, <1>4, <2>2
    <3>2. Supported(Depth(k) + 1, x)
      BY <1>0, <3>1 DEF SupportInv
    <3>3. Depth(k) + 1 \in 1 .. d
      BY <1>1, <3>1
    <3>4. \A i \in 1 .. d : i = Depth(k) + 1 => Supported(i, x)'
      BY <1>7, <3>2
    <3> QED BY <3>1, <3>3, <3>4
  <2>3. ASSUME NEW i \in 1 .. d, \A k \in 1 .. n - 1 : Depth(k) + 1 # i,
               NEW c \in clauses[memoStack[i]]
        PROVE  \E x \in c : Supported(i, x)'
    <3>1. \A k \in DOMAIN calls : k \in 1 .. n - 1 \/ k = n
      BY <1>1
    <3>2. \A k \in DOMAIN calls : Depth(k) + 1 # i
      BY <1>d, <2>3, <3>1
    <3>3. PICK x \in c : Supported(i, x)
      BY <1>0, <1>6, <2>3, <3>2 DEF SupportInv
    <3> QED BY <1>7, <3>3
  <2>4. (\A k \in DOMAIN calls : \A x \in calls[k].empty : Supported(Depth(k) + 1, x))'
    BY <1>4, <2>2
  <2>5. (\A i \in DOMAIN memoStack :
          (\A k \in DOMAIN calls : Depth(k) + 1 # i) =>
              \A c \in clauses[memoStack[i]] : \E x \in c : Supported(i, x))'
    BY <1>4, <1>6, <2>3
  <2> QED BY <2>1, <2>4, <2>5 DEF SupportInv
<1>12. MemoSound'
  BY <1>2, <1>5, <1>8 DEF IInv, MemoSound
<1>13. AnswerCorrect'
  BY <1>2, <1>3, <1>5 DEF IInv, AnswerCorrect
<1> QED BY <1>9, <1>10, <1>11, <1>12, <1>13 DEF IInv

\* The three ways of returning.
LEMMA Returned ==
    ASSUME IInv, Return
    PROVE  IInv'
<1>1. UNCHANGED clauses /\ calls # <<>>
  BY DEF Return
<1>2. CASE PredicateHolds(Top) /\ Top.initStackDepth # 0
  <2>1. ~ Certain(Top, PredicateHolds(Top))
    BY <1>2 DEF Certain
  <2>2. /\ UNCHANGED <<memo, memoStack>>
        /\ Resume(SubSeq(calls, 1, Len(calls) - 1), Top.bdd, PredicateHolds(Top))
    BY <2>1 DEF Return
  <2>3. Resume(SubSeq(calls, 1, Len(calls) - 1), Top.bdd, TRUE)
    BY <1>2, <2>2 DEF Resume, Told
  <2> QED BY <1>1, <1>2, <2>2, <2>3, ReturnedProvisionally
<1>3. CASE PredicateHolds(Top) /\ Top.initStackDepth = 0
  <2>1. Certain(Top, PredicateHolds(Top))
    BY <1>3 DEF Certain
  <2>2. /\ memo' = Settled(Top, PredicateHolds(Top))
        /\ memoStack' = SubSeq(memoStack, 1, Top.initStackDepth)
        /\ Resume(SubSeq(calls, 1, Len(calls) - 1), Top.bdd, PredicateHolds(Top))
    BY <2>1 DEF Return
  <2>3. Resume(SubSeq(calls, 1, Len(calls) - 1), Top.bdd, TRUE)
    BY <1>3, <2>2 DEF Resume, Told
  <2>4. memo' = Settled(Top, TRUE)
    BY <1>3, <2>2 DEF Settled
  <2> QED BY <1>1, <1>3, <2>2, <2>3, <2>4, ReturnedEmpty
<1>4. CASE ~ PredicateHolds(Top)
  <2>1. Certain(Top, PredicateHolds(Top)) /\ PredicateFails(Top)
    BY <1>4 DEF Certain, Return
  <2>2. /\ memo' = Settled(Top, PredicateHolds(Top))
        /\ memoStack' = SubSeq(memoStack, 1, Top.initStackDepth)
        /\ Resume(SubSeq(calls, 1, Len(calls) - 1), Top.bdd, PredicateHolds(Top))
    BY <2>1 DEF Return
  <2>3. Resume(SubSeq(calls, 1, Len(calls) - 1), Top.bdd, FALSE)
    BY <1>4, <2>2 DEF Resume, Told
  <2>4. memo' = Settled(Top, FALSE)
    BY <1>4, <2>2 DEF Settled
  <2> QED BY <1>1, <2>1, <2>2, <2>3, <2>4, ReturnedInhabited
<1> QED BY <1>2, <1>3, <1>4

\* A question that the tables can answer, or that is a loop.
LEMMA Answered ==
    ASSUME IInv, NEW b \in Bdds, NEW isEmpty \in BOOLEAN,
           Resume(calls, b, isEmpty),
           UNCHANGED <<clauses, memoStack>>,
           memo' \in [Bdds -> MemoEmpty],
           \A x \in Bdds : IsLoop(x)' <=> IsLoop(x),
           \A x \in Bdds : ~ IsLoop(x) => memo'[x] = memo[x],
           isEmpty => b \in Empty \/ (calls # <<>> /\ IsLoop(b)),
           ~ isEmpty => b \notin Empty
    PROVE  IInv'
<1>0. TypeOK /\ StackInv /\ SupportInv /\ MemoSound /\ AnswerCorrect
  BY DEF IInv
<1>1. Empty' = Empty
  BY EmptyUnchanged
<1>2. MemoSound'
  <2> SUFFICES ASSUME NEW x \in Bdds
               PROVE  /\ memo'[x] \in {"true", "cyclic"} => x \in Empty
                      /\ memo'[x] = "false" => x \notin Empty
    BY <1>1 DEF MemoSound
  <2>1. CASE IsLoop(x)
    <3>1. memo'[x] \in {"provisional", "loop"}
      BY <2>1 DEF IsLoop
    <3> QED BY <3>1
  <2>2. CASE ~ IsLoop(x)
    BY <1>0, <2>2 DEF MemoSound
  <2> QED BY <2>1, <2>2
<1>3. CASE calls = <<>>
  <2>1. calls' = <<>> /\ memoStack = <<>>
    BY <1>0, <1>3 DEF Resume, StackInv
  <2>2. isEmpty <=> b \in Empty
    BY <1>3
  <2>3. answer' = [bdd |-> b, empty |-> IF isEmpty THEN "true" ELSE "false"]
    BY <1>3 DEF Resume
  <2>4. AnswerCorrect' /\ answer' \in Answers
    BY <1>1, <2>2, <2>3 DEF AnswerCorrect, Answers
  <2>5. TypeOK'
    BY <1>0, <2>1, <2>4 DEF TypeOK
  <2>6. StackInv'
    BY <1>0, <2>1 DEF StackInv, MemoStackComplete
  <2>7. SupportInv'
    BY <2>1 DEF SupportInv
  <2> QED BY <1>2, <2>4, <2>5, <2>6, <2>7 DEF IInv
<1>4. CASE calls # <<>>
  <2>1. calls' = [calls EXCEPT ![Len(calls)] = Told(Top, b, isEmpty)] /\ answer' = answer
    BY <1>4 DEF Resume, Top
  <2>2. isEmpty => Supported(Depth(Len(calls)) + 1, b)
    <3> SUFFICES ASSUME IsLoop(b) PROVE Supported(Depth(Len(calls)) + 1, b)
      BY DEF Supported
    <3>1. PICK j \in DOMAIN memoStack : memoStack[j] = b
      BY <1>0 DEF StackInv, MemoStackComplete
    <3>2. \A l \in DOMAIN calls : ~ (Depth(Len(calls)) + 1 <= Depth(l))
      <4>1. PICK n \in Nat : n = Len(calls)
        BY <1>0, <1>4, TopFacts
      <4>2. /\ DOMAIN calls = 1 .. n /\ n > 0
            /\ \A k \in 1 .. n : Depth(k) \in Nat
            /\ \A k \in 1 .. n - 1 : Depth(k) < Depth(n)
        BY <1>0, <1>4, <4>1, TopFacts
      <4>3. \A l \in 1 .. n : l = n \/ l \in 1 .. n - 1
        OBVIOUS
      <4>4. PICK d \in Nat : d = Depth(n)
        BY <4>2
      <4>5. ASSUME NEW l \in 1 .. n PROVE Depth(l) \in Nat /\ Depth(l) <= d
        BY <4>2, <4>3, <4>4
      <4> QED BY <4>1, <4>2, <4>4, <4>5
    <3> QED BY <3>1, <3>2 DEF Supported
  <2>3. calls' \in Seq(Activation) /\ StackInv' /\ SupportInv'
    BY <1>0, <1>4, <2>1, <2>2, Delivered
  <2>4. TypeOK'
    BY <1>0, <2>1, <2>3 DEF TypeOK
  <2>5. AnswerCorrect'
    BY <1>0, <1>1, <2>1 DEF AnswerCorrect
  <2> QED BY <1>2, <2>3, <2>4, <2>5 DEF IInv
<1> QED BY <1>3, <1>4

\* memoSubtypeIsEmpty up to the call of the predicate keeps the invariant.
LEMMA MemoStep ==
    ASSUME IInv, NEW b \in Bdds, memoSubtypeIsEmpty(b)
    PROVE  IInv'
<1>0. UNCHANGED clauses /\ memo \in [Bdds -> MemoEmpty] /\ MemoSound
  BY DEF memoSubtypeIsEmpty, IInv, TypeOK
<1>1. CASE KnownEmpty(b)
  <2>1. Resume(calls, b, TRUE) /\ UNCHANGED <<memo, memoStack>> /\ b \in Empty
    BY <1>0, <1>1 DEF KnownEmpty, MemoSound
  <2>2. \A x \in Bdds : (IsLoop(x)' <=> IsLoop(x)) /\ memo'[x] = memo[x]
    BY <2>1 DEF IsLoop
  <2> QED BY <1>0, <2>1, <2>2, Answered
<1>2. CASE KnownInhabited(b)
  <2>1. Resume(calls, b, FALSE) /\ UNCHANGED <<memo, memoStack>> /\ b \notin Empty
    BY <1>0, <1>2 DEF KnownInhabited, MemoSound
  <2>2. \A x \in Bdds : (IsLoop(x)' <=> IsLoop(x)) /\ memo'[x] = memo[x]
    BY <2>1 DEF IsLoop
  <2> QED BY <1>0, <2>1, <2>2, Answered
<1>3. CASE Loop(b)
  <2>1. /\ Resume(calls, b, TRUE) /\ UNCHANGED memoStack /\ IsLoop(b)
        /\ memo' = [memo EXCEPT ![b] = "loop"]
    BY <1>3 DEF Loop
  <2>2. \A x \in Bdds : memo'[x] = IF x = b THEN "loop" ELSE memo[x]
    BY <1>0, <2>1
  <2>3. memo' \in [Bdds -> MemoEmpty]
    BY <1>0, <2>1 DEF MemoEmpty
  <2>4. \A x \in Bdds : (IsLoop(x)' <=> IsLoop(x)) /\ (~ IsLoop(x) => memo'[x] = memo[x])
    BY <2>1, <2>2 DEF IsLoop
  <2>5. calls # <<>>
    <3> SUFFICES ASSUME calls = <<>> PROVE FALSE
      OBVIOUS
    <3>1. memoStack = <<>>
      BY DEF IInv, StackInv
    <3>2. \E i \in DOMAIN memoStack : memoStack[i] = b
      BY <2>1 DEF IInv, StackInv, MemoStackComplete
    <3> QED BY <3>1, <3>2
  <2> QED BY <1>0, <2>1, <2>3, <2>4, <2>5, Answered
<1>4. CASE Enter(b)
  BY <1>0, <1>4, Entered
<1> QED BY <1>1, <1>2, <1>3, <1>4 DEF memoSubtypeIsEmpty

\* The invariant is inductive.
LEMMA Invariance ==
    Spec => []IInv
<1>1. Init => IInv
  <2> SUFFICES ASSUME Init PROVE IInv
    OBVIOUS
  <2> USE DEF Init
  <2>1. TypeOK
    BY DEF TypeOK, MemoEmpty, Answers
  <2>2. StackInv
    BY DEF StackInv, MemoStackComplete, IsLoop
  <2>3. SupportInv
    BY DEF SupportInv
  <2>4. MemoSound /\ AnswerCorrect
    BY DEF MemoSound, AnswerCorrect
  <2> QED BY <2>1, <2>2, <2>3, <2>4 DEF IInv
<1>2. IInv /\ [Next]_vars => IInv'
  <2> SUFFICES ASSUME IInv, [Next]_vars PROVE IInv'
    OBVIOUS
  <2>1. CASE Return
    BY <2>1, Returned
  <2>2. ASSUME NEW b \in Bdds, TopLevel(b) \/ Ask(b) PROVE IInv'
    BY <2>2, MemoStep DEF TopLevel, Ask
  <2>3. CASE UNCHANGED vars
    <3>1. Empty' = Empty
      BY <2>3, EmptyUnchanged DEF vars
    <3>2. TypeOK' /\ StackInv'
      BY <2>3 DEF vars, IInv, TypeOK, StackInv, MemoStackComplete, IsLoop, Depth
    <3>3. SupportInv'
      BY <2>3, <3>1 DEF vars, IInv, SupportInv, Supported, Depth
    <3>4. MemoSound' /\ AnswerCorrect'
      BY <2>3, <3>1 DEF vars, IInv, MemoSound, AnswerCorrect
    <3> QED BY <3>2, <3>3, <3>4 DEF IInv
  <2> QED BY <2>1, <2>2, <2>3 DEF Next
<1> QED BY <1>1, <1>2, PTL DEF Spec

-----------------------------------------------------------------------------

\* memoSubtypeIsEmpty returns true exactly for the empty types, for any number of
\* types, any monotone predicates and any order of questions.
THEOREM EmptinessDecided ==
    Spec => []AnswerCorrect
<1>1. IInv => AnswerCorrect
  BY DEF IInv
<1> QED BY <1>1, Invariance, PTL

\* Whatever is memoised as certain is certain, although memos are undone.
THEOREM MemosSound ==
    Spec => []MemoSound
<1>1. IInv => MemoSound
  BY DEF IInv
<1> QED BY <1>1, Invariance, PTL

\* memoStack is what the comment on it says.
THEOREM ProvisionalOnStack ==
    Spec => []MemoStackComplete
<1>1. IInv => MemoStackComplete
  BY DEF IInv, StackInv
<1> QED BY <1>1, Invariance, PTL

\* memoSubtypeIsEmpty is never entered for a type it is already testing.
THEOREM TestsNotReentered ==
    Spec => []NoReentry
<1>1. IInv => NoReentry
  <2> SUFFICES ASSUME IInv, NEW i \in DOMAIN calls, NEW j \in DOMAIN calls,
                      calls[i].bdd = calls[j].bdd, i # j
               PROVE  FALSE
    BY DEF NoReentry
  <2>1. calls # <<>>
    OBVIOUS
  <2>2. /\ DOMAIN calls = 1 .. Len(calls) /\ Len(calls) \in Nat
        /\ DOMAIN memoStack = 1 .. Len(memoStack) /\ Len(memoStack) \in Nat
        /\ Depth(i) \in Nat /\ Depth(j) \in Nat
    BY <2>1, TopFacts DEF IInv
  <2>3. /\ Depth(i) < Len(memoStack) /\ memoStack[Depth(i) + 1] = calls[i].bdd
        /\ Depth(j) < Len(memoStack) /\ memoStack[Depth(j) + 1] = calls[j].bdd
    BY DEF IInv, StackInv
  <2>4. Depth(i) + 1 \in DOMAIN memoStack /\ Depth(j) + 1 \in DOMAIN memoStack
    BY <2>2, <2>3
  <2>5. Depth(i) = Depth(j)
    BY <2>2, <2>3, <2>4 DEF IInv, StackInv, MemoStackComplete
  <2>6. i < j \/ j < i
    BY <2>2
  <2> QED BY <2>2, <2>5, <2>6 DEF IInv, StackInv
<1> QED BY <1>1, Invariance, PTL
=============================================================================

-------------------------- MODULE DeepValuesProofs --------------------------
(***************************************************************************)
(* == decides the equality of values, and println writes them whole, for   *)
(* every heap, cyclic or not.                                              *)
(*                                                                         *)
(* Two invariants carry the proof about ==.  Sufficiency: the pairs        *)
(* visited so far, with the identity, are a bisimulation but for the       *)
(* members that the loops on the stack have still to compare; when the     *)
(* stack is empty it is one.  Necessity: every bisimulation that relates   *)
(* the two values relates all pairs on the stack, so none can be found to  *)
(* differ.                                                                 *)
(*                                                                         *)
(* For println: the brackets that are open are those of the loops that     *)
(* run, and every structure that has been opened is being printed or has   *)
(* all its members written.                                                *)
(***************************************************************************)
EXTENDS Equality, Printing, FiniteSetTheorems, TLAPS

FrameType == [p1 : Pointers, p2 : Pointers, next : Nat \ {0}, assumed : BOOLEAN]

EqTypes ==
    /\ heap \in [Addresses -> Structures] /\ WellFormed
    /\ stack \in Seq(FrameType)
    /\ answer \in {"none", "true", "false"}
    /\ visited \in SUBSET (Pointers \X Pointers)
    /\ root = <<>> \/ root \in TaggedPtrs \X TaggedPtrs

\* Two structures that a loop can be started for.
GoodPair(p, q) ==
    /\ p \in Pointers /\ q \in Pointers /\ p.tag = q.tag
    /\ heap[p.at].tag = p.tag /\ heap[q.at].tag = q.tag
    /\ Len(Members(p)) = Len(Members(q))

\* The relation that the comparison has built so far.
Found(vis) == {ab \in Addresses \X Addresses :
    ab[1] = ab[2] \/ \E v \in vis : v[1].at = ab[1] /\ v[2].at = ab[2]}

MemberFound(vis, p, q, i) ==
    LET j == Partner(p, q, i)
    IN j \in DOMAIN Members(q) /\ Related(Found(vis), Members(p)[i], Members(q)[j])

Done(vis, p, q) == \A i \in DOMAIN Members(p) : MemberFound(vis, p, q, i)

OnStack(s, v) == \E k \in DOMAIN s : s[k].p1 = v[1] /\ s[k].p2 = v[2]

\* The loop k + 1 compares the current members of loop k.
Calls(f, g) ==
    /\ f.next \in DOMAIN Members(f.p1) /\ Partner(f.p1, f.p2, f.next) \in DOMAIN Members(f.p2)
    /\ g.p1 = Members(f.p1)[f.next] /\ g.p2 = Members(f.p2)[Partner(f.p1, f.p2, f.next)]

FramesGood(s, vis) ==
    \A k \in DOMAIN s :
        /\ GoodPair(s[k].p1, s[k].p2) /\ <<s[k].p1, s[k].p2>> \in vis
        /\ \A i \in DOMAIN Members(s[k].p1) : i < s[k].next => MemberFound(vis, s[k].p1, s[k].p2, i)

Chained(s) == \A k \in DOMAIN s : k + 1 \in DOMAIN s => Calls(s[k], s[k + 1])

VisitedDone(s, vis) == \A v \in vis : GoodPair(v[1], v[2]) /\ (OnStack(s, v) \/ Done(vis, v[1], v[2]))

Control(r, s, ans, vis) ==
    /\ r = <<>> => s = <<>> /\ ans = "none" /\ vis = {}
    /\ ans # "none" => s = <<>>

RootFound(r, vis) == r # <<>> => Related(Found(vis), r[1], r[2])

Sufficient == answer # "false" =>
    /\ FramesGood(stack, visited)
    /\ Chained(stack)
    /\ VisitedDone(stack, visited)
    /\ RootFound(root, visited)

Necessary ==
    \A R \in SUBSET (Addresses \X Addresses) :
        root # <<>> /\ Related(R, root[1], root[2]) /\ Bisimulation(R) =>
            /\ answer # "false"
            /\ \A k \in DOMAIN stack : <<stack[k].p1.at, stack[k].p2.at>> \in R

EqInv == EqTypes /\ Control(root, stack, answer, visited) /\ Sufficient /\ Necessary
-----------------------------------------------------------------------------
\* A member of a structure is a tagged value, and a pointer among them has
\* the tag of what it points to.
LEMMA MemberTypes ==
    ASSUME EqTypes, NEW p \in Pointers, NEW i \in DOMAIN Members(p)
    PROVE  /\ Members(p) \in Seq(TaggedPtrs) /\ DOMAIN Members(p) = 1 .. Len(Members(p))
           /\ Members(p)[i] \in TaggedPtrs
           /\ Members(p)[i] \in Pointers => Members(p)[i].tag = heap[Members(p)[i].at].tag
<1>1. p.at \in Addresses
  BY DEF Pointers
<1>2. heap[p.at] \in Structures
  BY <1>1 DEF EqTypes
<1>3. heap[p.at].members \in Seq(TaggedPtrs)
  BY <1>2 DEF Structures
<1>4. Members(p) \in Seq(TaggedPtrs) /\ DOMAIN Members(p) = 1 .. Len(Members(p)) /\ Members(p)[i] \in TaggedPtrs
  BY <1>3 DEF Members
<1> QED
  BY <1>1, <1>4 DEF Members, EqTypes, WellFormed

\* For scalars, what taggedPtrEq decides from the tagged pointers is
\* equality.
LEMMA ScalarsDecided ==
    ASSUME NEW s \in Scalars, NEW t \in Scalars
    PROVE  EqualAtOnce(s, t) <=> SameValue(s, t)
<1> USE Canonical
<1>1. s \notin Pointers /\ t \notin Pointers
  OBVIOUS
<1>2. s.imm \in BOOLEAN /\ t.imm \in BOOLEAN
  OBVIOUS
<1>3. getTag(s) = getTag(t) <=> s.tag = t.tag /\ s.imm = t.imm
  BY <1>1 DEF getTag, IsStructure
<1>4. SameValue(s, s)
  BY DEF SameValue, PayloadEq, floatEq, Scaled
<1>5. ASSUME SameValue(s, t) PROVE EqualAtOnce(s, t)
  <2>1. CASE s.tag \in {"float", "decimal"}
    BY <1>1, <1>2, <1>3, <1>5, <2>1 DEF SameValue, EqualAtOnce, scalarEq, IsStructure
  <2>2. CASE s.tag \notin {"float", "decimal"}
    BY <1>1, <1>2, <1>3, <1>5, <2>2 DEF SameValue, PayloadEq, EqualAtOnce, scalarEq, IsStructure
  <2> QED BY <2>1, <2>2
<1>6. ASSUME EqualAtOnce(s, t) PROVE SameValue(s, t)
  BY <1>1, <1>3, <1>4, <1>6 DEF SameValue, EqualAtOnce, scalarEq, IsStructure
<1> QED BY <1>5, <1>6

\* More pairs visited relate more.
LEMMA FoundGrows ==
    ASSUME NEW vis, NEW more, vis \subseteq more, NEW a, NEW b, Related(Found(vis), a, b)
    PROVE  Related(Found(more), a, b)
<1>1. Found(vis) \subseteq Found(more)
  BY DEF Found
<1> QED BY <1>1 DEF Related

\* A value is related to itself.
LEMMA FoundSame ==
    ASSUME NEW vis, NEW tp \in TaggedPtrs
    PROVE  Related(Found(vis), tp, tp)
<1>1. CASE tp \in Pointers
  BY <1>1 DEF Related, Found, IsStructure, Pointers
<1>2. CASE tp \notin Pointers
  BY <1>2 DEF Related, IsStructure, SameValue, PayloadEq, floatEq, Scaled
<1> QED BY <1>1, <1>2

\* A pair for which a loop was started is related.
LEMMA FoundPair ==
    ASSUME NEW vis, NEW p \in Pointers, NEW q \in Pointers, <<p, q>> \in vis
    PROVE  Related(Found(vis), p, q)
<1>1. p.at \in Addresses /\ q.at \in Addresses
  BY DEF Pointers
<1>2. <<p.at, q.at>> \in Found(vis)
  BY <1>1 DEF Found
<1> QED BY <1>2 DEF Related, IsStructure

\* A bisimulation relates the members that the loop compares.
LEMMA PartnersRelated ==
    ASSUME EqTypes, NEW p, NEW q, GoodPair(p, q),
           NEW R \in SUBSET (Addresses \X Addresses), Bisimulation(R), <<p.at, q.at>> \in R,
           NEW i \in DOMAIN Members(p)
    PROVE  /\ Partner(p, q, i) \in DOMAIN Members(q)
           /\ Partner(p, q, i) # 0
           /\ Related(R, Members(p)[i], Members(q)[Partner(p, q, i)])
<1>1. p.at \in Addresses /\ q.at \in Addresses /\ p \in Pointers /\ q \in Pointers /\ p.tag \in StructureTags
  BY DEF GoodPair, Pointers
<1>2. SameMembers(R, heap[p.at], heap[q.at])
  BY <1>1 DEF Bisimulation
<1>3. Members(p) \in Seq(TaggedPtrs) /\ Members(q) \in Seq(TaggedPtrs)
  BY <1>1 DEF EqTypes, Structures, Members
<1>4. DOMAIN Members(q) = 1 .. Len(Members(q)) /\ i \in 1 .. Len(Members(q))
  BY <1>3 DEF GoodPair
<1>5. 0 \notin DOMAIN Members(q)
  BY <1>4
<1>6. CASE p.tag = "list"
  BY <1>2, <1>4, <1>5, <1>6 DEF GoodPair, Partner, SameMembers, Members
<1>7. CASE p.tag # "list"
  <2>1. p.tag = "mapping" /\ q.tag = "mapping"
    BY <1>1, <1>7 DEF StructureTags, GoodPair
  <2>2. PICK j \in DOMAIN Members(q) :
            heap[p.at].keys[i] = heap[q.at].keys[j] /\ Related(R, Members(p)[i], Members(q)[j])
    BY <1>2, <2>1 DEF SameMembers, Members, GoodPair
  <2>3. heap[q.at].keys \in Seq(Keys) /\ Len(heap[q.at].keys) = Len(Members(q))
    BY <1>1, <2>1 DEF EqTypes, Structures, WellFormed, GoodPair, Members
  <2>4. DOMAIN heap[q.at].keys = DOMAIN Members(q)
    BY <1>3, <2>3
  <2>5. \A k \in DOMAIN Members(q) : heap[q.at].keys[k] = heap[p.at].keys[i] => k = j
    BY <1>1, <2>1, <2>2, <2>4 DEF EqTypes, WellFormed, GoodPair
  <2>6. Partner(p, q, i) = Lookup(heap[q.at], heap[p.at].keys[i])
    BY <2>1 DEF Partner
  <2>7. Lookup(heap[q.at], heap[p.at].keys[i]) = j
    BY <2>2, <2>5 DEF Lookup, Members
  <2> QED BY <1>5, <2>2, <2>6, <2>7
<1> QED BY <1>6, <1>7

\* Related values are not told apart by what taggedPtrEq looks at.
LEMMA RelatedNotFalse ==
    ASSUME EqTypes, NEW a \in TaggedPtrs, NEW b \in TaggedPtrs, TaggedRoot(a), TaggedRoot(b),
           NEW R \in SUBSET (Addresses \X Addresses), Bisimulation(R), Related(R, a, b)
    PROVE  /\ EqualAtOnce(a, b) \/ Descends(a, b)
           /\ Descends(a, b) => <<a.at, b.at>> \in R
<1>1. CASE a \in Pointers /\ b \in Pointers
  <2>1. <<a.at, b.at>> \in R /\ a.at \in Addresses /\ b.at \in Addresses
    BY <1>1 DEF Related, IsStructure, Pointers
  <2>2. SameMembers(R, heap[a.at], heap[b.at])
    BY <2>1 DEF Bisimulation
  <2> QED BY <1>1, <2>1, <2>2 DEF SameMembers, Descends, IsStructure, TaggedRoot, Members
<1>2. CASE ~(a \in Pointers /\ b \in Pointers)
  <2>1. a \notin Pointers /\ b \notin Pointers /\ SameValue(a, b)
    BY <1>2 DEF Related, IsStructure
  <2>2. EqualAtOnce(a, b)
    BY <2>1, ScalarsDecided DEF TaggedPtrs
  <2> QED BY <2>1, <2>2 DEF Descends, IsStructure
<1> QED BY <1>1, <1>2

\* What is equal at once is related by the pairs found so far.
LEMMA AtOnceFound ==
    ASSUME EqTypes, FramesGood(stack, visited), NEW a \in TaggedPtrs, NEW b \in TaggedPtrs,
           EqualAtOnce(a, b)
    PROVE  Related(Found(visited), a, b)
<1>1. CASE a = b
  BY <1>1, FoundSame
<1>2. CASE a # b /\ a \in Pointers
  <2>1. OnEqStack(a, b)
    BY <1>2 DEF EqualAtOnce, IsStructure
  <2>2. PICK k \in DOMAIN stack : stack[k].p1 = a /\ stack[k].p2 = b
    BY <2>1 DEF OnEqStack, HasPair
  <2>3. <<a, b>> \in visited /\ b \in Pointers
    BY <2>2 DEF FramesGood, GoodPair
  <2> QED BY <1>2, <2>3, FoundPair
<1>3. CASE a # b /\ a \notin Pointers
  <2>1. a \in Scalars
    BY <1>3 DEF TaggedPtrs
  <2>2. b \notin Pointers
    BY <1>3, <2>1, Canonical DEF EqualAtOnce, getTag, IsStructure, Pointers, StructureTags
  <2>3. SameValue(a, b)
    BY <2>1, <2>2, ScalarsDecided DEF TaggedPtrs
  <2> QED BY <1>3, <2>2, <2>3 DEF Related, IsStructure
<1> QED BY <1>1, <1>2, <1>3
-----------------------------------------------------------------------------
\* The relation only grows, so members that are found stay found.
LEMMA MembersStayFound ==
    ASSUME NEW vis, NEW more, vis \subseteq more, NEW p, NEW q, NEW i, MemberFound(vis, p, q, i)
    PROVE  MemberFound(more, p, q, i)
BY FoundGrows DEF MemberFound

\* A loop is started, for the root or for the members that the innermost
\* loop has got to.
LEMMA PushKeeps ==
    ASSUME EqInv, heap' = heap, answer # "false",
           NEW a \in TaggedPtrs, NEW b \in TaggedPtrs, TaggedRoot(a), TaggedRoot(b), Descends(a, b),
           NEW e \in BOOLEAN, Push(Frame(a, b, e)),
           \/ root = <<>> /\ root' = <<a, b>>
           \/ root # <<>> /\ root' = root /\ stack # <<>> /\ Calls(Top, Frame(a, b, e)),
           \A R \in SUBSET (Addresses \X Addresses) :
              Related(R, root'[1], root'[2]) /\ Bisimulation(R) => <<a.at, b.at>> \in R
    PROVE  EqInv'
<1> DEFINE f == Frame(a, b, e)
<1>1. GoodPair(a, b)
  BY DEF Descends, GoodPair, IsStructure, TaggedRoot
<1>2. f \in FrameType /\ f.p1 = a /\ f.p2 = b /\ f.next = 1
  BY <1>1 DEF Frame, FrameType, GoodPair
<1>3. stack' = Append(stack, f) /\ visited' = visited \cup {<<a, b>>} /\ answer' = "none"
  BY <1>2 DEF Push
<1>4. stack \in Seq(FrameType)
  BY DEF EqInv, EqTypes
<1> HIDE DEF f
<1>5. PICK n \in Nat : n = Len(stack)
  BY <1>4
<1>6. /\ stack' \in Seq(FrameType) /\ DOMAIN stack = 1 .. n /\ DOMAIN stack' = 1 .. n + 1
      /\ \A k \in 1 .. n : stack'[k] = stack[k]
      /\ stack'[n + 1] = f
  BY <1>2, <1>3, <1>4, <1>5
<1>7. EqTypes'
  BY <1>1, <1>3, <1>6 DEF EqInv, EqTypes, WellFormed, GoodPair
<1>8. Control(root, stack, answer, visited)'
  BY <1>3 DEF Control, EqInv
<1>9. FramesGood(stack, visited) /\ Chained(stack) /\ VisitedDone(stack, visited) /\ RootFound(root, visited)
  BY DEF EqInv, Sufficient
<1>10. visited \subseteq visited'
  BY <1>3
<1>11. FramesGood(stack, visited)'
  <2> SUFFICES ASSUME NEW k \in 1 .. n + 1
               PROVE  /\ GoodPair(stack'[k].p1, stack'[k].p2) /\ <<stack'[k].p1, stack'[k].p2>> \in visited'
                      /\ \A i \in DOMAIN Members(stack'[k].p1) :
                            i < stack'[k].next => MemberFound(visited', stack'[k].p1, stack'[k].p2, i)
    BY <1>6, Zenon DEF FramesGood, GoodPair, MemberFound, Members, Partner
  <2>1. CASE k = n + 1
    <3>1. DOMAIN Members(a) = 1 .. Len(Members(a))
      BY <1>1 DEF EqInv, EqTypes, GoodPair, Pointers, Structures, Members
    <3> QED BY <1>1, <1>2, <1>3, <1>6, <2>1, <3>1
  <2>2. CASE k \in 1 .. n
    BY <1>6, <1>9, <1>10, <2>2, MembersStayFound, Zenon DEF FramesGood
  <2> QED BY <2>1, <2>2
<1>12. Chained(stack)'
  <2> SUFFICES ASSUME NEW k \in DOMAIN stack', k + 1 \in DOMAIN stack' PROVE Calls(stack'[k], stack'[k + 1])
    BY Zenon DEF Chained, Calls, Members, Partner
  <2>0. k \in 1 .. n
    BY <1>6
  <2>1. CASE k = n
    <3>1. stack # <<>> /\ root # <<>>
      BY <1>4, <1>5, <2>0, <2>1 DEF EqInv, Control
    <3> QED BY <1>5, <1>6, <2>1, <3>1 DEF Top, f
  <2>2. CASE k # n
    <3>1. k \in 1 .. n /\ k + 1 \in 1 .. n
      BY <2>0, <2>2
    <3>2. Calls(stack[k], stack[k + 1])
      BY <1>6, <1>9, <3>1 DEF Chained
    <3> QED BY <1>6, <3>1, <3>2
  <2> QED BY <2>1, <2>2
<1>13. VisitedDone(stack, visited)'
  <2> SUFFICES ASSUME NEW v \in visited'
               PROVE  GoodPair(v[1], v[2]) /\ (OnStack(stack', v) \/ Done(visited', v[1], v[2]))
    BY Zenon DEF VisitedDone, GoodPair, Done, MemberFound, Members, Partner
  <2>1. CASE v = <<a, b>>
    BY <1>1, <1>2, <1>6, <2>1 DEF OnStack
  <2>2. CASE v \in visited
    <3>1. GoodPair(v[1], v[2]) /\ (OnStack(stack, v) \/ Done(visited, v[1], v[2]))
      BY <1>9, <2>2 DEF VisitedDone
    <3>2. OnStack(stack, v) => OnStack(stack', v)
      BY <1>6 DEF OnStack
    <3>3. Done(visited, v[1], v[2]) => Done(visited', v[1], v[2])
      BY <1>10, MembersStayFound DEF Done
    <3> QED BY <3>1, <3>2, <3>3
  <2> QED BY <1>3, <2>1, <2>2
<1>14. RootFound(root, visited)'
  <2>1. CASE root' = <<a, b>>
    BY <1>1, <1>3, <2>1, FoundPair DEF RootFound, GoodPair
  <2>2. CASE root # <<>> /\ root' = root
    BY <1>9, <1>10, <2>2, FoundGrows DEF RootFound
  <2> QED BY <2>1, <2>2
<1>15. Necessary'
  <2> SUFFICES ASSUME NEW R \in SUBSET (Addresses \X Addresses),
                      Related(R, root'[1], root'[2]), Bisimulation(R),
                      NEW k \in 1 .. n + 1
               PROVE  <<stack'[k].p1.at, stack'[k].p2.at>> \in R
    BY <1>3, <1>6 DEF Necessary, Bisimulation
  <2>1. CASE k = n + 1
    BY <1>2, <1>6, <2>1
  <2>2. CASE k \in 1 .. n
    <3>1. root # <<>> /\ root' = root
      BY <1>4, <1>5, <2>2 DEF EqInv, Control
    <3> QED BY <1>6, <2>2, <3>1, Zenon DEF EqInv, Necessary
  <2> QED BY <2>1, <2>2
<1> QED BY <1>3, <1>7, <1>8, <1>11, <1>12, <1>13, <1>14, <1>15 DEF EqInv, Sufficient

\* Going on to the next member leaves the pair of a loop as it is.
LEMMA NextMemberType ==
    ASSUME NEW f \in FrameType
    PROVE  /\ NextMember(f) \in FrameType /\ f.next \in Nat
           /\ NextMember(f).p1 = f.p1 /\ NextMember(f).p2 = f.p2 /\ NextMember(f).next = f.next + 1
<1>1. f.next \in Nat \ {0} /\ f.p1 \in Pointers /\ f.p2 \in Pointers /\ f.assumed \in BOOLEAN
  BY DEF FrameType
<1>2. f.next + 1 \in Nat \ {0}
  BY <1>1
<1> QED BY <1>1, <1>2 DEF NextMember, FrameType

\* A call returned true to the loop n, or to the program if n is 0.
LEMMA ReturnTrueKeeps ==
    ASSUME EqInv, heap' = heap, root' = root, root # <<>>, answer # "false",
           NEW n \in 0 .. Len(stack), ReturnTrue(SubSeq(stack, 1, n)),
           n # 0 => MemberFound(visited, stack[n].p1, stack[n].p2, stack[n].next),
           \A v \in visited : OnStack(SubSeq(stack, 1, n), v) \/ Done(visited, v[1], v[2])
    PROVE  EqInv'
<1> DEFINE s == SubSeq(stack, 1, n)
<1>1. stack \in Seq(FrameType) /\ EqTypes
  BY DEF EqInv, EqTypes
<1>2. s \in Seq(FrameType) /\ Len(s) = n /\ DOMAIN s = 1 .. n /\ \A k \in 1 .. n : s[k] = stack[k]
  BY <1>1
<1>3. FramesGood(stack, visited) /\ Chained(stack) /\ VisitedDone(stack, visited) /\ RootFound(root, visited)
  BY DEF EqInv, Sufficient
<1>4. \A v \in visited : OnStack(s, v) \/ Done(visited, v[1], v[2])
  OBVIOUS
<1>5. ReturnTrue(s)
  OBVIOUS
<1> HIDE DEF s
<1>6. visited' = visited /\ answer' \in {"none", "true"} /\ (answer' = "true" => stack' = <<>>)
  BY <1>5 DEF ReturnTrue
<1>7. \A k \in 1 .. n : k \in DOMAIN stack
  BY <1>1
<1>8. /\ stack' \in Seq(FrameType) /\ DOMAIN stack' = 1 .. n
      /\ \A k \in 1 .. n : k < n => stack'[k] = stack[k]
      /\ n # 0 => stack'[n] = NextMember(stack[n])
  <2>1. CASE s = <<>>
    BY <1>2, <1>5, <2>1 DEF ReturnTrue
  <2>2. CASE s # <<>>
    <3>1. stack' = [s EXCEPT ![Len(s)] = NextMember(@)] /\ n # 0
      BY <1>2, <1>5, <2>2 DEF ReturnTrue
    <3>2. NextMember(s[n]) \in FrameType
      BY <1>2, <3>1, NextMemberType
    <3> QED BY <1>2, <3>1, <3>2
  <2> QED BY <2>1, <2>2
<1>9. \A k \in 1 .. n : stack'[k].p1 = stack[k].p1 /\ stack'[k].p2 = stack[k].p2
  BY <1>8 DEF NextMember
<1>10. EqTypes'
  BY <1>1, <1>6, <1>8 DEF EqTypes, WellFormed
<1>11. Control(root, stack, answer, visited)'
  BY <1>6 DEF Control
<1>12. FramesGood(stack, visited)'
  <2> SUFFICES ASSUME NEW k \in 1 .. n
               PROVE  /\ GoodPair(stack'[k].p1, stack'[k].p2) /\ <<stack'[k].p1, stack'[k].p2>> \in visited
                      /\ \A i \in DOMAIN Members(stack'[k].p1) :
                            i < stack'[k].next => MemberFound(visited, stack'[k].p1, stack'[k].p2, i)
    BY <1>6, <1>8, Zenon DEF FramesGood, GoodPair, MemberFound, Members, Partner
  <2>1. /\ GoodPair(stack[k].p1, stack[k].p2) /\ <<stack[k].p1, stack[k].p2>> \in visited
        /\ \A i \in DOMAIN Members(stack[k].p1) :
              i < stack[k].next => MemberFound(visited, stack[k].p1, stack[k].p2, i)
    BY <1>3, <1>7 DEF FramesGood
  <2>2. CASE k < n
    BY <1>8, <2>1, <2>2
  <2>3. CASE k = n
    <3>1. stack'[k].next = stack[k].next + 1 /\ stack[k].next \in Nat
      <4>1. stack[k] \in FrameType
        BY <1>1, <1>7
      <4> QED BY <1>8, <2>3, <4>1, NextMemberType
    <3>2. DOMAIN Members(stack[k].p1) \subseteq Nat
      <4>1. stack[k].p1.at \in Addresses
        BY <2>1 DEF GoodPair, Pointers
      <4>2. heap[stack[k].p1.at] \in Structures
        BY <1>1, <4>1 DEF EqTypes
      <4>3. Members(stack[k].p1) \in Seq(TaggedPtrs)
        BY <4>2 DEF Structures, Members
      <4> QED BY <4>3
    <3>3. \A i \in DOMAIN Members(stack[k].p1) : i < stack[k].next + 1 => i < stack[k].next \/ i = stack[k].next
      BY <3>1, <3>2
    <3>4. MemberFound(visited, stack[k].p1, stack[k].p2, stack[k].next)
      BY <2>3
    <3>5. \A i \in DOMAIN Members(stack[k].p1) :
            i < stack'[k].next => MemberFound(visited, stack[k].p1, stack[k].p2, i)
      BY <2>1, <3>1, <3>3, <3>4
    <3> QED BY <1>9, <2>1, <3>5
  <2> QED BY <2>2, <2>3
<1>13. Chained(stack)'
  <2> SUFFICES ASSUME NEW k \in DOMAIN stack', k + 1 \in DOMAIN stack' PROVE Calls(stack'[k], stack'[k + 1])
    BY Zenon DEF Chained, Calls, Members, Partner
  <2>1. k \in 1 .. n /\ k + 1 \in 1 .. n /\ k < n
    BY <1>8
  <2>2. Calls(stack[k], stack[k + 1])
    BY <1>3, <1>7, <2>1 DEF Chained
  <2> QED BY <1>8, <1>9, <2>1, <2>2 DEF Calls
<1>14. VisitedDone(stack, visited)'
  <2> SUFFICES ASSUME NEW v \in visited'
               PROVE  GoodPair(v[1], v[2]) /\ (OnStack(stack', v) \/ Done(visited', v[1], v[2]))
    BY Zenon DEF VisitedDone, GoodPair, Done, MemberFound, Members, Partner
  <2>1. GoodPair(v[1], v[2])
    BY <1>3, <1>6 DEF VisitedDone
  <2>2. OnStack(s, v) => OnStack(stack', v)
    BY <1>2, <1>8, <1>9 DEF OnStack
  <2> QED BY <1>4, <1>6, <2>1, <2>2
<1>15. RootFound(root, visited)'
  BY <1>3, <1>6
<1>16. Necessary'
  <2> SUFFICES ASSUME NEW R \in SUBSET (Addresses \X Addresses),
                      Related(R, root[1], root[2]), Bisimulation(R),
                      NEW k \in 1 .. n
               PROVE  <<stack'[k].p1.at, stack'[k].p2.at>> \in R
    BY <1>6, <1>8 DEF Necessary, Bisimulation
  <2>1. <<stack[k].p1.at, stack[k].p2.at>> \in R
    BY <1>7 DEF EqInv, Necessary
  <2> QED BY <1>9, <2>1
<1> QED BY <1>6, <1>10, <1>11, <1>12, <1>13, <1>14, <1>15, <1>16 DEF EqInv, Sufficient

\* A difference was found and no bisimulation relates the two values.
LEMMA ReturnFalseKeeps ==
    ASSUME EqInv, heap' = heap, root' # <<>>, root' = root \/ root' \in TaggedPtrs \X TaggedPtrs,
           ReturnFalse,
           \A R \in SUBSET (Addresses \X Addresses) : ~(Related(R, root'[1], root'[2]) /\ Bisimulation(R))
    PROVE  EqInv'
<1>1. answer' = "false" /\ stack' = <<>> /\ visited' = visited
  BY DEF ReturnFalse
<1>2. EqTypes'
  BY <1>1 DEF EqInv, EqTypes, WellFormed
<1>3. Control(root, stack, answer, visited)'
  BY <1>1 DEF Control
<1>4. Necessary'
  BY <1>1 DEF Necessary, Bisimulation
<1> QED BY <1>1, <1>2, <1>3, <1>4 DEF EqInv, Sufficient
-----------------------------------------------------------------------------
\* The member that a loop compares with is one of the other structure.
LEMMA PartnerInDomain ==
    ASSUME EqTypes, NEW p, NEW q, GoodPair(p, q), NEW i \in DOMAIN Members(p), Partner(p, q, i) # 0
    PROVE  Partner(p, q, i) \in DOMAIN Members(q)
<1>1. Members(p) \in Seq(TaggedPtrs) /\ Members(q) \in Seq(TaggedPtrs)
  BY DEF GoodPair, Pointers, EqTypes, Structures, Members
<1>2. CASE p.tag = "list"
  BY <1>1, <1>2 DEF Partner, GoodPair
<1>3. CASE p.tag # "list"
  BY <1>3 DEF Partner, Lookup, Members
<1> QED BY <1>2, <1>3

\* One turn of the loop over members keeps the invariant: it goes on, starts a
\* loop one level down, or has found a difference.
LEMMA CompareMemberKeeps ==
    ASSUME EqInv, CompareMember
    PROVE  EqInv'
<1> DEFINE n == Len(stack)
           f == stack[n]
           i == f.next
           j == Partner(f.p1, f.p2, i)
           a == Members(f.p1)[i]
           b == Members(f.p2)[j]
<1>1. EqTypes /\ stack \in Seq(FrameType) /\ stack # <<>>
  BY DEF EqInv, EqTypes, CompareMember
<1>2. n \in DOMAIN stack /\ n \in 0 .. Len(stack) /\ n # 0 /\ f \in FrameType
  BY <1>1
<1>3. root # <<>> /\ answer = "none"
  BY <1>1 DEF EqInv, Control, EqTypes
<1>4. FramesGood(stack, visited) /\ VisitedDone(stack, visited)
  BY <1>3 DEF EqInv, Sufficient
<1>5. GoodPair(f.p1, f.p2)
  BY <1>2, <1>4, Zenon DEF FramesGood
<1>6. f.p1 \in Pointers /\ f.p2 \in Pointers /\ f.next \in Nat \ {0}
  BY <1>2 DEF FrameType
<1>7. i \in DOMAIN Members(f.p1)
  <2>1. Members(f.p1) \in Seq(TaggedPtrs)
    BY <1>1, <1>6 DEF Pointers, EqTypes, Structures, Members
  <2>2. i <= Len(Members(f.p1))
    BY DEF CompareMember, Top
  <2> QED BY <1>6, <2>1, <2>2
<1>8. heap' = heap /\ root' = root
  BY DEF CompareMember
<1>9. \A R \in SUBSET (Addresses \X Addresses) :
        Related(R, root[1], root[2]) /\ Bisimulation(R) => j \in DOMAIN Members(f.p2) /\ j # 0 /\ Related(R, a, b)
  <2> SUFFICES ASSUME NEW R \in SUBSET (Addresses \X Addresses), Related(R, root[1], root[2]), Bisimulation(R)
               PROVE  j \in DOMAIN Members(f.p2) /\ j # 0 /\ Related(R, a, b)
    OBVIOUS
  <2>1. <<f.p1.at, f.p2.at>> \in R
    BY <1>2, <1>3 DEF EqInv, Necessary
  <2> QED BY <1>1, <1>5, <1>7, <2>1, PartnersRelated
<1>10. CASE j = 0
  <2>1. ReturnFalse
    BY <1>10 DEF CompareMember, Top
  <2> QED BY <1>3, <1>8, <1>9, <1>10, <2>1, ReturnFalseKeeps
<1>11. CASE j # 0
  <2>1. j \in DOMAIN Members(f.p2)
    BY <1>1, <1>5, <1>7, <1>11, PartnerInDomain
  <2>2. a \in TaggedPtrs /\ b \in TaggedPtrs
    BY <1>1, <1>6, <1>7, <2>1, MemberTypes
  <2>3. TaggedRoot(a) /\ TaggedRoot(b)
    BY <1>1, <1>6, <1>7, <2>1, MemberTypes DEF TaggedRoot, IsStructure
  <2>4. taggedPtrEq(a, b)
    BY <1>11 DEF CompareMember, Top
  <2>5. CASE EqualAtOnce(a, b)
    <3>1. Related(Found(visited), a, b)
      BY <1>1, <1>4, <2>2, <2>5, AtOnceFound
    <3>2. MemberFound(visited, f.p1, f.p2, f.next)
      BY <2>1, <3>1 DEF MemberFound
    <3>3. SubSeq(stack, 1, n) = stack
      BY <1>1
    <3>4. ReturnTrue(SubSeq(stack, 1, n))
      BY <2>4, <2>5, <3>3, Zenon DEF taggedPtrEq
    <3>5. \A v \in visited : OnStack(SubSeq(stack, 1, n), v) \/ Done(visited, v[1], v[2])
      BY <1>4, <3>3, Zenon DEF VisitedDone
    <3> HIDE DEF n
    <3> QED BY <1>2, <1>3, <1>8, <3>2, <3>4, <3>5, ReturnTrueKeeps
  <2>6. CASE ~EqualAtOnce(a, b) /\ Descends(a, b)
    <3>1. Push(Frame(a, b, TRUE))
      BY <2>4, <2>6, Zenon DEF taggedPtrEq
    <3>2. Frame(a, b, TRUE).p1 = a /\ Frame(a, b, TRUE).p2 = b
      BY DEF Frame
    <3>3. Calls(Top, Frame(a, b, TRUE))
      BY <1>7, <2>1, <3>2, Zenon DEF Calls, Top
    <3>4. ASSUME NEW R \in SUBSET (Addresses \X Addresses), Related(R, root'[1], root'[2]), Bisimulation(R)
          PROVE  <<a.at, b.at>> \in R
      BY <1>1, <1>8, <1>9, <2>2, <2>3, <2>6, <3>4, RelatedNotFalse, Zenon
    <3> HIDE DEF a, b
    <3> QED BY <1>1, <1>3, <1>8, <2>2, <2>3, <2>6, <3>1, <3>3, <3>4, PushKeeps, Zenon
  <2>7. CASE ~EqualAtOnce(a, b) /\ ~Descends(a, b)
    <3>1. ReturnFalse
      BY <2>4, <2>7 DEF taggedPtrEq
    <3>2. \A R \in SUBSET (Addresses \X Addresses) : ~(Related(R, root[1], root[2]) /\ Bisimulation(R))
      BY <1>1, <1>9, <2>2, <2>3, <2>7, RelatedNotFalse, Zenon
    <3> QED BY <1>3, <1>8, <3>1, <3>2, ReturnFalseKeeps
  <2> QED BY <2>5, <2>6, <2>7
<1> QED BY <1>10, <1>11

\* A loop that has compared all members returns true: its pair is done.
LEMMA EndLoopKeeps ==
    ASSUME EqInv, EndLoop
    PROVE  EqInv'
<1>1. EqTypes /\ stack \in Seq(FrameType) /\ stack # <<>>
  BY DEF EqInv, EqTypes, EndLoop
<1>2. PICK m \in Nat : Len(stack) = m + 1
  BY <1>1
<1>3. DOMAIN stack = 1 .. m + 1 /\ m + 1 \in DOMAIN stack /\ m \in 0 .. Len(stack)
  BY <1>1, <1>2
<1>4. root # <<>> /\ answer = "none"
  BY <1>1 DEF EqInv, Control, EqTypes
<1>5. FramesGood(stack, visited) /\ VisitedDone(stack, visited) /\ Chained(stack)
  BY <1>4 DEF EqInv, Sufficient
<1> DEFINE g == stack[m + 1]
<1>6. GoodPair(g.p1, g.p2) /\ <<g.p1, g.p2>> \in visited
  BY <1>3, <1>5 DEF FramesGood
<1>7. g.p1 \in Pointers /\ g.p2 \in Pointers /\ g.next \in Nat
  <2>1. g \in FrameType
    BY <1>1, <1>3
  <2> QED BY <2>1 DEF FrameType
<1>8. Done(visited, g.p1, g.p2)
  <2>1. g.next > Len(Members(g.p1))
    BY <1>2 DEF EndLoop, Top
  <2>2. Members(g.p1) \in Seq(TaggedPtrs)
    BY <1>1, <1>7 DEF Pointers, EqTypes, Structures, Members
  <2>3. \A i \in DOMAIN Members(g.p1) : i < g.next
    BY <1>7, <2>1, <2>2
  <2> QED BY <1>3, <1>5, <2>3, Zenon DEF Done, FramesGood
<1>9. ReturnTrue(SubSeq(stack, 1, m)) /\ heap' = heap /\ root' = root
  <2>1. Len(stack) - 1 = m
    BY <1>2
  <2> QED BY <2>1 DEF EndLoop
<1>10. m # 0 => MemberFound(visited, stack[m].p1, stack[m].p2, stack[m].next)
  <2> SUFFICES ASSUME m # 0 PROVE MemberFound(visited, stack[m].p1, stack[m].p2, stack[m].next)
    OBVIOUS
  <2>0. m \in DOMAIN stack
    BY <1>3
  <2>1. Calls(stack[m], stack[m + 1])
    BY <1>3, <1>5, <2>0, Zenon DEF Chained
  <2>2. Related(Found(visited), g.p1, g.p2)
    BY <1>6, <1>7, FoundPair
  <2> QED BY <2>1, <2>2 DEF Calls, MemberFound
<1>11. \A v \in visited : OnStack(SubSeq(stack, 1, m), v) \/ Done(visited, v[1], v[2])
  <2> SUFFICES ASSUME NEW v \in visited, ~Done(visited, v[1], v[2])
               PROVE  OnStack(SubSeq(stack, 1, m), v)
    OBVIOUS
  <2>1. PICK k \in DOMAIN stack : stack[k].p1 = v[1] /\ stack[k].p2 = v[2]
    BY <1>5 DEF VisitedDone, OnStack
  <2>2. k # m + 1
    BY <1>8, <2>1
  <2>3. k \in 1 .. m
    BY <1>3, <2>2
  <2>4. DOMAIN SubSeq(stack, 1, m) = 1 .. m /\ SubSeq(stack, 1, m)[k] = stack[k]
    BY <1>1, <1>2, <2>3
  <2> QED BY <2>1, <2>3, <2>4 DEF OnStack
<1> QED BY <1>3, <1>4, <1>9, <1>10, <1>11, ReturnTrueKeeps

\* The calls of the program: == on any two values, and on two structures of
\* which the types are known.
LEMMA CallKeeps ==
    ASSUME EqInv, NEW a \in TaggedPtrs, NEW b \in TaggedPtrs, TaggedRoot(a), TaggedRoot(b),
           Eq(a, b) \/ StructureEq(a, b)
    PROVE  EqInv'
<1>1. root = <<>> /\ root' = <<a, b>> /\ heap' = heap
  BY Zenon DEF Eq, StructureEq, Begin
<1>2. stack = <<>> /\ answer = "none" /\ visited = {} /\ EqTypes
  BY <1>1 DEF EqInv, Control
<1>3. root' # <<>> /\ root' \in TaggedPtrs \X TaggedPtrs /\ root'[1] = a /\ root'[2] = b
  BY <1>1
<1>4. \A R \in SUBSET (Addresses \X Addresses) :
        Related(R, a, b) /\ Bisimulation(R) =>
            (EqualAtOnce(a, b) \/ Descends(a, b)) /\ (Descends(a, b) => <<a.at, b.at>> \in R)
  BY <1>2, RelatedNotFalse
<1>5. ASSUME NEW e \in BOOLEAN, Descends(a, b), Push(Frame(a, b, e)) PROVE EqInv'
  BY <1>1, <1>2, <1>3, <1>4, <1>5, PushKeeps
<1>6. ASSUME ReturnFalse, ~Descends(a, b), ~EqualAtOnce(a, b) PROVE EqInv'
  BY <1>1, <1>3, <1>4, <1>6, ReturnFalseKeeps
<1>7. ASSUME ReturnTrue(stack), EqualAtOnce(a, b) PROVE EqInv'
  <2>1. answer' = "true" /\ stack' = <<>> /\ visited' = {}
    BY <1>2, <1>7 DEF ReturnTrue
  <2>2. FramesGood(stack, visited)
    BY <1>2 DEF FramesGood
  <2>3. Related(Found(visited), a, b)
    BY <1>2, <1>7, <2>2, AtOnceFound
  <2>4. RootFound(root, visited)'
    BY <1>2, <1>3, <2>1, <2>3 DEF RootFound
  <2>5. FramesGood(stack, visited)' /\ Chained(stack)' /\ VisitedDone(stack, visited)'
    BY <2>1 DEF FramesGood, Chained, VisitedDone
  <2>6. EqTypes'
    BY <1>1, <1>2, <1>3, <2>1 DEF EqTypes, WellFormed
  <2>7. Control(root, stack, answer, visited)' /\ Necessary'
    BY <1>3, <2>1 DEF Control, Necessary
  <2> QED BY <2>4, <2>5, <2>6, <2>7 DEF EqInv, Sufficient
<1>8. CASE Eq(a, b)
  BY <1>5, <1>6, <1>7, <1>8, Zenon DEF Eq, taggedPtrEq
<1>9. CASE StructureEq(a, b)
  <2>1. CASE Descends(a, b)
    BY <1>5, <1>9, <2>1, Zenon DEF StructureEq
  <2>2. CASE ~Descends(a, b)
    <3>1. ReturnFalse /\ a \in Pointers /\ b \in Pointers /\ a.tag = b.tag
      BY <1>9, <2>2 DEF StructureEq
    <3>2. a # b
      BY <2>2, <3>1 DEF Descends, IsStructure
    <3>3. ~EqualAtOnce(a, b)
      BY <1>2, <3>1, <3>2 DEF EqualAtOnce, OnEqStack, IsStructure
    <3> QED BY <1>6, <2>2, <3>1, <3>3
  <2> QED BY <2>1, <2>2
<1> QED BY <1>8, <1>9

\* The program goes on, and the next == starts with nothing on the EqStack.
LEMMA ResumeKeeps ==
    ASSUME EqInv, Resume
    PROVE  EqInv'
<1>1. root' = <<>> /\ answer' = "none" /\ visited' = {} /\ heap' = heap /\ stack' = stack
  BY DEF Resume
<1>2. stack = <<>>
  BY DEF EqInv, Control, Resume
<1>3. EqTypes'
  BY <1>1 DEF EqInv, EqTypes, WellFormed
<1>4. Control(root, stack, answer, visited)' /\ Necessary' /\ Sufficient'
  BY <1>1, <1>2 DEF Control, Necessary, Sufficient, FramesGood, Chained, VisitedDone, RootFound
<1> QED BY <1>3, <1>4 DEF EqInv
-----------------------------------------------------------------------------
\* When the stack is empty, what has been found is a bisimulation.
LEMMA FoundBisimulation ==
    ASSUME EqInv, answer = "true"
    PROVE  Bisimulation(Found(visited))
<1> DEFINE F == Found(visited)
<1>1. stack = <<>> /\ EqTypes /\ VisitedDone(stack, visited)
  BY DEF EqInv, Control, Sufficient
<1>2. SUFFICES ASSUME NEW a \in Addresses, NEW b \in Addresses, <<a, b>> \in F
               PROVE  SameMembers(F, heap[a], heap[b])
  BY DEF Bisimulation
<1>3. heap[a] \in Structures /\ heap[a].members \in Seq(TaggedPtrs) /\ heap[a].tag \in StructureTags
  BY <1>1 DEF EqTypes, Structures
<1>4. CASE a = b
  <2>1. \A i \in DOMAIN heap[a].members : Related(F, heap[a].members[i], heap[a].members[i])
    BY <1>3, FoundSame
  <2> QED BY <1>4, <2>1 DEF SameMembers
<1>5. CASE a # b
  <2>1. PICK v \in visited : v[1].at = a /\ v[2].at = b
    BY <1>2, <1>5 DEF Found
  <2>2. GoodPair(v[1], v[2]) /\ Done(visited, v[1], v[2])
    BY <1>1, <2>1 DEF VisitedDone, OnStack
  <2>3. heap[a].tag = v[1].tag /\ heap[a].tag = heap[b].tag /\ Len(heap[a].members) = Len(heap[b].members)
    BY <2>1, <2>2 DEF GoodPair, Members
  <2>4. CASE heap[a].tag = "list"
    BY <2>1, <2>2, <2>3, <2>4 DEF SameMembers, Done, MemberFound, Partner, Members
  <2>5. CASE heap[a].tag # "list"
    <3> SUFFICES ASSUME NEW i \in DOMAIN heap[a].members
                 PROVE  \E j \in DOMAIN heap[b].members :
                            /\ heap[a].keys[i] = heap[b].keys[j]
                            /\ Related(F, heap[a].members[i], heap[b].members[j])
      BY <2>3, <2>5 DEF SameMembers
    <3> DEFINE j == Lookup(heap[b], heap[a].keys[i])
    <3>1. Partner(v[1], v[2], i) = j
      BY <2>1, <2>3, <2>5 DEF Partner
    <3>2. j \in DOMAIN heap[b].members /\ Related(F, heap[a].members[i], heap[b].members[j])
      BY <2>1, <2>2, <3>1 DEF Done, MemberFound, Members
    <3>3. 0 \notin DOMAIN heap[b].members
      BY <1>1 DEF EqTypes, Structures
    <3>4. heap[b].keys[j] = heap[a].keys[i]
      BY <3>2, <3>3, Zenon DEF Lookup
    <3> QED BY <3>2, <3>4
  <2> QED BY <2>4, <2>5
<1> QED BY <1>4, <1>5

\* The answer true comes with a bisimulation, and the answer false with the proof
\* that there is none.
LEMMA EqInvSuffices == EqInv => EqualityCorrect
<1> SUFFICES ASSUME EqInv PROVE EqualityCorrect
  OBVIOUS
<1>1. ASSUME answer # "none" PROVE root # <<>>
  BY <1>1 DEF EqInv, Control
<1>2. ASSUME answer = "true" PROVE DeepEqual(root[1], root[2])
  <2>1. Related(Found(visited), root[1], root[2])
    BY <1>1, <1>2 DEF EqInv, Sufficient, RootFound
  <2>2. Found(visited) \in SUBSET (Addresses \X Addresses)
    BY DEF Found
  <2>3. Bisimulation(Found(visited))
    BY <1>2, FoundBisimulation
  <2> QED BY <2>1, <2>2, <2>3 DEF DeepEqual
<1>3. ASSUME answer = "false" PROVE ~DeepEqual(root[1], root[2])
  BY <1>1, <1>3 DEF EqInv, Necessary, DeepEqual
<1> QED BY <1>2, <1>3 DEF EqualityCorrect

\* For every set of addresses, every set of scalars and every heap, the
\* answer of == is the equality of the two values: taggedPtrEq
\* (balrt.h:870) is right about cyclic structures.
THEOREM EqualityDecided == EqSpec => []EqualityCorrect
<1>1. EqInit => EqInv
  <2> SUFFICES ASSUME EqInit PROVE EqInv
    OBVIOUS
  <2>1. EqTypes
    BY DEF EqInit, EqTypes
  <2> QED BY <2>1 DEF EqInit, EqInv, Control, Sufficient, Necessary, FramesGood, Chained, VisitedDone, RootFound
<1>2. EqInv /\ [EqNext]_eqVars => EqInv'
  <2> SUFFICES ASSUME EqInv, [EqNext]_eqVars PROVE EqInv'
    OBVIOUS
  <2>1. CASE EqCall(TaggedPtrs \X TaggedPtrs)
    <3>1. PICK r \in TaggedPtrs \X TaggedPtrs :
            TaggedRoot(r[1]) /\ TaggedRoot(r[2]) /\ (Eq(r[1], r[2]) \/ StructureEq(r[1], r[2]))
      BY <2>1 DEF EqCall
    <3>2. r[1] \in TaggedPtrs /\ r[2] \in TaggedPtrs
      OBVIOUS
    <3> QED BY <3>1, <3>2, CallKeeps
  <2>2. CASE CompareMember
    BY <2>2, CompareMemberKeeps
  <2>3. CASE EndLoop
    BY <2>3, EndLoopKeeps
  <2>4. CASE Resume
    BY <2>4, ResumeKeeps
  <2>5. CASE UNCHANGED eqVars
    <3>1. heap' = heap /\ root' = root /\ stack' = stack /\ answer' = answer /\ visited' = visited
      BY <2>5 DEF eqVars
    <3>2. EqTypes' /\ Control(root, stack, answer, visited)'
      BY <3>1 DEF EqInv, EqTypes, WellFormed, Control
    <3>3. Sufficient'
      <4>1. \A p, q : GoodPair(p, q)' <=> GoodPair(p, q)
        BY <3>1 DEF GoodPair, Members
      <4>2. FramesGood(stack, visited) => FramesGood(stack, visited)'
        <5> SUFFICES ASSUME FramesGood(stack, visited), NEW k \in DOMAIN stack'
                     PROVE  /\ GoodPair(stack'[k].p1, stack'[k].p2) /\ <<stack'[k].p1, stack'[k].p2>> \in visited'
                            /\ \A i \in DOMAIN Members(stack'[k].p1) :
                                  i < stack'[k].next => MemberFound(visited', stack'[k].p1, stack'[k].p2, i)
          <6>1. heap' = heap
            BY <3>1
          <6> QED BY <6>1, Zenon DEF FramesGood, GoodPair, MemberFound, Members, Partner
        <5> QED BY <3>1 DEF FramesGood
      <4>3. Chained(stack)' <=> Chained(stack)
        BY <3>1 DEF Chained, Calls, Members, Partner
      <4>4. VisitedDone(stack, visited)' <=> VisitedDone(stack, visited)
        BY <3>1, <4>1, Zenon DEF VisitedDone, Done, MemberFound, Members, Partner
      <4>5. RootFound(root, visited)' <=> RootFound(root, visited)
        BY <3>1 DEF RootFound
      <4> QED BY <3>1, <4>2, <4>3, <4>4, <4>5 DEF EqInv, Sufficient
    <3>4. Necessary'
      BY <3>1 DEF EqInv, Necessary, Bisimulation
    <3> QED BY <3>2, <3>3, <3>4 DEF EqInv
  <2> QED BY <2>1, <2>2, <2>3, <2>4, <2>5 DEF EqNext, EqWork
<1> QED BY <1>1, <1>2, EqInvSuffices, PTL DEF EqSpec

-----------------------------------------------------------------------------
TokenType ==
    [kind : {"comma", "key", "scalar", "dots", "open", "close", "newline"}, of : TaggedPtrs]

LoopType == [p : Pointers, next : Nat \ {0}]

\* The brackets of p before the k-th token of out, and how many are open.
Brackets(out, kind, k, p) ==
    {i \in DOMAIN out : out[i].kind = kind /\ i < k /\ out[i].of = p}

Balance(out, k, p) ==
    Cardinality(Brackets(out, "open", k, p)) - Cardinality(Brackets(out, "close", k, p))

Opened(out, p) == \E i \in DOMAIN out : out[i].kind = "open" /\ out[i].of = p

InLoop(frs, p) == \E j \in DOMAIN frs : frs[j].p = p

\* The first loop is of the arguments, which have no brackets.
InBrackets(frs, p) == \E j \in DOMAIN frs : j > 1 /\ frs[j].p = p

WrittenMember(out, p, i) == Members(p)[i] \in Pointers => Opened(out, Members(p)[i])

AllWritten(out, p) == \A i \in DOMAIN Members(p) : WrittenMember(out, p, i)

\* The brackets that are open are those of the loops.
Balanced(out, frs) ==
    \A p \in Pointers : Balance(out, Len(out) + 1, p) = IF InBrackets(frs, p) THEN 1 ELSE 0

\* What PrintedWhole says of the brackets and the dots written so far.
Placed(out) ==
    /\ \A k \in DOMAIN out : out[k].kind = "dots" => Balance(out, k, out[k].of) = 1
    /\ \A k \in DOMAIN out : out[k].kind = "open" => Balance(out, k, out[k].of) = 0

\* A structure has one loop at a time; nothing refers to the arguments.
Nested(frs) ==
    /\ \A i, j \in DOMAIN frs : frs[i].p = frs[j].p => i = j
    /\ frs # <<>> => frs[1].p \in ArgumentLists

\* The loops have written the members that they have passed, and a structure
\* with no loop any more has been written out.
Covered(out, frs) ==
    /\ \A j \in DOMAIN frs : j > 1 => Opened(out, frs[j].p)
    /\ \A j \in DOMAIN frs : \A i \in DOMAIN Members(frs[j].p) :
        i < frs[j].next => WrittenMember(out, frs[j].p, i)
    /\ \A k \in DOMAIN out : out[k].kind = "open" =>
        out[k].of \in Pointers /\ (InLoop(frs, out[k].of) \/ AllWritten(out, out[k].of))
    /\ \A k \in DOMAIN out : out[k].kind = "newline" =>
        frs = <<>> /\ out[k].of \in Pointers /\ AllWritten(out, out[k].of)

OutputInv(out, frs) ==
    /\ out \in Seq(TokenType) /\ frs \in Seq(LoopType)
    /\ Balanced(out, frs) /\ Placed(out) /\ Nested(frs) /\ Covered(out, frs)

PrintInv ==
    /\ heap \in [Addresses -> Structures]
    /\ printing <=> frames # <<>>
    /\ OutputInv(output, frames)
-----------------------------------------------------------------------------
LEMMA BracketsFinite ==
    ASSUME NEW out \in Seq(TokenType), NEW kind, NEW k, NEW p
    PROVE  /\ IsFiniteSet(Brackets(out, kind, k, p))
           /\ Cardinality(Brackets(out, kind, k, p)) \in Nat
<1>1. IsFiniteSet(1..Len(out))
  BY FS_Interval
<1>2. Brackets(out, kind, k, p) \in SUBSET (1..Len(out))
  BY DEF Brackets
<1> QED
  BY <1>1, <1>2, FS_Subset, FS_CardinalityType

\* A token does not change the brackets before it ...
LEMMA BracketsBefore ==
    ASSUME NEW out \in Seq(TokenType), NEW t \in TokenType, NEW kind, NEW p,
           NEW k \in 1..(Len(out) + 1)
    PROVE  Brackets(Append(out, t), kind, k, p) = Brackets(out, kind, k, p)
<1>1. /\ DOMAIN Append(out, t) = 1..(Len(out) + 1) /\ DOMAIN out = 1..Len(out)
      /\ \A i \in 1..Len(out) : Append(out, t)[i] = out[i]
  OBVIOUS
<1>2. ASSUME NEW i PROVE i \in Brackets(Append(out, t), kind, k, p) <=> i \in Brackets(out, kind, k, p)
  BY <1>1 DEF Brackets
<1> QED
  BY <1>2, Zenon

\* ... and adds at most itself to those after it.
LEMMA BracketsAfter ==
    ASSUME NEW out \in Seq(TokenType), NEW t \in TokenType, NEW kind, NEW p
    PROVE  Cardinality(Brackets(Append(out, t), kind, Len(out) + 2, p))
            = Cardinality(Brackets(out, kind, Len(out) + 1, p))
              + IF t.kind = kind /\ t.of = p THEN 1 ELSE 0
<1> DEFINE b == Brackets(out, kind, Len(out) + 1, p)
           c == Brackets(Append(out, t), kind, Len(out) + 2, p)
<1>1. /\ DOMAIN Append(out, t) = 1..(Len(out) + 1) /\ DOMAIN out = 1..Len(out)
      /\ \A i \in 1..Len(out) : Append(out, t)[i] = out[i]
      /\ Append(out, t)[Len(out) + 1] = t
  OBVIOUS
<1>2. \A i \in 1..Len(out) : i \in c <=> i \in b
  BY <1>1 DEF Brackets
<1>3. Len(out) + 1 \notin b /\ (Len(out) + 1 \in c <=> t.kind = kind /\ t.of = p)
  BY <1>1 DEF Brackets
<1>4. c \subseteq 1..Len(out) \cup {Len(out) + 1} /\ b \subseteq 1..Len(out)
  BY <1>1 DEF Brackets
<1>5. IsFiniteSet(b) /\ Cardinality(b) \in Nat
  BY BracketsFinite
<1> HIDE DEF b, c
<1>6. CASE t.kind = kind /\ t.of = p
  <2>1. c = b \cup {Len(out) + 1}
    BY <1>2, <1>3, <1>4, <1>6, Zenon
  <2>2. Cardinality(c) = Cardinality(b) + 1
    BY <2>1, <1>3, <1>5, FS_AddElement, Zenon
  <2> QED
    BY <2>2, <1>6 DEF b, c
<1>7. CASE ~(t.kind = kind /\ t.of = p)
  <2>1. c = b
    BY <1>2, <1>3, <1>4, <1>7, Zenon
  <2> QED
    BY <2>1, <1>5, <1>7 DEF b, c
<1> QED
  BY <1>6, <1>7

LEMMA BalanceBefore ==
    ASSUME NEW out \in Seq(TokenType), NEW t \in TokenType, NEW p, NEW k \in 1..(Len(out) + 1)
    PROVE  Balance(Append(out, t), k, p) = Balance(out, k, p)
<1>1. /\ Brackets(Append(out, t), "open", k, p) = Brackets(out, "open", k, p)
      /\ Brackets(Append(out, t), "close", k, p) = Brackets(out, "close", k, p)
  BY BracketsBefore
<1> QED
  BY <1>1, Zenon DEF Balance

LEMMA BalanceAfter ==
    ASSUME NEW out \in Seq(TokenType), NEW t \in TokenType, NEW p
    PROVE  /\ Balance(out, Len(out) + 1, p) \in Int
           /\ t.of # p \/ t.kind \notin {"open", "close"} =>
                Balance(Append(out, t), Len(out) + 2, p) = Balance(out, Len(out) + 1, p)
           /\ t.of = p /\ t.kind = "open" =>
                Balance(Append(out, t), Len(out) + 2, p) = Balance(out, Len(out) + 1, p) + 1
           /\ t.of = p /\ t.kind = "close" =>
                Balance(Append(out, t), Len(out) + 2, p) = Balance(out, Len(out) + 1, p) - 1
<1> DEFINE o == Cardinality(Brackets(out, "open", Len(out) + 1, p))
           c == Cardinality(Brackets(out, "close", Len(out) + 1, p))
           o2 == Cardinality(Brackets(Append(out, t), "open", Len(out) + 2, p))
           c2 == Cardinality(Brackets(Append(out, t), "close", Len(out) + 2, p))
<1>1. o \in Nat /\ c \in Nat
  BY BracketsFinite
<1>2. /\ o2 = o + IF t.kind = "open" /\ t.of = p THEN 1 ELSE 0
      /\ c2 = c + IF t.kind = "close" /\ t.of = p THEN 1 ELSE 0
  BY BracketsAfter
<1>3. /\ Balance(out, Len(out) + 1, p) = o - c
      /\ Balance(Append(out, t), Len(out) + 2, p) = o2 - c2
  BY Zenon DEF Balance
<1> HIDE DEF o, c, o2, c2
<1> QED
  BY <1>1, <1>2, <1>3

LEMMA WrittenMore ==
    ASSUME NEW out \in Seq(TokenType), NEW t \in TokenType, NEW p
    PROVE  /\ Opened(Append(out, t), p) <=> Opened(out, p) \/ (t.kind = "open" /\ t.of = p)
           /\ \A i : WrittenMember(out, p, i) => WrittenMember(Append(out, t), p, i)
           /\ AllWritten(out, p) => AllWritten(Append(out, t), p)
<1>1. /\ DOMAIN Append(out, t) = 1..(Len(out) + 1) /\ DOMAIN out = 1..Len(out)
      /\ \A i \in 1..Len(out) : Append(out, t)[i] = out[i]
      /\ Append(out, t)[Len(out) + 1] = t
  OBVIOUS
<1>2. \A q : Opened(Append(out, t), q) <=> Opened(out, q) \/ (t.kind = "open" /\ t.of = q)
  BY <1>1 DEF Opened
<1>3. \A i : WrittenMember(out, p, i) => WrittenMember(Append(out, t), p, i)
  BY <1>2, Zenon DEF WrittenMember
<1> QED
  BY <1>2, <1>3, Zenon DEF AllWritten

LEMMA PlacedMore ==
    ASSUME NEW out \in Seq(TokenType), NEW t \in TokenType, Placed(out),
           t.kind = "dots" => Balance(out, Len(out) + 1, t.of) = 1,
           t.kind = "open" => Balance(out, Len(out) + 1, t.of) = 0
    PROVE  Placed(Append(out, t))
<1>1. /\ DOMAIN Append(out, t) = 1..(Len(out) + 1) /\ DOMAIN out = 1..Len(out)
      /\ \A i \in 1..Len(out) : Append(out, t)[i] = out[i]
      /\ Append(out, t)[Len(out) + 1] = t
  OBVIOUS
<1>2. \A p : \A k \in 1..(Len(out) + 1) : Balance(Append(out, t), k, p) = Balance(out, k, p)
  BY BalanceBefore
<1>3. ASSUME NEW k \in 1..(Len(out) + 1)
      PROVE  /\ Append(out, t)[k].kind = "dots" => Balance(Append(out, t), k, Append(out, t)[k].of) = 1
             /\ Append(out, t)[k].kind = "open" => Balance(Append(out, t), k, Append(out, t)[k].of) = 0
  <2>1. CASE k \in 1..Len(out)
    BY <2>1, <1>1, <1>2 DEF Placed
  <2>2. CASE k = Len(out) + 1
    BY <2>2, <1>1, <1>2
  <2> QED
    BY <2>1, <2>2
<1> QED
  BY <1>1, <1>3, Zenon DEF Placed

\* A token that is neither a bracket nor the new line leaves the loops as
\* they are; dots stand inside the brackets of what they are for.
LEMMA TokenWritten ==
    ASSUME NEW out, NEW frs, OutputInv(out, frs), frs # <<>>,
           NEW t \in TokenType, t.kind \in {"comma", "key", "scalar", "dots"},
           t.kind = "dots" => t.of \in Pointers /\ InBrackets(frs, t.of)
    PROVE  OutputInv(Append(out, t), frs)
<1>0. /\ out \in Seq(TokenType) /\ frs \in Seq(LoopType)
      /\ Balanced(out, frs) /\ Placed(out) /\ Nested(frs) /\ Covered(out, frs)
  BY DEF OutputInv
<1>1. /\ DOMAIN Append(out, t) = 1..(Len(out) + 1) /\ DOMAIN out = 1..Len(out)
      /\ Len(Append(out, t)) + 1 = Len(out) + 2
      /\ \A i \in 1..Len(out) : Append(out, t)[i] = out[i]
      /\ Append(out, t)[Len(out) + 1] = t
      /\ Append(out, t) \in Seq(TokenType)
  BY <1>0
<1>2. Balanced(Append(out, t), frs)
  <2>1. \A p : Balance(Append(out, t), Len(out) + 2, p) = Balance(out, Len(out) + 1, p)
    BY <1>0, BalanceAfter
  <2> QED
    BY <1>0, <1>1, <2>1, Zenon DEF Balanced
<1>3. Placed(Append(out, t))
  <2>1. t.kind = "dots" => Balance(out, Len(out) + 1, t.of) = 1
    BY <1>0 DEF Balanced
  <2> QED
    BY <1>0, <2>1, PlacedMore
<1>4. Covered(Append(out, t), frs)
  <2>1. \A p : /\ Opened(out, p) => Opened(Append(out, t), p)
               /\ \A i : WrittenMember(out, p, i) => WrittenMember(Append(out, t), p, i)
               /\ AllWritten(out, p) => AllWritten(Append(out, t), p)
    BY <1>0, WrittenMore
  <2>2. \A k \in DOMAIN Append(out, t) : Append(out, t)[k].kind \in {"open", "newline"} =>
            k \in DOMAIN out /\ Append(out, t)[k] = out[k]
    BY <1>1
  <2> QED
    BY <1>0, <2>1, <2>2, Zenon DEF Covered
<1> QED
  BY <1>0, <1>1, <1>2, <1>3, <1>4, Zenon DEF OutputInv

\* Loops of the same structures that have passed other members.
SameLoops(frs, ds) ==
    /\ DOMAIN ds = DOMAIN frs
    /\ \A j \in DOMAIN frs : ds[j].p = frs[j].p

LEMMA LoopsPassed ==
    ASSUME NEW out, NEW frs, OutputInv(out, frs), NEW ds \in Seq(LoopType), SameLoops(frs, ds),
           \A j \in DOMAIN ds : \A i \in DOMAIN Members(ds[j].p) :
                i < ds[j].next => WrittenMember(out, ds[j].p, i)
    PROVE  OutputInv(out, ds)
<1>0. /\ out \in Seq(TokenType) /\ frs \in Seq(LoopType)
      /\ Balanced(out, frs) /\ Placed(out) /\ Nested(frs) /\ Covered(out, frs)
  BY DEF OutputInv
<1>1. \A p : (InLoop(ds, p) <=> InLoop(frs, p)) /\ (InBrackets(ds, p) <=> InBrackets(frs, p))
  BY DEF SameLoops, InLoop, InBrackets
<1>2. (ds = <<>> <=> frs = <<>>) /\ (frs # <<>> => 1 \in DOMAIN frs)
  BY <1>0 DEF SameLoops
<1>3. Balanced(out, ds)
  BY <1>0, <1>1, Zenon DEF Balanced
<1>4. Nested(ds)
  BY <1>0, <1>2, Zenon DEF Nested, SameLoops
<1>5. Covered(out, ds)
  BY <1>0, <1>1, <1>2 DEF Covered, SameLoops
<1> QED
  BY <1>0, <1>3, <1>4, <1>5, Zenon DEF OutputInv

\* An opening bracket, and the loop of its structure.
LEMMA BracketOpened ==
    ASSUME heap \in [Addresses -> Structures],
           NEW out, NEW frs, OutputInv(out, frs), frs # <<>>,
           NEW p \in Pointers, ~InLoop(frs, p)
    PROVE  OutputInv(Append(out, Token("open", p)), Append(frs, [p |-> p, next |-> 1]))
<1> DEFINE t == Token("open", p)
           f == [p |-> p, next |-> 1]
<1>0. /\ out \in Seq(TokenType) /\ frs \in Seq(LoopType)
      /\ Balanced(out, frs) /\ Placed(out) /\ Nested(frs) /\ Covered(out, frs)
  BY DEF OutputInv
<1>t. t \in TokenType /\ t.kind = "open" /\ t.of = p
  BY DEF TokenType, Token, TaggedPtrs
<1>f. f \in LoopType /\ f.p = p /\ f.next = 1
  BY DEF LoopType
<1> HIDE DEF t, f
<1>1. /\ DOMAIN Append(out, t) = 1..(Len(out) + 1) /\ DOMAIN out = 1..Len(out)
      /\ Len(Append(out, t)) + 1 = Len(out) + 2
      /\ \A i \in 1..Len(out) : Append(out, t)[i] = out[i]
      /\ Append(out, t)[Len(out) + 1] = t
      /\ Append(out, t) \in Seq(TokenType)
  BY <1>0, <1>t
<1>2. /\ DOMAIN Append(frs, f) = 1..(Len(frs) + 1) /\ DOMAIN frs = 1..Len(frs)
      /\ \A i \in 1..Len(frs) : Append(frs, f)[i] = frs[i]
      /\ Append(frs, f)[Len(frs) + 1] = f
      /\ Append(frs, f) \in Seq(LoopType)
      /\ Len(frs) \in Nat /\ Len(frs) >= 1
      /\ Append(frs, f) # <<>>
  <2>1. Append(frs, f) \in Seq(LoopType) /\ Len(Append(frs, f)) = Len(frs) + 1
    BY <1>0, <1>f
  <2>2. /\ DOMAIN Append(frs, f) = 1..(Len(frs) + 1) /\ DOMAIN frs = 1..Len(frs)
        /\ \A i \in 1..Len(frs) : Append(frs, f)[i] = frs[i]
        /\ Append(frs, f)[Len(frs) + 1] = f
    BY <1>0
  <2>3. Len(frs) \in Nat /\ Len(frs) >= 1
    BY <1>0
  <2>4. Append(frs, f) # <<>>
    BY <2>1, <2>3
  <2> QED
    BY <2>1, <2>2, <2>3, <2>4
<1>3. \A q : /\ InLoop(Append(frs, f), q) <=> InLoop(frs, q) \/ q = p
             /\ InBrackets(Append(frs, f), q) <=> InBrackets(frs, q) \/ q = p
  BY <1>2, <1>f DEF InLoop, InBrackets
<1>4. ~InBrackets(frs, p)
  BY Zenon DEF InLoop, InBrackets
<1>5. Balance(out, Len(out) + 1, p) = 0
  BY <1>0, <1>4, Zenon DEF Balanced
<1>6. Balanced(Append(out, t), Append(frs, f))
  <2>1. Balance(Append(out, t), Len(out) + 2, p) = 1
    BY <1>0, <1>t, <1>5, BalanceAfter
  <2>2. \A q : q # p => Balance(Append(out, t), Len(out) + 2, q) = Balance(out, Len(out) + 1, q)
    BY <1>0, <1>t, BalanceAfter
  <2> QED
    BY <1>0, <1>1, <1>3, <2>1, <2>2, Zenon DEF Balanced
<1>7. Placed(Append(out, t))
  BY <1>0, <1>t, <1>5, PlacedMore
<1>8. Nested(Append(frs, f))
  <2>1. \A i \in DOMAIN frs : frs[i].p # p
    BY DEF InLoop
  <2> QED
    BY <1>0, <1>2, <1>f, <2>1 DEF Nested
<1>9. Covered(Append(out, t), Append(frs, f))
  <2>1. \A q : /\ Opened(Append(out, t), q) <=> Opened(out, q) \/ q = p
               /\ \A i : WrittenMember(out, q, i) => WrittenMember(Append(out, t), q, i)
               /\ AllWritten(out, q) => AllWritten(Append(out, t), q)
    BY <1>0, <1>t, WrittenMore
  <2>s. \A j \in DOMAIN Append(frs, f) :
            (j \in DOMAIN frs /\ Append(frs, f)[j] = frs[j]) \/ (j = Len(frs) + 1 /\ Append(frs, f)[j] = f)
    BY <1>2
  <2>2. \A j \in DOMAIN Append(frs, f) : j > 1 => Opened(Append(out, t), Append(frs, f)[j].p)
    BY <1>0, <1>f, <2>1, <2>s, Zenon DEF Covered
  <2>3. ASSUME NEW j \in DOMAIN Append(frs, f), NEW i \in DOMAIN Members(Append(frs, f)[j].p),
               i < Append(frs, f)[j].next
        PROVE  WrittenMember(Append(out, t), Append(frs, f)[j].p, i)
    <3>1. CASE j \in DOMAIN frs /\ Append(frs, f)[j] = frs[j]
      BY <1>0, <2>1, <2>3, <3>1, Zenon DEF Covered
    <3>2. CASE j = Len(frs) + 1 /\ Append(frs, f)[j] = f
      <4>1. Members(p) \in Seq(TaggedPtrs)
        BY DEF Members, Pointers, Structures
      <4>2. i < 1 /\ i \in DOMAIN Members(p)
        BY <1>f, <2>3, <3>2, Zenon
      <4>3. i \in 1..Len(Members(p))
        BY <4>1, <4>2
      <4> QED
        BY <4>2, <4>3
    <3> QED
      BY <2>s, <3>1, <3>2, Zenon
  <2>k. \A k \in DOMAIN Append(out, t) :
            (k \in DOMAIN out /\ Append(out, t)[k] = out[k]) \/ Append(out, t)[k] = t
    BY <1>1
  <2>4. ASSUME NEW k \in DOMAIN Append(out, t), Append(out, t)[k].kind = "open"
        PROVE  /\ Append(out, t)[k].of \in Pointers
               /\ \/ InLoop(Append(frs, f), Append(out, t)[k].of)
                  \/ AllWritten(Append(out, t), Append(out, t)[k].of)
    <3>1. CASE k \in DOMAIN out /\ Append(out, t)[k] = out[k]
      BY <1>0, <1>3, <2>1, <2>4, <3>1, Zenon DEF Covered
    <3>2. CASE Append(out, t)[k] = t
      BY <1>t, <1>3, <3>2, Zenon
    <3> QED
      BY <2>k, <3>1, <3>2, Zenon
  <2>5. \A k \in DOMAIN Append(out, t) : Append(out, t)[k].kind # "newline"
    <3>1. t.kind # "newline"
      BY <1>t
    <3> QED
      BY <1>0, <2>k, <3>1, Zenon DEF Covered
  <2> QED
    BY <2>2, <2>3, <2>4, <2>5, Zenon DEF Covered
<1> QED
  BY <1>1, <1>2, <1>6, <1>7, <1>8, <1>9, Zenon DEF OutputInv, t, f

\* The closing bracket of a structure that has been written out.
LEMMA BracketClosed ==
    ASSUME NEW out, NEW frs, OutputInv(out, frs), Len(frs) > 1,
           AllWritten(out, frs[Len(frs)].p)
    PROVE  OutputInv(Append(out, Token("close", frs[Len(frs)].p)), SubSeq(frs, 1, Len(frs) - 1))
<1> DEFINE p == frs[Len(frs)].p
           t == Token("close", p)
           ds == SubSeq(frs, 1, Len(frs) - 1)
<1>0. /\ out \in Seq(TokenType) /\ frs \in Seq(LoopType)
      /\ Balanced(out, frs) /\ Placed(out) /\ Nested(frs) /\ Covered(out, frs)
  BY DEF OutputInv
<1>p. Len(frs) \in DOMAIN frs /\ 1 \in DOMAIN frs /\ p \in Pointers
  <2>1. Len(frs) \in DOMAIN frs /\ 1 \in DOMAIN frs
    BY <1>0
  <2>2. frs[Len(frs)] \in LoopType
    BY <1>0, <2>1
  <2> QED
    BY <2>1, <2>2 DEF LoopType
<1>t. t \in TokenType /\ t.kind = "close" /\ t.of = p
  BY <1>p DEF TokenType, Token, TaggedPtrs
<1>1. /\ DOMAIN ds = 1..(Len(frs) - 1) /\ DOMAIN frs = 1..Len(frs)
      /\ \A j \in 1..(Len(frs) - 1) : ds[j] = frs[j]
      /\ ds \in Seq(LoopType) /\ ds # <<>> /\ Len(frs) \in Nat /\ frs # <<>>
  <2>1. Len(frs) \in Nat /\ frs # <<>> /\ DOMAIN frs = 1..Len(frs)
    BY <1>0
  <2>2. ds \in Seq(LoopType) /\ Len(ds) = Len(frs) - 1
    BY <1>0
  <2>3. DOMAIN ds = 1..(Len(frs) - 1) /\ ds # <<>>
    <3> HIDE DEF ds
    <3> QED
      BY <2>1, <2>2
  <2>4. \A j \in 1..(Len(frs) - 1) : ds[j] = frs[j]
    BY <1>0
  <2> HIDE DEF ds
  <2> QED
    BY <2>1, <2>2, <2>3, <2>4
<1> HIDE DEF p, t, ds
<1>2. /\ DOMAIN Append(out, t) = 1..(Len(out) + 1) /\ DOMAIN out = 1..Len(out)
      /\ Len(Append(out, t)) + 1 = Len(out) + 2
      /\ \A i \in 1..Len(out) : Append(out, t)[i] = out[i]
      /\ Append(out, t)[Len(out) + 1] = t
      /\ Append(out, t) \in Seq(TokenType)
  BY <1>0, <1>t
<1>3. \A j \in DOMAIN frs : frs[j].p = p <=> j = Len(frs)
  BY <1>0, <1>p DEF Nested, p
<1>4. \A q : /\ InLoop(ds, q) <=> InLoop(frs, q) /\ q # p
             /\ InBrackets(ds, q) <=> InBrackets(frs, q) /\ q # p
  BY <1>1, <1>3 DEF InLoop, InBrackets
<1>5. InBrackets(frs, p)
  BY <1>p DEF InBrackets, p
<1>6. Balanced(Append(out, t), ds)
  <2>1. Balance(out, Len(out) + 1, p) = 1
    BY <1>0, <1>p, <1>5, Zenon DEF Balanced
  <2>2. Balance(Append(out, t), Len(out) + 2, p) = 0
    BY <1>0, <1>t, <2>1, BalanceAfter
  <2>3. \A q : q # p => Balance(Append(out, t), Len(out) + 2, q) = Balance(out, Len(out) + 1, q)
    BY <1>0, <1>t, BalanceAfter
  <2> QED
    BY <1>0, <1>2, <1>4, <2>2, <2>3, Zenon DEF Balanced
<1>7. Placed(Append(out, t))
  BY <1>0, <1>t, PlacedMore
<1>8. Nested(ds)
  <2>1. 1 \in DOMAIN ds /\ \A j \in DOMAIN ds : j \in DOMAIN frs /\ ds[j] = frs[j]
    BY <1>1
  <2> QED
    BY <1>0, <1>1, <2>1, Zenon DEF Nested
<1>9. Covered(Append(out, t), ds)
  <2>1. \A q : /\ Opened(out, q) => Opened(Append(out, t), q)
               /\ \A i : WrittenMember(out, q, i) => WrittenMember(Append(out, t), q, i)
               /\ AllWritten(out, q) => AllWritten(Append(out, t), q)
    BY <1>0, <1>t, WrittenMore
  <2>2. \A k \in DOMAIN Append(out, t) : Append(out, t)[k].kind \in {"open", "newline"} =>
            k \in DOMAIN out /\ Append(out, t)[k] = out[k]
    BY <1>2, <1>t
  <2>3. \A j \in DOMAIN ds : j \in DOMAIN frs /\ ds[j] = frs[j]
    BY <1>1
  <2>4. \A k \in DOMAIN out : out[k].kind # "newline"
    BY <1>0, <1>1 DEF Covered
  <2>5. ASSUME NEW k \in DOMAIN out, out[k].kind = "open"
        PROVE  out[k].of \in Pointers /\ (InLoop(ds, out[k].of) \/ AllWritten(out, out[k].of))
    BY <1>0, <1>4, <2>5 DEF Covered, p
  <2> QED
    BY <1>0, <2>1, <2>2, <2>3, <2>4, <2>5 DEF Covered
<1> QED
  BY <1>1, <1>2, <1>6, <1>7, <1>8, <1>9, Zenon DEF OutputInv, p, t, ds

\* The new line after the arguments.
LEMMA LineEnded ==
    ASSUME NEW out, NEW frs, OutputInv(out, frs), Len(frs) = 1, AllWritten(out, frs[1].p)
    PROVE  OutputInv(Append(out, Token("newline", frs[1].p)), <<>>)
<1> DEFINE p == frs[1].p
           t == Token("newline", p)
<1>0. /\ out \in Seq(TokenType) /\ frs \in Seq(LoopType)
      /\ Balanced(out, frs) /\ Placed(out) /\ Nested(frs) /\ Covered(out, frs)
  BY DEF OutputInv
<1>p. DOMAIN frs = {1} /\ frs # <<>> /\ p \in Pointers
  <2>0. DOMAIN frs = 1..Len(frs)
    BY <1>0
  <2>1. DOMAIN frs = 1..1 /\ frs # <<>>
    BY <2>0
  <2>2. frs[1] \in LoopType
    BY <1>0
  <2>3. p \in Pointers
    BY <2>2 DEF LoopType
  <2>4. 1..1 = {1}
    OBVIOUS
  <2> QED
    BY <2>1, <2>3, <2>4, Zenon
<1>t. t \in TokenType /\ t.kind = "newline" /\ t.of = p
  BY <1>p DEF TokenType, Token, TaggedPtrs
<1>e. DOMAIN <<>> = {} /\ <<>> \in Seq(LoopType)
  OBVIOUS
<1> HIDE DEF t
<1>1. /\ DOMAIN Append(out, t) = 1..(Len(out) + 1) /\ DOMAIN out = 1..Len(out)
      /\ Len(Append(out, t)) + 1 = Len(out) + 2
      /\ \A i \in 1..Len(out) : Append(out, t)[i] = out[i]
      /\ Append(out, t)[Len(out) + 1] = t
      /\ Append(out, t) \in Seq(TokenType)
  BY <1>0, <1>t
<1>2. \A q : ~InBrackets(frs, q) /\ ~InBrackets(<<>>, q)
  BY <1>p, <1>e DEF InBrackets
<1>3. Balanced(Append(out, t), <<>>)
  <2>1. \A q : Balance(Append(out, t), Len(out) + 2, q) = Balance(out, Len(out) + 1, q)
    BY <1>0, <1>t, BalanceAfter
  <2> QED
    BY <1>0, <1>1, <1>2, <2>1, Zenon DEF Balanced
<1>4. Placed(Append(out, t))
  BY <1>0, <1>t, PlacedMore
<1>5. Nested(<<>>)
  BY <1>e, Zenon DEF Nested
<1>6. Covered(Append(out, t), <<>>)
  <2>1. \A q : AllWritten(out, q) => AllWritten(Append(out, t), q)
    BY <1>0, <1>t, WrittenMore
  <2>2. ASSUME NEW k \in DOMAIN Append(out, t), Append(out, t)[k].kind = "open"
        PROVE  Append(out, t)[k].of \in Pointers /\ AllWritten(Append(out, t), Append(out, t)[k].of)
    <3>1. k \in DOMAIN out /\ out[k].kind = "open" /\ Append(out, t)[k] = out[k]
      BY <1>1, <1>t, <2>2
    <3>2. out[k].of \in Pointers /\ (InLoop(frs, out[k].of) \/ AllWritten(out, out[k].of))
      BY <1>0, <3>1, Zenon DEF Covered
    <3>3. InLoop(frs, out[k].of) => out[k].of = p
      BY <1>p, Zenon DEF InLoop
    <3> QED
      BY <2>1, <3>1, <3>2, <3>3
  <2>3. ASSUME NEW k \in DOMAIN Append(out, t), Append(out, t)[k].kind = "newline"
        PROVE  Append(out, t)[k].of \in Pointers /\ AllWritten(Append(out, t), Append(out, t)[k].of)
    <3>1. k \in DOMAIN out => Append(out, t)[k] = out[k]
      BY <1>1
    <3>2. k \notin DOMAIN out
      BY <1>0, <1>p, <2>3, <3>1, Zenon DEF Covered
    <3>3. Append(out, t)[k] = t
      BY <1>1, <3>2
    <3> QED
      BY <1>p, <1>t, <2>1, <3>3
  <2> QED
    BY <1>e, <2>2, <2>3, Zenon DEF Covered
<1> QED
  BY <1>1, <1>e, <1>3, <1>4, <1>5, <1>6, Zenon DEF OutputInv, t

LEMMA ArgumentsArePointers ==
    ASSUME NEW p \in ArgumentLists
    PROVE  p \in Pointers
<1>1. PICK a \in Addresses : p = [tag |-> "list", at |-> a, exact |-> FALSE]
  BY DEF ArgumentLists
<1> QED
  BY <1>1 DEF Pointers, StructureTags

\* A member of a structure that is being printed is not the arguments.
LEMMA MemberIsNotArguments ==
    ASSUME NEW p \in Pointers, NEW i \in DOMAIN Members(p), Members(p)[i] \in Pointers,
           NEW q \in ArgumentLists
    PROVE  Members(p)[i] # q
<1>1. PICK b \in Addresses :
        /\ q = [tag |-> "list", at |-> b, exact |-> FALSE]
        /\ \A c \in Addresses : \A k \in DOMAIN heap[c].members :
            heap[c].members[k] \in Pointers => heap[c].members[k].at # b
  BY DEF ArgumentLists
<1>2. p.at \in Addresses
  BY DEF Pointers
<1> QED
  BY <1>1, <1>2 DEF Members

LEMMA NothingWritten ==
    ASSUME NEW frs,
           \/ frs = <<>>
           \/ \E args \in ArgumentLists : frs = <<[p |-> args, next |-> 1]>>,
           heap \in [Addresses -> Structures]
    PROVE  OutputInv(<<>>, frs)
<1>0. DOMAIN <<>> = {} /\ <<>> \in Seq(TokenType) /\ Len(<<>>) = 0
  OBVIOUS
<1> DEFINE AtMostArguments ==
        /\ frs \in Seq(LoopType)
        /\ \A j \in DOMAIN frs : j = 1
        /\ frs # <<>> => frs[1].p \in ArgumentLists /\ frs[1].next = 1
<1>1. AtMostArguments
  <2>1. CASE frs = <<>>
    BY <2>1
  <2>2. ASSUME NEW args \in ArgumentLists, frs = <<[p |-> args, next |-> 1]>>
        PROVE  AtMostArguments
    <3>1. [p |-> args, next |-> 1] \in LoopType
      BY ArgumentsArePointers DEF LoopType
    <3> QED
      BY <2>2, <3>1
  <2> QED
    BY <2>1, <2>2
<1>2. \A q : ~InBrackets(frs, q)
  BY <1>1 DEF InBrackets
<1>3. Balanced(<<>>, frs)
  <2>1. \A kind, k, q : Brackets(<<>>, kind, k, q) = {}
    BY <1>0, Zenon DEF Brackets
  <2>2. \A k, q : Balance(<<>>, k, q) = 0
    <3>1. Cardinality({}) - Cardinality({}) = 0
      BY FS_EmptySet
    <3> QED
      BY <2>1, <3>1, Zenon DEF Balance
  <2> QED
    BY <1>2, <2>2, Zenon DEF Balanced
<1>4. Placed(<<>>)
  BY <1>0, Zenon DEF Placed
<1>5. Nested(frs)
  BY <1>1, Zenon DEF Nested
<1>6. Covered(<<>>, frs)
  <2>1. ASSUME NEW j \in DOMAIN frs, NEW i \in DOMAIN Members(frs[j].p), i < frs[j].next
        PROVE  FALSE
    <3>1. j = 1 /\ frs[1].p \in Pointers /\ frs[1].next = 1
      BY <1>0, <1>1, <2>1, ArgumentsArePointers, Zenon
    <3>2. Members(frs[1].p) \in Seq(TaggedPtrs)
      BY <3>1 DEF Members, Pointers, Structures
    <3>3. i \in 1..Len(Members(frs[1].p))
      BY <2>1, <3>1, <3>2
    <3> QED
      BY <2>1, <3>1, <3>3
  <2>2. \A j \in DOMAIN frs : ~(j > 1)
    BY <1>1
  <2> QED
    BY <1>0, <2>1, <2>2, Zenon DEF Covered
<1> QED
  BY <1>0, <1>1, <1>3, <1>4, <1>5, <1>6, Zenon DEF OutputInv

\* What comes before a member: a comma, the key of a field, or neither.
LEMMA BeforeMember ==
    ASSUME PrintInv, frames # <<>>
    PROVE  OutputInv(output \o Comma \o Key, frames)
<1>0. output \in Seq(TokenType) /\ frames \in Seq(LoopType) /\ OutputInv(output, frames)
  BY DEF PrintInv, OutputInv
<1>1. Inner \in LoopType /\ Inner.p \in TaggedPtrs
  <2>1. Len(frames) \in 1..Len(frames)
    BY <1>0
  <2>2. frames[Len(frames)] \in LoopType
    BY <1>0, <2>1
  <2> QED
    BY <2>2 DEF Inner, LoopType, TaggedPtrs
<1>2. \A kind \in {"comma", "key"} : Token(kind, Inner.p) \in TokenType /\ Token(kind, Inner.p).kind = kind
  BY <1>1 DEF TokenType, Token
<1>3. \A out \in Seq(TokenType), t \in TokenType : out \o <<>> = out /\ out \o <<t>> = Append(out, t)
  OBVIOUS
<1>4. OutputInv(output \o Comma, frames)
  <2>1. CASE Comma = <<>>
    BY <1>0, <1>3, <2>1
  <2>2. CASE Comma = <<Token("comma", Inner.p)>>
    <3>1. OutputInv(Append(output, Token("comma", Inner.p)), frames)
      BY <1>0, <1>2, TokenWritten
    <3> QED
      BY <1>0, <1>2, <1>3, <2>2, <3>1, Zenon
  <2> QED
    BY <2>1, <2>2 DEF Comma
<1>5. output \o Comma \in Seq(TokenType)
  BY <1>4 DEF OutputInv
<1> DEFINE o == output \o Comma
<1> HIDE DEF o
<1>6. OutputInv(o \o Key, frames)
  <2>0. o \in Seq(TokenType) /\ OutputInv(o, frames)
    BY <1>4, <1>5 DEF o
  <2>1. CASE Key = <<>>
    BY <2>0, <1>3, <2>1
  <2>2. CASE Key = <<Token("key", Inner.p)>>
    <3>1. OutputInv(Append(o, Token("key", Inner.p)), frames)
      BY <2>0, <1>2, TokenWritten
    <3> QED
      BY <2>0, <1>2, <1>3, <2>2, <3>1, Zenon
  <2> QED
    BY <2>1, <2>2, Zenon DEF Key
<1> QED
  BY <1>6 DEF o

\* The innermost loop goes on to its next member, which has been written.
LEMMA MemberPassed ==
    ASSUME NEW out, OutputInv(out, frames), frames # <<>>,
           heap \in [Addresses -> Structures],
           WrittenMember(out, Inner.p, Inner.next)
    PROVE  OutputInv(out, Advanced)
<1>0. frames \in Seq(LoopType) /\ Covered(out, frames)
  BY DEF OutputInv
<1> DEFINE n == Len(frames)
<1>1. n \in DOMAIN frames /\ frames[n] \in LoopType /\ Inner = frames[n]
  BY <1>0 DEF Inner
<1>2. Inner.p \in Pointers /\ Inner.next \in Nat \ {0}
  BY <1>1 DEF LoopType
<1>3. [p |-> Inner.p, next |-> Inner.next + 1] \in LoopType
  BY <1>2 DEF LoopType
<1>4. /\ Advanced \in Seq(LoopType) /\ DOMAIN Advanced = DOMAIN frames
      /\ \A j \in DOMAIN frames : j # n => Advanced[j] = frames[j]
      /\ Advanced[n].p = Inner.p /\ Advanced[n].next = Inner.next + 1
  BY <1>0, <1>1, <1>3 DEF Advanced
<1>5. SameLoops(frames, Advanced)
  BY <1>1, <1>4 DEF SameLoops
<1>6. ASSUME NEW j \in DOMAIN Advanced, NEW i \in DOMAIN Members(Advanced[j].p), i < Advanced[j].next
      PROVE  WrittenMember(out, Advanced[j].p, i)
  <2>1. CASE j # n
    BY <1>0, <1>4, <1>6, <2>1, Zenon DEF Covered
  <2>2. CASE j = n
    <3>1. Members(Inner.p) \in Seq(TaggedPtrs)
      BY <1>2 DEF Members, Pointers, Structures
    <3>2. i \in DOMAIN Members(Inner.p) /\ i < Inner.next + 1
      BY <1>4, <1>6, <2>2, Zenon
    <3>3. i \in Nat
      BY <3>1, <3>2
    <3>4. i < Inner.next \/ i = Inner.next
      BY <1>2, <3>2, <3>3
    <3>5. i < Inner.next => WrittenMember(out, Inner.p, i)
      BY <1>0, <1>1, <3>2, Zenon DEF Covered
    <3> QED
      BY <1>4, <2>2, <3>4, <3>5, Zenon
  <2> QED
    BY <2>1, <2>2
<1> QED
  BY <1>4, <1>5, <1>6, LoopsPassed

LEMMA PrintMemberStep ==
    ASSUME PrintInv, PrintMember
    PROVE  OutputInv(output', frames')
<1> DEFINE before == output \o Comma \o Key
           m == Members(Inner.p)[Inner.next]
<1>0. /\ frames # <<>> /\ Inner.next <= Len(Members(Inner.p)) /\ printTaggedInner(m)
      /\ heap \in [Addresses -> Structures] /\ frames \in Seq(LoopType) /\ Nested(frames)
  BY DEF PrintMember, PrintInv, OutputInv
<1>1. OutputInv(before, frames)
  BY <1>0, BeforeMember
<1> HIDE DEF before
<1>2. Len(frames) \in DOMAIN frames /\ Inner \in LoopType
  BY <1>0 DEF Inner
<1>3. Inner.p \in Pointers /\ Inner.next \in Nat \ {0}
  BY <1>2 DEF LoopType
<1>4. Members(Inner.p) \in Seq(TaggedPtrs)
  BY <1>0, <1>3 DEF Members, Pointers, Structures
<1>5. Inner.next \in DOMAIN Members(Inner.p) /\ m \in TaggedPtrs
  BY <1>0, <1>3, <1>4
<1> HIDE DEF m
<1>6. \A kind \in {"scalar", "dots", "open"} :
        /\ Token(kind, m) \in TokenType /\ Token(kind, m).kind = kind /\ Token(kind, m).of = m
  BY <1>5 DEF TokenType, Token
<1>7. \A out : (m \in Pointers => Opened(out, m)) => WrittenMember(out, Inner.p, Inner.next)
  BY Zenon DEF WrittenMember, m
<1>8. before \in Seq(TokenType) /\ Covered(before, frames)
  BY <1>1 DEF OutputInv
<1>9. CASE m \notin Pointers
  <2>1. output' = Append(before, Token("scalar", m)) /\ frames' = Advanced
    BY <1>0, <1>9, Zenon DEF printTaggedInner, IsStructure, before
  <2>2. OutputInv(Append(before, Token("scalar", m)), frames)
    BY <1>0, <1>1, <1>6, TokenWritten
  <2>3. OutputInv(Append(before, Token("scalar", m)), Advanced)
    BY <1>0, <1>7, <1>9, <2>2, MemberPassed
  <2> QED
    BY <2>1, <2>3
<1>10. CASE m \in Pointers /\ stackContains(m)
  <2>1. output' = Append(before, Token("dots", m)) /\ frames' = Advanced
    BY <1>0, <1>10, Zenon DEF printTaggedInner, IsStructure, before
  <2>2. PICK k \in DOMAIN frames : frames[k].p = m
    BY <1>10, Zenon DEF stackContains
  <2>3. frames[1].p # m
    BY <1>0, <1>3, <1>5, <1>10, MemberIsNotArguments DEF Nested, m
  <2>4. k > 1
    BY <1>0, <2>2, <2>3
  <2>5. InBrackets(frames, m) /\ Opened(before, m)
    BY <1>8, <2>2, <2>4, Zenon DEF InBrackets, Covered
  <2>6. OutputInv(Append(before, Token("dots", m)), frames)
    BY <1>0, <1>1, <1>6, <1>10, <2>5, TokenWritten
  <2>7. Opened(Append(before, Token("dots", m)), m)
    BY <1>6, <1>8, <2>5, WrittenMore
  <2>8. OutputInv(Append(before, Token("dots", m)), Advanced)
    BY <1>0, <1>7, <2>6, <2>7, MemberPassed
  <2> QED
    BY <2>1, <2>8
<1>11. CASE m \in Pointers /\ ~stackContains(m)
  <2> DEFINE f == [p |-> m, next |-> 1]
             out == Append(before, Token("open", m))
  <2>1. output' = out /\ frames' = Append(Advanced, f)
    BY <1>0, <1>11, Zenon DEF printTaggedInner, IsStructure, before
  <2>2. OutputInv(out, Append(frames, f))
    <3>1. ~InLoop(frames, m)
      BY <1>11, Zenon DEF stackContains, InLoop
    <3> QED
      BY <1>0, <1>1, <1>11, <3>1, BracketOpened
  <2>3. Opened(out, m)
    BY <1>6, <1>8, WrittenMore
  <2>4. f \in LoopType
    BY <1>11 DEF LoopType
  <2>5. [p |-> Inner.p, next |-> Inner.next + 1] \in LoopType
    BY <1>3 DEF LoopType
  <2> HIDE DEF out, f
  <2>6. /\ Advanced \in Seq(LoopType) /\ Len(Advanced) = Len(frames) /\ DOMAIN Advanced = DOMAIN frames
        /\ \A j \in DOMAIN frames : j # Len(frames) => Advanced[j] = frames[j]
        /\ Advanced[Len(frames)].p = Inner.p /\ Advanced[Len(frames)].next = Inner.next + 1
    BY <1>0, <1>2, <2>5 DEF Advanced
  <2> DEFINE n == Len(frames)
             frs == Append(frames, f)
             ds == Append(Advanced, f)
  <2>7. n \in DOMAIN frames /\ Inner = frames[n] /\ DOMAIN frames = 1..n /\ n \in Nat
    BY <1>0, <1>2 DEF Inner
  <2>8. /\ DOMAIN frs = 1..(n + 1) /\ frs[n + 1] = f
        /\ \A j \in 1..n : frs[j] = frames[j]
    BY <1>0, <2>4
  <2>9. /\ DOMAIN ds = 1..(n + 1) /\ ds[n + 1] = f /\ ds \in Seq(LoopType)
        /\ \A j \in 1..n : ds[j] = Advanced[j]
    BY <2>4, <2>6
  <2> HIDE DEF n, frs, ds
  <2>10. /\ ds[n].p = Inner.p /\ ds[n].next = Inner.next + 1 /\ frs[n] = Inner
         /\ \A j \in DOMAIN ds : j # n => ds[j] = frs[j]
    BY <2>6, <2>7, <2>8, <2>9 DEF n
  <2>11. SameLoops(frs, ds)
    BY <2>8, <2>9, <2>10 DEF SameLoops
  <2>12. ASSUME NEW j \in DOMAIN ds, NEW i \in DOMAIN Members(ds[j].p), i < ds[j].next
         PROVE  WrittenMember(out, ds[j].p, i)
    <3>0. Covered(out, frs) /\ DOMAIN frs = DOMAIN ds /\ n \in DOMAIN frs
      BY <2>2, <2>7, <2>8, <2>9 DEF OutputInv, frs
    <3>1. CASE j # n
      BY <2>10, <2>12, <3>0, <3>1, Zenon DEF Covered
    <3>2. CASE j = n
      <4>1. i \in DOMAIN Members(Inner.p) /\ i < Inner.next + 1
        BY <2>10, <2>12, <3>2, Zenon
      <4>2. i \in Nat
        BY <1>4, <4>1
      <4>3. i < Inner.next \/ i = Inner.next
        BY <1>3, <4>1, <4>2
      <4>4. i < Inner.next => WrittenMember(out, Inner.p, i)
        BY <2>10, <3>0, <4>1, Zenon DEF Covered
      <4>5. WrittenMember(out, Inner.p, Inner.next)
        BY <1>7, <2>3
      <4> QED
        BY <2>10, <3>2, <4>3, <4>4, <4>5, Zenon
    <3> QED
      BY <3>1, <3>2
  <2>13. OutputInv(out, ds)
    BY <2>2, <2>9, <2>11, <2>12, LoopsPassed, Zenon DEF frs
  <2> QED
    BY <2>1, <2>13 DEF ds
<1> QED
  BY <1>9, <1>10, <1>11

LEMMA EndMembersStep ==
    ASSUME PrintInv, EndMembers
    PROVE  OutputInv(output', frames') /\ (printing' <=> frames' # <<>>)
<1>0. /\ frames # <<>> /\ Inner.next > Len(Members(Inner.p))
      /\ heap \in [Addresses -> Structures] /\ frames \in Seq(LoopType)
      /\ OutputInv(output, frames) /\ Covered(output, frames)
  BY DEF EndMembers, PrintInv, OutputInv
<1>1. Len(frames) \in Nat /\ Len(frames) >= 1 /\ Len(frames) \in DOMAIN frames /\ Inner = frames[Len(frames)]
  BY <1>0 DEF Inner
<1>2. Inner.p \in Pointers /\ Inner.next \in Nat
  <2>1. Inner \in LoopType
    BY <1>0, <1>1
  <2> QED
    BY <2>1 DEF LoopType
<1>3. Members(Inner.p) \in Seq(TaggedPtrs)
  BY <1>0, <1>2 DEF Members, Pointers, Structures
<1>4. AllWritten(output, Inner.p)
  <2>1. \A i \in DOMAIN Members(Inner.p) : i < Inner.next
    BY <1>0, <1>2, <1>3
  <2> QED
    BY <1>0, <1>1, <2>1, Zenon DEF Covered, AllWritten
<1>5. CASE Len(frames) = 1
  <2>1. output' = Append(output, Token("newline", frames[1].p))
    BY <1>1, <1>5, Zenon DEF EndMembers
  <2>p. ~printing'
    <3>1. ~(Len(frames) > 1)
      BY <1>5
    <3> QED
      BY <3>1, Zenon DEF EndMembers
  <2>2. frames' = <<>>
    BY <1>0, <1>5 DEF EndMembers
  <2>3. OutputInv(Append(output, Token("newline", frames[1].p)), <<>>)
    BY <1>0, <1>1, <1>4, <1>5, LineEnded
  <2> QED
    BY <2>1, <2>p, <2>2, <2>3, Zenon
<1>6. CASE Len(frames) > 1
  <2>0. Len(frames) # 1
    BY <1>1, <1>6
  <2>1. /\ output' = Append(output, Token("close", frames[Len(frames)].p))
        /\ frames' = SubSeq(frames, 1, Len(frames) - 1)
    BY <1>1, <2>0, Zenon DEF EndMembers
  <2>p. printing'
    BY <1>6, Zenon DEF EndMembers
  <2>2. Len(frames') >= 1 /\ Len(<<>>) = 0
    BY <1>0, <1>1, <1>6, <2>1
  <2>3. OutputInv(Append(output, Token("close", frames[Len(frames)].p)), SubSeq(frames, 1, Len(frames) - 1))
    BY <1>0, <1>1, <1>4, <1>6, BracketClosed
  <2>4. frames' # <<>>
    BY <2>2
  <2> QED
    BY <2>1, <2>p, <2>3, <2>4, Zenon
<1>7. Len(frames) = 1 \/ Len(frames) > 1
  <2>1. \A n \in Nat : n >= 1 => n = 1 \/ n > 1
    OBVIOUS
  <2> QED
    BY <1>1, <2>1, Zenon
<1> QED
  BY <1>5, <1>6, <1>7, Zenon

\* The invariant speaks of the heap, which a call does not change.
LEMMA SameHeap ==
    ASSUME heap' = heap, OutputInv(output', frames')
    PROVE  OutputInv(output, frames)'
<1>0. /\ output' \in Seq(TokenType) /\ frames' \in Seq(LoopType)
      /\ Balanced(output', frames') /\ Placed(output') /\ Nested(frames') /\ Covered(output', frames')
  BY DEF OutputInv
<1>1. Nested(frames)'
  BY <1>0, Zenon DEF Nested, ArgumentLists
<1>2. Covered(output, frames)'
  <2>1. (\A j \in DOMAIN frames : j > 1 => Opened(output, frames[j].p))'
    BY <1>0, Zenon DEF Covered, Opened
  <2>2. (\A j \in DOMAIN frames : \A i \in DOMAIN Members(frames[j].p) :
            i < frames[j].next => WrittenMember(output, frames[j].p, i))'
    BY <1>0, Zenon DEF Covered, WrittenMember, Members, Opened
  <2> DEFINE Whole(p) == \A i \in DOMAIN heap'[p.at].members :
                heap'[p.at].members[i] \in Pointers =>
                    \E j \in DOMAIN output' : output'[j].kind = "open" /\ output'[j].of = heap'[p.at].members[i]
  <2>w. \A p : AllWritten(output', p) => Whole(p)
    BY Zenon DEF AllWritten, WrittenMember, Members, Opened
  <2>3. (\A k \in DOMAIN output : output[k].kind = "open" =>
            output[k].of \in Pointers /\ (InLoop(frames, output[k].of) \/ AllWritten(output, output[k].of)))'
    <3>1. \A k \in DOMAIN output' : output'[k].kind = "open" =>
            output'[k].of \in Pointers /\ (InLoop(frames', output'[k].of) \/ Whole(output'[k].of))
      BY <1>0, <2>w, Zenon DEF Covered
    <3> QED
      BY <3>1, Zenon DEF WrittenMember, AllWritten, Members, Opened, InLoop
  <2>4. (\A k \in DOMAIN output : output[k].kind = "newline" =>
            frames = <<>> /\ output[k].of \in Pointers /\ AllWritten(output, output[k].of))'
    <3>1. \A k \in DOMAIN output' : output'[k].kind = "newline" =>
            frames' = <<>> /\ output'[k].of \in Pointers /\ Whole(output'[k].of)
      BY <1>0, <2>w, Zenon DEF Covered
    <3> QED
      BY <3>1, Zenon DEF WrittenMember, AllWritten, Members, Opened
  <2> QED
    BY <2>1, <2>2, <2>3, <2>4, Zenon DEF Covered
<1>3. Balanced(output, frames)' /\ Placed(output)'
  BY <1>0, Zenon DEF Balanced, Placed, Balance, Brackets, InBrackets
<1>4. (output \in Seq(TokenType) /\ frames \in Seq(LoopType))'
  BY <1>0, Zenon DEF TokenType, LoopType, TaggedPtrs, Pointers
<1> QED
  BY <1>1, <1>2, <1>3, <1>4, Zenon DEF OutputInv

LEMMA PrintInvariant == PrintSpec => []PrintInv
<1>1. PrintInit => PrintInv
  BY NothingWritten DEF PrintInit, PrintInv
<1>2. PrintInv /\ [PrintNext]_printVars => PrintInv'
  <2> SUFFICES ASSUME PrintInv, [PrintNext]_printVars
               PROVE  PrintInv'
    OBVIOUS
  <2>0. heap \in [Addresses -> Structures] /\ OutputInv(output, frames) /\ (printing <=> frames # <<>>)
    BY DEF PrintInv
  <2> DEFINE Kept == heap' = heap /\ (printing' <=> frames' # <<>>) /\ OutputInv(output', frames')
  <2>1. ASSUME NEW args \in ArgumentLists, println(args)
        PROVE  Kept
    BY <2>0, <2>1, NothingWritten DEF println
  <2>2. ASSUME PrintMember PROVE Kept
    <3>1. OutputInv(output', frames')
      BY <2>2, PrintMemberStep
    <3>2. frames' = Advanced \/ \E f : frames' = Append(Advanced, f)
      BY <2>2, Zenon DEF PrintMember, printTaggedInner
    <3>3. frames # <<>> /\ frames \in Seq(LoopType)
      BY <2>2 DEF PrintMember, PrintInv, OutputInv
    <3>4. Len(Advanced) = Len(frames) /\ Len(frames) > 0
      BY <3>3 DEF Advanced
    <3>5. frames' # <<>>
      BY <3>2, <3>4
    <3> QED
      BY <2>0, <2>2, <3>1, <3>3, <3>5, Zenon DEF PrintMember
  <2>3. ASSUME EndMembers PROVE Kept
    BY <2>3, EndMembersStep, Zenon DEF EndMembers
  <2>4. ASSUME Forget PROVE Kept
    <3>1. frames = <<>>
      BY <2>0, <2>4, Zenon DEF Forget, Printed
    <3>2. OutputInv(<<>>, frames)
      BY <2>0, <3>1, NothingWritten
    <3> QED
      BY <2>0, <2>4, <3>2, Zenon DEF Forget
  <2>5. ASSUME UNCHANGED printVars PROVE Kept
    BY <2>0, <2>5, Zenon DEF printVars
  <2>6. Kept
    BY <2>1, <2>2, <2>3, <2>4, <2>5, Zenon DEF PrintNext, PrintWork
  <2> QED
    BY <2>0, <2>6, SameHeap DEF PrintInv
<1> QED
  BY <1>1, <1>2, PTL DEF PrintSpec

\* println writes out everything that can be reached from its arguments,
\* and puts dots for a structure only inside that structure's own brackets,
\* for every heap and however its structures refer to each other: the loops
\* that run are exactly the brackets that are open (stackContains,
\* print.c:176).
THEOREM PrintsTheWhole == PrintSpec => []PrintedWhole
<1>1. PrintInv => PrintedWhole
  <2> SUFFICES ASSUME PrintInv, Printed
               PROVE  LET written == {output[i].of.at : i \in Tokens("open") \cup Tokens("newline")}
                      IN /\ \A a \in written : \A i \in DOMAIN heap[a].members :
                              heap[a].members[i] \in Pointers => heap[a].members[i].at \in written
                         /\ \A k \in Tokens("dots") : OpenAt(k, output[k].of) = 1
                         /\ \A k \in Tokens("open") : OpenAt(k, output[k].of) = 0
                         /\ \A k \in Tokens("open") : OpenAt(Len(output) + 1, output[k].of) = 0
    BY Zenon DEF PrintedWhole
  <2> DEFINE written == {output[i].of.at : i \in Tokens("open") \cup Tokens("newline")}
  <2>0. /\ frames = <<>> /\ DOMAIN <<>> = {}
        /\ Balanced(output, frames) /\ Placed(output) /\ Covered(output, frames)
    <3>1. frames = <<>>
      BY Zenon DEF PrintInv, Printed
    <3> QED
      BY <3>1 DEF PrintInv, OutputInv
  <2>1. \A k, p : OpenAt(k, p) = Balance(output, k, p)
    <3>1. \A kind, k, p : {i \in Tokens(kind) : i < k /\ output[i].of = p} = Brackets(output, kind, k, p)
      BY Zenon DEF Tokens, Brackets
    <3> QED
      BY <3>1, Zenon DEF OpenAt, Balance
  <2>2. \A p : ~InLoop(frames, p) /\ ~InBrackets(frames, p)
    BY <2>0, Zenon DEF InLoop, InBrackets
  <2>3. ASSUME NEW k \in Tokens("open") \cup Tokens("newline"), NEW i \in DOMAIN Members(output[k].of),
               Members(output[k].of)[i] \in Pointers
        PROVE  Members(output[k].of)[i].at \in written
    <3>1. AllWritten(output, output[k].of)
      BY <2>0, <2>2, Zenon DEF Covered, Tokens
    <3>2. PICK j \in Tokens("open") : output[j].of = Members(output[k].of)[i]
      BY <2>3, <3>1, Zenon DEF AllWritten, WrittenMember, Opened, Tokens
    <3> QED
      BY <3>2, Zenon
  <2>4. \A a \in written : \A i \in DOMAIN heap[a].members :
            heap[a].members[i] \in Pointers => heap[a].members[i].at \in written
    BY <2>3, Zenon DEF Members
  <2>5. \A k \in Tokens("dots") : OpenAt(k, output[k].of) = 1
    BY <2>0, <2>1, Zenon DEF Placed, Tokens
  <2>6. \A k \in Tokens("open") : OpenAt(k, output[k].of) = 0
    BY <2>0, <2>1, Zenon DEF Placed, Tokens
  <2>7. \A k \in Tokens("open") : OpenAt(Len(output) + 1, output[k].of) = 0
    BY <2>0, <2>1, <2>2, Zenon DEF Covered, Balanced, Tokens
  <2> QED
    BY <2>4, <2>5, <2>6, <2>7, Zenon
<1> QED
  BY <1>1, PrintInvariant, PTL
=============================================================================

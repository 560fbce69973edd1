-------------------------- MODULE ExactnessProofs ---------------------------
(***************************************************************************)
(* The invariants of the exact bit hold for every universe of types.  The  *)
(* argument is the one sketched in docs/exact.md, for each instruction.    *)
(***************************************************************************)
EXTENDS Exactness, TLAPS

-----------------------------------------------------------------------------
(* Types.                                                                   *)

\* An inherent type has one kind, and is not empty.
LEMMA InherentKind ==
    ASSUME NEW A \in Inherent
    PROVE  A # {} /\ A \subseteq PotentiallyExact /\ \E u \in Kinds : A \subseteq ShapesOf[u]
BY TypesAssumption DEF PotentiallyExact

\* Member types grow with the type and with the set of keys.
LEMMA ProjectGrows ==
    ASSUME NEW S, NEW T, NEW K, NEW k \in K, S \subseteq T
    PROVE  Project(S, {k}) \subseteq Project(T, K)
BY DEF Project

\* A member type (listMemberType, mappingMemberType) is a type.
LEMMA ProjectType ==
    ASSUME NEW T, NEW K \in SUBSET Keys
    PROVE  Project(T, K) \in SUBSET Shapes
BY ShapesAssumption DEF Project

\* buildWideRepr: where it keeps the bit, the wider type is still the inherent one.
LEMMA NotWidened ==
    ASSUME NEW S, NEW T, NEW A \in Inherent,
           S \subseteq T, A \subseteq S, SameWithin(S, A), ~ operationWidens(S, T)
    PROVE  SameWithin(T, A)
<1> SUFFICES ASSUME NEW u \in Kinds, A \subseteq ShapesOf[u]
             PROVE  T \cap ShapesOf[u] = A
  BY DEF SameWithin
<1>1. S \cap ShapesOf[u] = A
  BY DEF SameWithin
<1>2. A # {}
  BY InherentKind
<1>3. ShapesOf[u] \subseteq PotentiallyExact
  BY DEF PotentiallyExact
<1>4. u \in KindsIn(S \cap PotentiallyExact)
  BY <1>1, <1>2, <1>3 DEF KindsIn
<1>5. ShapesOf[u] \subseteq OfKinds(KindsIn(S \cap PotentiallyExact))
  BY <1>4 DEF OfKinds
<1>6. T \cap OfKinds(KindsIn(S \cap PotentiallyExact)) \subseteq S \cap PotentiallyExact
  BY <1>1, <1>2, <1>3, <1>5 DEF operationWidens
<1> QED
  BY <1>1, <1>5, <1>6

\* Narrowing the type of a value keeps it equal to the inherent type.
LEMMA NarrowerStillSame ==
    ASSUME NEW S, NEW T, NEW A, T \subseteq S, A \subseteq T, SameWithin(S, A)
    PROVE  SameWithin(T, A)
BY DEF SameWithin

\* An inherent type that a structure type is equal to within its kind.
LEMMA SameStructure ==
    ASSUME NEW S, NEW A \in Inherent, IsStructure(S), A \subseteq S, SameWithin(S, A)
    PROVE  S = A
<1>1. PICK u \in Structures : S \subseteq ShapesOf[u]
  BY DEF IsStructure
<1>2. u \in Kinds /\ A \subseteq ShapesOf[u]
  BY <1>1, ShapesAssumption
<1> QED
  BY <1>1, <1>2 DEF SameWithin

\* An exact member, read with an exact key type.
LEMMA ExactKey ==
    ASSUME NEW S, NEW K, NEW k \in K, NEW A \in Inherent,
           isMemberTypeExact(S, K), A \subseteq Project(S, {k}),
           SameWithin(Project(S, {k}), A)
    PROVE  SameWithin(Project(S, K), A)
<1> SUFFICES ASSUME NEW u \in Kinds, A \subseteq ShapesOf[u]
             PROVE  Project(S, K) \cap ShapesOf[u] = A
  BY DEF SameWithin
<1>1. Project(S, {k}) \cap ShapesOf[u] = A
  BY DEF SameWithin
<1>2. A # {} /\ ShapesOf[u] \subseteq PotentiallyExact
  BY InherentKind DEF PotentiallyExact
<1>3. Project(S, {k}) \cap PotentiallyExact = Project(S, K) \cap PotentiallyExact
  BY <1>1, <1>2 DEF isMemberTypeExact
<1> QED
  BY <1>1, <1>2, <1>3

-----------------------------------------------------------------------------
(* Values.                                                                  *)

\* Clearing the exact bit (_bal_tagged_clear_exact_any) changes nothing else.
LEMMA ClearedValue ==
    ASSUME NEW v \in Tagged
    PROVE  /\ Cleared(v) \in Tagged
           /\ Cleared(v).obj = v.obj
           /\ Cleared(v).exact = FALSE
           /\ Cleared(v) = [obj |-> v.obj, exact |-> FALSE]
BY DEF Cleared, Tagged

\* A value whose exact bit has been cleared may go where a wider type is required.
LEMMA ClearedGood ==
    ASSUME NEW inh, NEW v, NEW S, NEW T, Good(inh, v, S), S \subseteq T
    PROVE  Good(inh, Cleared(v), T)
<1>1. v \in Tagged
  BY DEF Good
<1>2. CASE v.obj = NoObj
  <2>1. Cleared(v) = Other
    BY <1>1, <1>2, ClearedValue DEF Other
  <2>2. T \cap OtherShapes # {}
    BY <1>2 DEF Good
  <2> QED
    BY <1>1, <1>2, <2>1, <2>2, ClearedValue DEF Good
<1>3. CASE v.obj # NoObj
  <2>1. inh[v.obj] \in Inherent /\ inh[v.obj] \subseteq T
    BY <1>3 DEF Good
  <2> QED
    BY <1>1, <1>3, <2>1, ClearedValue DEF Good
<1> QED
  BY <1>2, <1>3

\* buildWideRepr: its result may go where the wider type is required.
LEMMA WideGood ==
    ASSUME NEW inh, NEW v, NEW S, NEW T, Good(inh, v, S), S \subseteq T
    PROVE  Good(inh, Wide(v, S, T), T)
<1>1. CASE operationWidens(S, T)
  BY <1>1, ClearedGood DEF Wide
<1>2. CASE ~ operationWidens(S, T)
  <2>1. Wide(v, S, T) = v
    BY <1>2 DEF Wide
  <2>2. v.obj # NoObj /\ v.exact => SameWithin(T, inh[v.obj])
    BY <1>2, NotWidened DEF Good
  <2> QED
    BY <2>1, <2>2 DEF Good
<1> QED
  BY <1>1, <1>2

\* A value that passes a type test may go where the narrower type is required.
LEMMA NarrowGood ==
    ASSUME NEW inh, NEW v, NEW S, NEW T, Good(inh, v, S), T \subseteq S,
           v.obj = NoObj => T \cap OtherShapes # {},
           v.obj # NoObj => inh[v.obj] \subseteq T
    PROVE  Good(inh, v, T)
<1>1. v.obj # NoObj /\ v.exact => SameWithin(T, inh[v.obj])
  BY NarrowerStillSame DEF Good
<1> QED
  BY <1>1 DEF Good

\* A constructor returns a pointer that may be exact.
LEMMA NewGood ==
    ASSUME NEW inh, NEW o \in Objs, inh[o] \in Inherent
    PROVE  Good(inh, [obj |-> o, exact |-> TRUE], inh[o])
BY ShapesAssumption DEF Good, Tagged, SameWithin

\* What was good stays good when an object is allocated.
LEMMA AllocationKeepsGood ==
    ASSUME NEW inh \in [Objs -> Inherent \cup {{}}], NEW o \in Objs, inh[o] = {}, NEW A,
           NEW v, NEW T, Good(inh, v, T)
    PROVE  Good([inh EXCEPT ![o] = A], v, T)
<1>1. v.obj # NoObj => v.obj # o /\ v.obj \in Objs
  BY TypesAssumption DEF Good, Tagged
<1>2. v.obj # NoObj => [inh EXCEPT ![o] = A][v.obj] = inh[v.obj]
  BY <1>1
<1> QED
  BY <1>2 DEF Good

\* Storing a good value keeps the registers good.
LEMMA PutGood ==
    ASSUME NEW inh, NEW rg, GoodRegs(inh, rg), NEW r \in Regs,
           NEW T \in SUBSET Shapes, NEW v, Good(inh, v, T)
    PROVE  GoodRegs(inh, [rg EXCEPT ![r] = [type |-> T, val |-> v]])
<1> DEFINE rg2 == [rg EXCEPT ![r] = [type |-> T, val |-> v]]
<1>1. v \in Tagged
  BY DEF Good
<1>2. rg2 \in [Regs -> [type : SUBSET Shapes, val : Tagged]]
  BY <1>1 DEF GoodRegs
<1>3. ASSUME NEW q \in Regs
      PROVE  Good(inh, rg2[q].val, rg2[q].type)
  BY DEF GoodRegs
<1> QED
  BY <1>2, <1>3 DEF GoodRegs

\* The registers stay good when a constructor allocates an object.
LEMMA AllocationKeepsRegs ==
    ASSUME NEW inh \in [Objs -> Inherent \cup {{}}], NEW o \in Objs, inh[o] = {}, NEW A,
           NEW rg, GoodRegs(inh, rg)
    PROVE  GoodRegs([inh EXCEPT ![o] = A], rg)
BY AllocationKeepsGood DEF GoodRegs

\* A new structure whose members are good.
LEMMA AllocationGood ==
    ASSUME NEW inh, NEW mem, GoodHeap(inh, mem), NEW o \in Objs, inh[o] = {},
           NEW A \in Inherent, NEW new,
           IF IsStructure(A)
           THEN new \in [Keys -> Tagged] /\ \A k \in Keys : Good(inh, new[k], Project(A, {k}))
           ELSE new = mem[o]
    PROVE  GoodHeap([inh EXCEPT ![o] = A], [mem EXCEPT ![o] = new])
<1> DEFINE inh2 == [inh EXCEPT ![o] = A]
           mem2 == [mem EXCEPT ![o] = new]
<1>1. inh \in [Objs -> Inherent \cup {{}}] /\ mem \in [Objs -> [Keys -> Tagged]]
  BY DEF GoodHeap
<1>2. inh2 \in [Objs -> Inherent \cup {{}}] /\ mem2 \in [Objs -> [Keys -> Tagged]]
  BY <1>1
<1>3. ASSUME NEW q \in Objs, NEW k \in Keys
      PROVE  IF inh2[q] # {} /\ IsStructure(inh2[q])
             THEN Good(inh2, mem2[q][k], Project(inh2[q], {k}))
             ELSE mem2[q][k] = Other
  <2>1. CASE q = o
    <3>1. inh2[q] = A /\ mem2[q] = new /\ mem[o][k] = Other /\ A # {}
      BY <1>1, <2>1, InherentKind DEF GoodHeap
    <3>2. CASE IsStructure(A)
      BY <1>1, <3>1, <3>2, AllocationKeepsGood
    <3>3. CASE ~ IsStructure(A)
      BY <3>1, <3>3
    <3> QED
      BY <3>2, <3>3
  <2>2. CASE q # o
    <3>1. inh2[q] = inh[q] /\ mem2[q] = mem[q]
      BY <1>1, <2>2
    <3>2. IF inh[q] # {} /\ IsStructure(inh[q])
          THEN Good(inh, mem[q][k], Project(inh[q], {k}))
          ELSE mem[q][k] = Other
      BY DEF GoodHeap
    <3>3. CASE inh[q] # {} /\ IsStructure(inh[q])
      BY <1>1, <3>1, <3>2, <3>3, AllocationKeepsGood
    <3>4. CASE ~ (inh[q] # {} /\ IsStructure(inh[q]))
      BY <3>1, <3>2, <3>4
    <3> QED
      BY <3>3, <3>4
  <2> QED
    BY <2>1, <2>2
<1> QED
  BY <1>2, <1>3 DEF GoodHeap

-----------------------------------------------------------------------------
(* Steps.                                                                   *)

\* A program starts with no objects, and nil in every register.
LEMMA InitGood == Init => Inductive
<1> SUFFICES ASSUME Init
             PROVE  Inductive
  OBVIOUS
<1>1. GoodHeap(inherent, members)
  BY DEF Init, GoodHeap, Tagged, Other
<1>2. \A r \in Regs : regs[r] = [type |-> OtherShapes, val |-> Other]
  BY DEF Init
<1>3. Good(inherent, Other, OtherShapes) /\ OtherShapes \in SUBSET Shapes
  BY ShapesAssumption DEF Good, Tagged, Other, Shapes
<1>4. regs \in [Regs -> [type : SUBSET Shapes, val : Tagged]]
  BY <1>3 DEF Init, Good
<1>5. GoodRegs(inherent, regs)
  BY <1>2, <1>3, <1>4 DEF GoodRegs
<1> QED
  BY <1>1, <1>5 DEF Inductive

\* The end of the life of a register.
LEMMA ForgetStep ==
    ASSUME Inductive, NEW r \in Regs, Forget(r)
    PROVE  Inductive'
<1>1. Good(inherent, Other, OtherShapes) /\ OtherShapes \in SUBSET Shapes
  BY ShapesAssumption DEF Good, Tagged, Other, Shapes
<1>2. GoodRegs(inherent, regs')
  BY <1>1, PutGood DEF Forget, Put, Inductive
<1> QED
  BY <1>2 DEF Inductive, Forget

\* A step that changes a register only.
LEMMA PutStep ==
    ASSUME Inductive, NEW r \in Regs, NEW T \in SUBSET Shapes, NEW v, Good(inherent, v, T),
           Put(r, T, v), UNCHANGED <<inherent, members>>
    PROVE  Inductive'
<1>1. GoodRegs(inherent, regs')
  BY PutGood DEF Put, Inductive
<1> QED
  BY <1>1 DEF Inductive

\* What the invariant says of one register.
LEMMA RegGood ==
    ASSUME Inductive, NEW s \in Regs
    PROVE  Good(inherent, regs[s].val, regs[s].type) /\ regs[s].type \in SUBSET Shapes
BY DEF Inductive, GoodRegs

\* buildAssign, and the arguments of exact calls, keep the invariant.
LEMMA AssignStep ==
    ASSUME Inductive, NEW r \in Regs, NEW s \in Regs, NEW T \in StaticTypes, Assign(r, s, T)
    PROVE  Inductive'
<1>1. Good(inherent, Wide(regs[s].val, regs[s].type, T), T) /\ T \in SUBSET Shapes
  BY RegGood, WideGood, TypesAssumption DEF Assign, Fits
<1> QED
  BY <1>1, PutStep DEF Assign

\* buildUniformArgArray clears the bits of the arguments.
LEMMA UniformArgStep ==
    ASSUME Inductive, NEW r \in Regs, NEW s \in Regs, NEW T \in StaticTypes, UniformArg(r, s, T)
    PROVE  Inductive'
<1>1. Good(inherent, Cleared(regs[s].val), T) /\ T \in SUBSET Shapes
  BY RegGood, ClearedGood, TypesAssumption DEF UniformArg, Fits
<1> QED
  BY <1>1, PutStep DEF UniformArg

\* buildRet keeps the invariant if the return type of the call site is the callee's.
LEMMA ReturnStep ==
    ASSUME Inductive, ~ WideReturns, NEW r \in Regs, NEW s \in Regs,
           NEW T \in StaticTypes, NEW site \in StaticTypes, Return(r, s, T, site)
    PROVE  Inductive'
<1>1. site = T /\ regs[s].type \subseteq T
  BY DEF Return, Fits
<1>2. Good(inherent, Wide(regs[s].val, regs[s].type, T), T) /\ T \in SUBSET Shapes
  BY <1>1, RegGood, WideGood, TypesAssumption
<1> QED
  BY <1>1, <1>2, PutStep DEF Return

\* buildTypeCast, buildNarrowReg and buildTypeMerge set the bit only if it is due.
LEMMA NarrowStep ==
    ASSUME Inductive, NEW r \in Regs, NEW s \in Regs, NEW T \in StaticTypes, Narrow(r, s, T)
    PROVE  Inductive'
<1> DEFINE S == regs[s].type
           v == regs[s].val
           w == IF TestedByTag(S, T) THEN v ELSE Exactified(v, S \cap T)
<1>1. Good(inherent, v, S) /\ S \cap T \in SUBSET Shapes
  BY RegGood
<1>2. Good(inherent, v, S \cap T)
  <2>1. Belongs(v, S \cap T)
    BY DEF Narrow
  <2> HIDE DEF S, v
  <2> QED
    BY <1>1, <2>1, NarrowGood DEF Belongs
<1>3. Good(inherent, Exactified(v, S \cap T), S \cap T)
  <2> HIDE DEF S, v
  <2>1. CASE v.obj # NoObj /\ IsStructure(S \cap T) /\ IsAtomic(S \cap T) /\ inherent[v.obj] = S \cap T
    <3>1. v.obj \in Objs
      BY <1>1, <2>1 DEF Good, Tagged
    <3>2. inherent[v.obj] \in Inherent
      BY <2>1 DEF IsAtomic
    <3> QED
      BY <2>1, <3>1, <3>2, NewGood DEF Exactified
  <2>2. CASE ~ (v.obj # NoObj /\ IsStructure(S \cap T) /\ IsAtomic(S \cap T) /\ inherent[v.obj] = S \cap T)
    BY <1>2, <2>2 DEF Exactified
  <2> QED
    BY <2>1, <2>2
<1>4. Good(inherent, w, S \cap T)
  BY <1>2, <1>3
<1>5. Put(r, S \cap T, w) /\ UNCHANGED <<inherent, members>>
  BY DEF Narrow
<1> HIDE DEF S, w
<1> QED
  BY <1>1, <1>4, <1>5, PutStep

\* The members of the container that a register of a structure type refers to.
LEMMA ContainerGood ==
    ASSUME Inductive, NEW s \in Regs, IsStructure(regs[s].type), regs[s].val.obj # NoObj,
           NEW k \in Keys
    PROVE  LET o == regs[s].val.obj
           IN  /\ o \in Objs
               /\ inherent[o] \in Inherent
               /\ inherent[o] \subseteq regs[s].type
               /\ IsStructure(inherent[o])
               /\ Good(inherent, members[o][k], Project(inherent[o], {k}))
<1> DEFINE o == regs[s].val.obj
<1>1. o \in Objs /\ inherent[o] \in Inherent /\ inherent[o] \subseteq regs[s].type
  BY RegGood DEF Good, Tagged
<1>2. inherent[o] # {} /\ IsStructure(inherent[o])
  BY <1>1, InherentKind DEF IsStructure
<1> HIDE DEF o
<1>3. Good(inherent, members[o][k], Project(inherent[o], {k}))
  BY <1>1, <1>2 DEF Inductive, GoodHeap
<1> QED
  BY <1>1, <1>2, <1>3 DEF o

\* buildListGet and buildMappingGet: the section Structure get of docs/exact.md.
LEMMA GetStep ==
    ASSUME Inductive, NEW r \in Regs, NEW s \in Regs, NEW K \in SUBSET Keys, NEW k \in K,
           Get(r, s, K, k)
    PROVE  Inductive'
<1> DEFINE S == regs[s].type
           v == regs[s].val
           member == members[v.obj][k]
           P == Project(S, K)
           w == IF isMemberTypeExact(S, K) THEN MemberBit(v, member) ELSE Cleared(member)
<1>1. IsStructure(S) /\ v.obj # NoObj /\ Put(r, P, w) /\ UNCHANGED <<inherent, members>>
  BY DEF Get
<1>2. /\ inherent[v.obj] \in Inherent /\ inherent[v.obj] \subseteq S
      /\ Good(inherent, member, Project(inherent[v.obj], {k}))
  BY <1>1, ContainerGood
<1>3. Project(inherent[v.obj], {k}) \subseteq P
  BY <1>2, ProjectGrows
<1>4. Good(inherent, Cleared(member), P)
  BY <1>2, <1>3, ClearedGood
<1>5. ASSUME isMemberTypeExact(S, K), v.exact
      PROVE  Good(inherent, member, P)
  <2>1. SameWithin(S, inherent[v.obj])
    BY <1>1, <1>5, RegGood DEF Good
  <2>2. S = inherent[v.obj]
    BY <1>1, <1>2, <2>1, SameStructure
  <2> HIDE DEF S, member, v
  <2>3. Good(inherent, member, Project(S, {k}))
    BY <1>2, <2>2
  <2>4. member.obj # NoObj /\ member.exact => SameWithin(P, inherent[member.obj])
    BY <1>5, <2>3, ExactKey DEF Good
  <2>5. Project(S, {k}) \subseteq P
    BY <1>3, <2>2
  <2> HIDE DEF P
  <2> QED
    BY <2>3, <2>4, <2>5 DEF Good
<1>6. Good(inherent, w, P)
  <2> HIDE DEF S, member, v, P
  <2>1. isMemberTypeExact(S, K) /\ v.exact => w = member
    BY DEF MemberBit
  <2>2. ~ (isMemberTypeExact(S, K) /\ v.exact) => w = Cleared(member)
    BY DEF MemberBit
  <2> HIDE DEF w
  <2> QED
    BY <1>4, <1>5, <2>1, <2>2
<1>7. P \in SUBSET Shapes
  BY ProjectType
<1> HIDE DEF w, P
<1> QED
  BY <1>1, <1>6, <1>7, PutStep

\* buildListSet and buildMappingSet: the section Structure set of docs/exact.md.
LEMMA SetStep ==
    ASSUME Inductive, NEW s \in Regs, NEW operand \in Regs, NEW K \in SUBSET Keys, NEW k \in K,
           Set(s, K, k, operand)
    PROVE  Inductive'
<1> DEFINE S == regs[s].type
           o == regs[s].val.obj
           P == Project(S, K)
           F == Project(inherent[o], {k})
           v == StoredValue(operand, P)
<1>1. /\ IsStructure(S) /\ o # NoObj /\ Fits(operand, P) /\ Belongs(v, F)
      /\ members' = [members EXCEPT ![o] = [members[o] EXCEPT ![k] = v]]
      /\ UNCHANGED <<inherent, regs>>
  BY DEF Set, Allowed
<1>2. o \in Objs /\ inherent[o] \in Inherent /\ inherent[o] \subseteq S /\ IsStructure(inherent[o])
  BY <1>1, ContainerGood
<1>3. Good(inherent, v, P)
  BY <1>1, RegGood, WideGood DEF StoredValue, Fits
<1>4. F \subseteq P
  BY <1>2, ProjectGrows
<1>5. Good(inherent, v, F)
  <2> HIDE DEF v, F, P
  <2> QED
    BY <1>1, <1>3, <1>4, NarrowGood DEF Belongs
<1> HIDE DEF v, P, S, o
<1>6. v \in Tagged
  BY <1>5 DEF Good
<1>7. members' \in [Objs -> [Keys -> Tagged]]
  BY <1>1, <1>6 DEF Inductive, GoodHeap
<1>8. ASSUME NEW q \in Objs, NEW l \in Keys
      PROVE  IF inherent[q] # {} /\ IsStructure(inherent[q])
             THEN Good(inherent, members'[q][l], Project(inherent[q], {l}))
             ELSE members'[q][l] = Other
  <2>1. CASE q = o /\ l = k
    <3>1. members'[q][l] = v
      BY <1>1, <1>2, <2>1 DEF Inductive, GoodHeap
    <3>2. inherent[q] # {}
      BY <1>2, <2>1, InherentKind
    <3> QED
      BY <1>2, <1>5, <2>1, <3>1, <3>2
  <2>2. CASE ~ (q = o /\ l = k)
    <3>1. members'[q][l] = members[q][l]
      BY <1>1, <1>2, <2>2 DEF Inductive, GoodHeap
    <3> QED
      BY <3>1 DEF Inductive, GoodHeap
  <2> QED
    BY <2>1, <2>2
<1> QED
  BY <1>1, <1>7, <1>8 DEF Inductive, GoodHeap

\* A step that allocates o, and stores an exact pointer to it in r.
LEMMA AllocationStep ==
    ASSUME Inductive, NEW r \in Regs, NEW o \in Objs, inherent[o] = {}, NEW A \in Inherent, NEW new,
           IF IsStructure(A)
           THEN new \in [Keys -> Tagged] /\ \A k \in Keys : Good(inherent, new[k], Project(A, {k}))
           ELSE new = members[o],
           inherent' = [inherent EXCEPT ![o] = A],
           members' = [members EXCEPT ![o] = new],
           Put(r, A, [obj |-> o, exact |-> TRUE])
    PROVE  Inductive'
<1>1. inherent \in [Objs -> Inherent \cup {{}}]
  BY DEF Inductive, GoodHeap
<1>2. GoodHeap(inherent', members')
  BY AllocationGood DEF Inductive
<1>3. GoodRegs(inherent', regs)
  BY <1>1, AllocationKeepsRegs DEF Inductive
<1>4. inherent'[o] = A
  BY <1>1
<1>5. Good(inherent', [obj |-> o, exact |-> TRUE], A)
  BY <1>4, NewGood
<1>6. A \in SUBSET Shapes
  BY InherentKind DEF Shapes, PotentiallyExact
<1>7. GoodRegs(inherent', regs')
  BY <1>3, <1>5, <1>6, PutGood DEF Put
<1> QED
  BY <1>2, <1>7 DEF Inductive

\* A function value or closure is exact from the start.
LEMMA FunctionValueStep ==
    ASSUME Inductive, NEW r \in Regs, NEW o \in Objs, NEW A \in Inherent, FunctionValue(r, o, A)
    PROVE  Inductive'
<1>1. ~ IsStructure(A)
  BY ShapesAssumption, InherentKind DEF FunctionValue, IsStructure
<1>2. members' = [members EXCEPT ![o] = members[o]]
  BY DEF FunctionValue, Inductive, GoodHeap
<1> QED
  BY <1>1, <1>2, AllocationStep DEF FunctionValue

\* buildListConstruct and buildMappingConstruct keep the invariant.
LEMMA ConstructStep ==
    ASSUME Inductive, NEW r \in Regs, NEW o \in Objs, NEW A \in Inherent,
           NEW operand \in [Keys -> Regs], Construct(r, o, A, operand)
    PROVE  Inductive'
<1> DEFINE new == [k \in Keys |-> Wide(regs[operand[k]].val, regs[operand[k]].type, Project(A, {k}))]
<1>1. ASSUME NEW k \in Keys
      PROVE  Good(inherent, new[k], Project(A, {k}))
  <2>1. operand[k] \in Regs /\ regs[operand[k]].type \subseteq Project(A, {k})
    BY DEF Construct, Fits
  <2>2. Good(inherent, regs[operand[k]].val, regs[operand[k]].type)
    BY <2>1, RegGood
  <2> QED
    BY <2>1, <2>2, WideGood
<1>2. new \in [Keys -> Tagged]
  BY <1>1 DEF Good
<1>3. /\ inherent[o] = {} /\ IsStructure(A) /\ inherent' = [inherent EXCEPT ![o] = A]
      /\ members' = [members EXCEPT ![o] = new] /\ Put(r, A, [obj |-> o, exact |-> TRUE])
  BY DEF Construct
<1> HIDE DEF new
<1> QED
  BY <1>1, <1>2, <1>3, AllocationStep

\* Rest arguments keep the invariant if the call site's rest type is the callee's.
LEMMA RestArgsStep ==
    ASSUME Inductive, ~ WideRestArgs, NEW r \in Regs, NEW s \in Regs, NEW o \in Objs,
           NEW T \in StaticTypes, NEW A \in RestTypes, RestArgs(r, s, o, T, A)
    PROVE  Inductive'
<1> DEFINE new == [k \in Keys |-> Wide(regs[s].val, regs[s].type, T)]
<1>1. ASSUME NEW k \in Keys
      PROVE  Good(inherent, new[k], Project(A, {k}))
  <2>1. regs[s].type \subseteq T /\ T = Project(A, {k})
    BY DEF RestArgs, Fits
  <2> QED
    BY <2>1, RegGood, WideGood
<1>2. new \in [Keys -> Tagged]
  BY <1>1 DEF Good
<1>3. /\ inherent[o] = {} /\ IsStructure(A) /\ inherent' = [inherent EXCEPT ![o] = A]
      /\ members' = [members EXCEPT ![o] = new] /\ Put(r, A, [obj |-> o, exact |-> TRUE])
  BY TypesAssumption DEF RestArgs, IsStructure
<1>4. A \in Inherent
  BY TypesAssumption
<1> HIDE DEF new
<1> QED
  BY <1>1, <1>2, <1>3, <1>4, AllocationStep

\* No step of the program disturbs the invariant, when call sites are as wide as callees.
LEMMA NextStep ==
    ASSUME ~ WideReturns, ~ WideRestArgs, Inductive, [Next]_vars
    PROVE  Inductive'
<1>1. CASE UNCHANGED vars
  BY <1>1 DEF vars, Inductive
<1>2. ASSUME NEW r \in Regs, Forget(r)
      PROVE  Inductive'
  BY <1>2, ForgetStep
<1>3. ASSUME NEW r \in Regs, NEW o \in Objs, NEW A \in Inherent,
             FunctionValue(r, o, A) \/ \E operand \in [Keys -> Regs] : Construct(r, o, A, operand)
      PROVE  Inductive'
  BY <1>3, FunctionValueStep, ConstructStep
<1>4. ASSUME NEW r \in Regs, NEW s \in Regs, NEW T \in StaticTypes,
             Assign(r, s, T) \/ Narrow(r, s, T) \/ UniformArg(r, s, T)
      PROVE  Inductive'
  BY <1>4, AssignStep, NarrowStep, UniformArgStep
<1>5. ASSUME NEW r \in Regs, NEW s \in Regs, NEW T \in StaticTypes, NEW site \in StaticTypes,
             Return(r, s, T, site)
      PROVE  Inductive'
  BY <1>5, ReturnStep
<1>6. ASSUME NEW r \in Regs, NEW s \in Regs, NEW o \in Objs, NEW T \in StaticTypes,
             NEW A \in RestTypes, RestArgs(r, s, o, T, A)
      PROVE  Inductive'
  BY <1>6, RestArgsStep
<1>7. ASSUME NEW r \in Regs, NEW s \in Regs, NEW K \in SUBSET Keys, NEW k \in K,
             Get(r, s, K, k) \/ Set(r, K, k, s)
      PROVE  Inductive'
  BY <1>7, GetStep, SetStep
<1> QED
  BY <1>1, <1>2, <1>3, <1>4, <1>5, <1>6, <1>7 DEF Next

-----------------------------------------------------------------------------
(* Theorems.                                                                *)

\* When call sites are as wide as the callees, every behaviour has the
\* invariant that get, set and calls rely on.
THEOREM InductiveHolds == ~ WideReturns /\ ~ WideRestArgs => (Spec => []Inductive)
<1> SUFFICES ASSUME ~ WideReturns, ~ WideRestArgs
             PROVE  Spec => []Inductive
  OBVIOUS
<1>1. Init => Inductive
  BY InitGood
<1>2. Inductive /\ [Next]_vars => Inductive'
  BY NextStep
<1> QED
  BY <1>1, <1>2, PTL DEF Spec

\* Registers and members contain tagged pointers, and objects have inherent types.
THEOREM TypeCorrect == ~ WideReturns /\ ~ WideRestArgs => (Spec => []TypeOK)
<1>1. Inductive => TypeOK
  BY DEF Inductive, GoodRegs, GoodHeap, TypeOK
<1> QED
  BY <1>1, InductiveHolds, PTL

\* The first invariant of docs/exact.md, for every universe of types: an exact
\* pointer in a register is to a value whose inherent type the register has.
THEOREM RegistersStayExact == ~ WideReturns /\ ~ WideRestArgs => (Spec => []RegistersExact)
<1>1. Inductive => RegistersExact
  BY DEF Inductive, GoodRegs, Good, RegistersExact, Other
<1> QED
  BY <1>1, InductiveHolds, PTL

\* The second invariant of docs/exact.md: an exact member is a value of the
\* inherent type that its container requires for the member.
THEOREM MembersStayExact == ~ WideReturns /\ ~ WideRestArgs => (Spec => []MembersExact)
<1>1. Inductive => MembersExact
  <2> SUFFICES ASSUME Inductive, NEW o \in Objs, NEW k \in Keys, members[o][k].exact
               PROVE  SameWithin(Project(inherent[o], {k}), inherent[members[o][k].obj])
    BY DEF MembersExact
  <2>1. members[o][k] # Other
    BY DEF Other
  <2>2. Good(inherent, members[o][k], Project(inherent[o], {k}))
    BY <2>1 DEF Inductive, GoodHeap
  <2> QED
    BY <2>1, <2>2 DEF Good
<1> QED
  BY <1>1, InductiveHolds, PTL

\* Registers and members hold values of their types.
THEOREM StaysSound == ~ WideReturns /\ ~ WideRestArgs => (Spec => []Sound)
<1>1. Inductive => Sound
  <2> SUFFICES ASSUME Inductive
               PROVE  Sound
    OBVIOUS
  <2>1. \A v, T : Good(inherent, v, T) => Belongs(v, T)
    BY DEF Good, Belongs
  <2>2. \A o \in Objs : HasMembers(o) =>
            \A k \in Keys : Good(inherent, members[o][k], Project(inherent[o], {k}))
    BY DEF HasMembers, Allocated, Inductive, GoodHeap
  <2> QED
    BY <2>1, <2>2 DEF Inductive, GoodRegs, Sound
<1> QED
  BY <1>1, InductiveHolds, PTL

\* The comment in storePanicCode: a store to an exact structure is not refused,
\* unless the compiler foresaw it and calls the inexact set.
THEOREM ExactStoresNeverFail == ~ WideReturns /\ ~ WideRestArgs => (Spec => []ExactStoresSucceed)
<1>1. Inductive => ExactStoresSucceed
  <2> SUFFICES ASSUME Inductive, NEW s \in Regs, NEW operand \in Regs,
                      NEW K \in SUBSET Keys, NEW k \in K,
                      IsStructure(regs[s].type), regs[s].val.exact,
                      ~ isSetAlwaysInexact(regs[s].type, K, regs[operand].type)
               PROVE  Belongs(regs[operand].val, Project(inherent[regs[s].val.obj], {k}))
    BY DEF ExactStoresSucceed
  <2>1. regs[s].val.obj # NoObj
    BY RegGood DEF Good, Other
  <2>2. /\ inherent[regs[s].val.obj] \in Inherent
        /\ regs[s].type = inherent[regs[s].val.obj]
    BY <2>1, RegGood, SameStructure DEF Good
  <2>3. regs[operand].type \subseteq Project(inherent[regs[s].val.obj], {k})
    BY <2>2 DEF isSetAlwaysInexact, IsAtomic
  <2>4. Good(inherent, regs[operand].val, regs[operand].type)
    BY RegGood
  <2> QED
    BY <2>3, <2>4 DEF Good, Belongs
<1> QED
  BY <1>1, InductiveHolds, PTL
=============================================================================

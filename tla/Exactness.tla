----------------------------- MODULE Exactness ------------------------------
(***************************************************************************)
(* The exact bit of tagged pointers to structures and functions: when it   *)
(* is set, the static type of the register, or the type required of the    *)
(* member, is the inherent type of the value.  The code emitted for get    *)
(* and set, and for calls, chooses its fast path by this bit.              *)
(*                                                                         *)
(* A type is a set of shapes.  Every value with an inherent type has a     *)
(* kind: list, mapping or function.  A program is a run of instructions    *)
(* whose static types the compiler accepts.  The registers hold what the   *)
(* registers of all active functions hold.                                 *)
(***************************************************************************)
EXTENDS Naturals

CONSTANTS
    Kinds,        \* the potentially exact basic types
    Structures,   \* those with members: all but function
    ShapesOf,     \* the shapes of each kind
    OtherShapes,  \* nil, booleans and other shapes that have no exact bit
    Keys,         \* field names, or list indices
    MemberShape,  \* the shape of each member of a shape that has a kind
    Inherent,     \* the inherent types of the program: atomic types of one kind
    RestTypes,    \* those of lists of rest arguments: they have one member type
    StaticTypes,  \* the types of its registers
    Objs, NoObj, Regs,
    WideReturns,  \* are there call sites whose return type is wider than the callee's?
    WideRestArgs  \* and call sites whose rest type is narrower than the callee's?

Shapes == OtherShapes \cup UNION {ShapesOf[u] : u \in Kinds}
PotentiallyExact == UNION {ShapesOf[u] : u \in Kinds}

\* The member type of the keys K in T.
Project(T, K) == {MemberShape[s][k] : s \in T \cap PotentiallyExact, k \in K}

ASSUME ShapesAssumption ==
    /\ Structures \subseteq Kinds
    /\ NoObj \notin Objs
    /\ OtherShapes # {}
    /\ \A u, w \in Kinds : u # w => ShapesOf[u] \cap ShapesOf[w] = {}
    /\ \A u \in Kinds : ShapesOf[u] \cap OtherShapes = {}
    /\ MemberShape \in [PotentiallyExact -> [Keys -> Shapes]]

ASSUME TypesAssumption ==
    /\ \A A \in Inherent : A # {} /\ \E u \in Kinds : A \subseteq ShapesOf[u]
    /\ RestTypes \subseteq Inherent
    /\ \A A \in RestTypes : \E u \in Structures : A \subseteq ShapesOf[u]
    /\ \A A \in RestTypes : \A k, l \in Keys : Project(A, {k}) = Project(A, {l})
    /\ \A T \in StaticTypes : T \subseteq Shapes
    /\ WideReturns \in BOOLEAN /\ WideRestArgs \in BOOLEAN

VARIABLES
    inherent,   \* the inherent type of each object that has been allocated
    members,    \* the members of each
    regs        \* the static type and the content of each register in use

vars == <<inherent, members, regs>>

Tagged == [obj : Objs \cup {NoObj}, exact : BOOLEAN]

\* A value without an exact bit.
Other == [obj |-> NoObj, exact |-> FALSE]

Allocated == {o \in Objs : inherent[o] # {}}

Init ==
    /\ inherent = [o \in Objs |-> {}]
    /\ members = [o \in Objs |-> [k \in Keys |-> Other]]
    /\ regs = [r \in Regs |-> [type |-> OtherShapes, val |-> Other]]

-----------------------------------------------------------------------------
(* Types.                                                                   *)

KindsIn(T) == {u \in Kinds : T \cap ShapesOf[u] # {}}
OfKinds(U) == UNION {ShapesOf[u] : u \in U}

IsStructure(T) == \E u \in Structures : T \subseteq ShapesOf[u]

\* mappingAtomicType and listAtomicType are not nil.
IsAtomic(T) == T \in Inherent

\* The value belongs to the type; the inherent type decides.
Belongs(v, T) ==
    IF v.obj = NoObj THEN T \cap OtherShapes # {} ELSE inherent[v.obj] \subseteq T

\* The target has more values, of the kinds that the source has.
operationWidens(S, T) ==
    LET source == S \cap PotentiallyExact
        target == T \cap OfKinds(KindsIn(source))
    IN  source # {} /\ target # {} /\ ~ (target \subseteq source)

\* Mutant: the members that K allows are not compared.
isMemberTypeExact_AtomicOnly(S, K) == IsAtomic(S)

\* isMappingMemberTypeExact and isListMemberTypeExact: every key of K that has a
\* member with an exact bit requires the same type for it.
isMemberTypeExact(S, K) ==
    /\ IsAtomic(S)
    /\ \A k \in K :
        LET within == Project(S, {k}) \cap PotentiallyExact
        IN  within = {} \/ within = Project(S, K) \cap PotentiallyExact

\* Mutant: a store is expected to fail only if no key allows the new member.
isSetAlwaysInexact_AllKeys(S, K, T) == IsAtomic(S) /\ \A k \in K : ~ (T \subseteq Project(S, {k}))

\* isMappingSetAlwaysInexact and isListSetAlwaysInexact: a store may fail also when
\* the container is exact, and calls the function that expects this.
isSetAlwaysInexact(S, K, T) == IsAtomic(S) /\ \E k \in K : ~ (T \subseteq Project(S, {k}))

Cleared(v) == [obj |-> v.obj, exact |-> FALSE]

\* buildWideRepr: a value of static type S is stored where T is required.
Wide(v, S, T) == IF operationWidens(S, T) THEN Cleared(v) ELSE v

-----------------------------------------------------------------------------
(* Instructions.                                                            *)

Put(r, T, v) == regs' = [regs EXCEPT ![r] = [type |-> T, val |-> v]]

\* An operand that the compiler accepts where T is required.
Fits(s, T) == regs[s].type \subseteq T

\* A function value, or a closure, is exact.
FunctionValue(r, o, A) ==
    /\ inherent[o] = {}
    /\ \E u \in Kinds \ Structures : A \subseteq ShapesOf[u]
    /\ inherent' = [inherent EXCEPT ![o] = A]
    /\ Put(r, A, [obj |-> o, exact |-> TRUE])
    /\ UNCHANGED members

\* ListConstruct and MappingConstruct: the operands become the members.
Construct(r, o, A, operand) ==
    /\ inherent[o] = {}
    /\ IsStructure(A)
    /\ \A k \in Keys : Fits(operand[k], Project(A, {k}))
    /\ inherent' = [inherent EXCEPT ![o] = A]
    /\ members' = [members EXCEPT ![o] =
                    [k \in Keys |-> Wide(regs[operand[k]].val, regs[operand[k]].type, Project(A, {k}))]]
    /\ Put(r, A, [obj |-> o, exact |-> TRUE])

\* Assign, and the passing of an argument to a direct or exact call.
Assign(r, s, T) ==
    /\ Fits(s, T)
    /\ Put(r, T, Wide(regs[s].val, regs[s].type, T))
    /\ UNCHANGED <<inherent, members>>

\* buildMemberClearExact
MemberBit(v, member) == IF v.exact THEN member ELSE Cleared(member)

\* ListGet and MappingGet with a key k, known to be in K when it was compiled.
Get(r, s, K, k) ==
    LET S == regs[s].type
        v == regs[s].val
    IN  /\ IsStructure(S)
        /\ v.obj # NoObj
        /\ Put(r, Project(S, K), IF isMemberTypeExact(S, K)
                                 THEN MemberBit(v, members[v.obj][k])
                                 ELSE Cleared(members[v.obj][k]))
        /\ UNCHANGED <<inherent, members>>

\* Mutant: the value is taken to be of the type that the store requires.
StoredValue_Kept(s, T) == regs[s].val

StoredValue(s, T) == Wide(regs[s].val, regs[s].type, T)

\* Mutant: the store trusts the static type of the container.
Allowed_Static(v, o, k) == TRUE

\* The inherent type of o allows v as the member k.
Allowed(v, o, k) == Belongs(v, Project(inherent[o], {k}))

\* ListSet and MappingSet; the runtime refuses a value that is not in the type
\* that the inherent type requires for the member, and the program panics.
Set(s, K, k, operand) ==
    LET S == regs[s].type
        o == regs[s].val.obj
        v == StoredValue(operand, Project(S, K))
    IN  /\ IsStructure(S)
        /\ o # NoObj
        /\ Fits(operand, Project(S, K))
        /\ Allowed(v, o, k)
        /\ members' = [members EXCEPT ![o] = [members[o] EXCEPT ![k] = v]]
        /\ UNCHANGED <<inherent, regs>>

\* buildExactify and _bal_structure_exactify
Exactified(v, T) ==
    IF v.obj # NoObj /\ IsStructure(T) /\ IsAtomic(T) /\ inherent[v.obj] = T
    THEN [obj |-> v.obj, exact |-> TRUE]
    ELSE v

\* testTypeAsBasicBitSet: the tag of a value of type S decides whether it is in T.
TestedByTag(S, T) == S \cap OfKinds(KindsIn(T)) \subseteq T

\* TypeCast to T, and the registers narrowed to T by TypeCondBranch and TypeMerge.
Narrow(r, s, T) ==
    LET S == regs[s].type
        v == regs[s].val
    IN  /\ Belongs(v, S \cap T)
        /\ Put(r, S \cap T, IF TestedByTag(S, T) THEN v ELSE Exactified(v, S \cap T))
        /\ UNCHANGED <<inherent, members>>

\* An argument of a call through the uniform function.
UniformArg(r, s, T) ==
    /\ Fits(s, T)
    /\ Put(r, T, Cleared(regs[s].val))
    /\ UNCHANGED <<inherent, members>>

\* The callee returns s as a value of type T; at the call site the return type of
\* the function is site, which is T unless the call is inexact.
Return(r, s, T, site) ==
    /\ Fits(s, T)
    /\ IF WideReturns THEN T \subseteq site ELSE site = T
    /\ Put(r, site, Wide(regs[s].val, regs[s].type, T))
    /\ UNCHANGED <<inherent, members>>

\* Rest arguments of a call through the uniform function: a list with members of
\* type T, made at the call site, is spread, and the callee's list is made of it.
RestArgs(r, s, o, T, A) ==
    /\ inherent[o] = {}
    /\ Fits(s, T)
    /\ \A k \in Keys : IF WideRestArgs THEN T \subseteq Project(A, {k}) ELSE T = Project(A, {k})
    /\ inherent' = [inherent EXCEPT ![o] = A]
    /\ members' = [members EXCEPT ![o] = [k \in Keys |-> Wide(regs[s].val, regs[s].type, T)]]
    /\ Put(r, A, [obj |-> o, exact |-> TRUE])

\* A register of a function that has returned.
Forget(r) == Put(r, OtherShapes, Other) /\ UNCHANGED <<inherent, members>>

Next ==
    \E r \in Regs :
        \/ Forget(r)
        \/ \E o \in Objs, A \in Inherent :
            FunctionValue(r, o, A) \/ \E operand \in [Keys -> Regs] : Construct(r, o, A, operand)
        \/ \E s \in Regs :
            \/ \E T \in StaticTypes : Assign(r, s, T) \/ Narrow(r, s, T) \/ UniformArg(r, s, T)
            \/ \E T, site \in StaticTypes : Return(r, s, T, site)
            \/ \E o \in Objs, T \in StaticTypes, A \in RestTypes : RestArgs(r, s, o, T, A)
            \/ \E K \in SUBSET Keys : \E k \in K : Get(r, s, K, k) \/ Set(r, K, k, s)

Spec == Init /\ [][Next]_vars

-----------------------------------------------------------------------------

TypeOK ==
    /\ inherent \in [Objs -> Inherent \cup {{}}]
    /\ members \in [Objs -> [Keys -> Tagged]]
    /\ regs \in [Regs -> [type : SUBSET Shapes, val : Tagged]]

\* T is the type A, as far as values of the kind of A go.
SameWithin(T, A) == \A u \in Kinds : A \subseteq ShapesOf[u] => T \cap ShapesOf[u] = A

\* The first invariant of docs/exact.md: when a register with type T contains an
\* exact tagged pointer to v, then T is the inherent type of v within its kind.
\* buildListGet, buildListSet and buildCallIndirect rely on it.
RegistersExact ==
    \A r \in Regs :
        regs[r].val.exact => SameWithin(regs[r].type, inherent[regs[r].val.obj])

\* The second invariant of docs/exact.md: an exact member has the type that the
\* inherent type of its container requires.
MembersExact ==
    \A o \in Objs : \A k \in Keys :
        members[o][k].exact =>
            SameWithin(Project(inherent[o], {k}), inherent[members[o][k].obj])

HasMembers(o) == o \in Allocated /\ IsStructure(inherent[o])

\* Registers and members hold only values of their types, also when the static
\* type of a container has been widened between two stores to it.
Sound ==
    /\ \A r \in Regs : Belongs(regs[r].val, regs[r].type)
    /\ \A o \in Objs : HasMembers(o) =>
        \A k \in Keys : Belongs(members[o][k], Project(inherent[o], {k}))

\* The comment in storePanicCode of balrt.h: when the exact bit is set, the error
\* should not occur.  A store that the compiler does not compile to the inexact set
\* is never refused for an exact container.
ExactStoresSucceed ==
    \A s, operand \in Regs : \A K \in SUBSET Keys : \A k \in K :
        LET S == regs[s].type
            T == regs[operand].type
        IN  (/\ IsStructure(S)
             /\ regs[s].val.exact
             /\ T \subseteq Project(S, K)
             /\ ~ isSetAlwaysInexact(S, K, T))
            => Belongs(regs[operand].val, Project(inherent[regs[s].val.obj], {k}))

-----------------------------------------------------------------------------
(* What the invariants above need to be inductive.                          *)

\* What a register or a member of type T may contain, given the inherent types.
Good(inh, v, T) ==
    /\ v \in Tagged
    /\ v.obj = NoObj => v = Other /\ T \cap OtherShapes # {}
    /\ v.obj # NoObj => /\ inh[v.obj] \in Inherent
                        /\ inh[v.obj] \subseteq T
                        /\ v.exact => SameWithin(T, inh[v.obj])

GoodRegs(inh, rg) ==
    /\ rg \in [Regs -> [type : SUBSET Shapes, val : Tagged]]
    /\ \A r \in Regs : Good(inh, rg[r].val, rg[r].type)

GoodHeap(inh, mem) ==
    /\ inh \in [Objs -> Inherent \cup {{}}]
    /\ mem \in [Objs -> [Keys -> Tagged]]
    /\ \A o \in Objs : \A k \in Keys :
        IF inh[o] # {} /\ IsStructure(inh[o])
        THEN Good(inh, mem[o][k], Project(inh[o], {k}))
        ELSE mem[o][k] = Other

Inductive == GoodHeap(inherent, members) /\ GoodRegs(inherent, regs)
=============================================================================

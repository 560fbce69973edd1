--------------------------- MODULE TypeResolution ---------------------------
(***************************************************************************)
(* How the front end turns the definitions of a module into types:         *)
(* resolveTypes of front/resolveTypes.bal, with resolveConstDefn of        *)
(* front/const.bal and the definitions and recursive atoms of the type     *)
(* environment (types/core.bal, types/list.bal, types/mapping.bal).        *)
(*                                                                         *)
(* The functions call each other while they walk over type descriptors, so *)
(* the state holds their activations.  Definitions may refer to each other *)
(* and to themselves, in any order.                                        *)
(***************************************************************************)
EXTENDS Integers, Sequences, FiniteSets

CONSTANTS
    Names,          \* what a module defines
    Programs,       \* the modules: the definitions, and the order of mod.defns
    IsEmpty(_, _)   \* t:isEmpty of an environment and a type

VARIABLES
    program,
    semType,        \* the field semType of each TypeDefn
    cycleDepth,     \* the field cycleDepth of each TypeDefn
    resolved,       \* the field resolved of each ConstDefn
    defns,          \* the field defn of the type descriptors that have one
    env,            \* the atoms of the type environment
    deferred,       \* mod.deferredEmptinessChecks
    emptyNonCyclic, \* mod.emptyNonCyclicTypeLocation is set
    calls,          \* the activations, the innermost last
    next,           \* the definition that resolveTypes is at
    outcome         \* how resolveTypes ended

symbols == <<semType, cycleDepth, resolved>>
types == <<defns, env>>
checks == <<deferred, emptyNonCyclic>>
vars == <<program, symbols, types, checks, calls, next, outcome>>

-----------------------------------------------------------------------------

(* A type is a union of intersections of atoms of one kind: a basic type, a *)
(* list or a mapping.  The atom of a basic type has index 0.                *)

Kinds == {"list", "mapping"}

Atom(kind, rec, i) == {{[kind |-> kind, rec |-> rec, index |-> i]}}

Basic(b) == Atom(b, FALSE, 0)

Unresolved == {{}}

Meet(s, t) ==
    {c \in {a \cup b : a \in s, b \in t} : \A x, y \in c : x.kind = y.kind /\ (x # y => x.kind \in Kinds)}

NotDefined == [kind |-> "none", members |-> <<>>, rest |-> {}]

\* Mutant: the environment is taken to be ready when an atom is missing.
isReady_OffByOne(e) ==
    e.recAtomCount + 1 >= Len(e.recAtoms["list"]) + Len(e.recAtoms["mapping"])

\* The two atoms that are always there are left out, of both sides.
isReady(e) == e.recAtomCount = Len(e.recAtoms["list"]) + Len(e.recAtoms["mapping"])

\* Mutant: a tuple is taken for another one of the same length.
typeAtom_ByLength(e, atomic) ==
    LET known == {i \in DOMAIN e.atomTable :
                    /\ e.atomTable[i].kind = atomic.kind /\ e.atomTable[i].rest = atomic.rest
                    /\ Len(e.atomTable[i].members) = Len(atomic.members)}
    IN IF known # {}
       THEN [env |-> e, index |-> CHOOSE i \in known : TRUE]
       ELSE [env |-> [e EXCEPT !.atomTable = Append(@, atomic)], index |-> Len(e.atomTable) + 1]

\* The index of an atomic type in the table, to which it may have to be added.
typeAtom(e, atomic) ==
    LET known == {i \in DOMAIN e.atomTable : e.atomTable[i] = atomic}
    IN IF known # {}
       THEN [env |-> e, index |-> CHOOSE i \in known : TRUE]
       ELSE [env |-> [e EXCEPT !.atomTable = Append(@, atomic)], index |-> Len(e.atomTable) + 1]

\* The results of the methods of a definition d: the environment, d and the type.
Created(e, d, kind, rec, i) ==
    [env |-> e, type |-> Atom(kind, rec, i),
     defn |-> [rec |-> d.rec, semType |-> Atom(kind, rec, i)]]

\* Mutant: the definition does not remember its recursive atom.
getSemType_Forgets(e, d, kind) ==
    IF d.semType = Unresolved
    THEN LET i == Len(e.recAtoms[kind]) + 1
         IN Created([e EXCEPT !.recAtoms[kind] = Append(@, NotDefined)], d, kind, TRUE, i)
    ELSE [env |-> e, type |-> d.semType, defn |-> d]

getSemType(e, d, kind) ==
    IF d.semType = Unresolved
    THEN LET i == Len(e.recAtoms[kind]) + 1
         IN Created([e EXCEPT !.recAtoms[kind] = Append(@, NotDefined)],
                    [d EXCEPT !.rec = i], kind, TRUE, i)
    ELSE [env |-> e, type |-> d.semType, defn |-> d]

define(e, d, atomic) ==
    IF d.rec # 0
    THEN Created([e EXCEPT !.recAtoms[atomic.kind][d.rec] = atomic, !.recAtomCount = @ + 1],
                 d, atomic.kind, TRUE, d.rec)
    ELSE LET a == typeAtom(e, atomic)
         IN Created(a.env, d, atomic.kind, FALSE, a.index)

-----------------------------------------------------------------------------

(* A type descriptor has an operator op and operands tds; the operands of a *)
(* constructor are its members, and last the rest if there is one.  An      *)
(* array with several dimensions has one definition, defined once for each. *)

IsConstructor(td) == td.op \in Kinds

Defn(n) == program.defn[n]
IsDefined(n, kind) == n \in DOMAIN program.defn /\ Defn(n).kind = kind

\* An activation of resolveTypeDefn, resolveConstDefn, resolveFunctionSignature or
\* resolveTypeDesc, and the types it has got.  A descriptor is identified by its
\* place in the definition.
Activation(what, name, place, td, depth) ==
    [what |-> what, name |-> name, place |-> place, td |-> td, depth |-> depth, types |-> <<>>]

NoTd == [op |-> "none", tds |-> <<>>]

Top == calls[Len(calls)]
Callers == SubSeq(calls, 1, Len(calls) - 1)

Delivered(cs, t) ==
    IF cs = <<>> THEN cs
    ELSE [cs EXCEPT ![Len(cs)] = [cs[Len(cs)] EXCEPT !.types = Append(@, t)]]

Return(cs, t) ==
    /\ calls' = Delivered(cs, t)
    /\ UNCHANGED <<checks, outcome>>

Fail(why) ==
    /\ outcome' = why
    /\ UNCHANGED <<symbols, types, checks, calls>>

Init ==
    /\ program \in Programs
    /\ semType = [n \in Names |-> Unresolved]
    /\ cycleDepth = [n \in Names |-> -1]
    /\ resolved = [n \in Names |-> "nil"]
    /\ defns = [p \in {} |-> Unresolved]
    /\ env = [atomTable |-> <<>>, recAtoms |-> [k \in Kinds |-> <<>>], recAtomCount |-> 0]
    /\ deferred = <<>>
    /\ emptyNonCyclic = FALSE
    /\ calls = <<>>
    /\ next = 1
    /\ outcome = "running"

-----------------------------------------------------------------------------

(* nonEmptyType and nonEmptyTypeNoDefer.  What becomes of an empty type that *)
(* is no intersection depends on isMemberNever and on isCyclic, which        *)
(* depends on what was asked before: it is an error now, or at the end.      *)

AllDefined(e) == \A k \in Kinds : \A i \in DOMAIN e.recAtoms[k] : e.recAtoms[k][i] # NotDefined

\* A test that meets an atom without a definition panics.
nonEmptyTypeNoDefer(e, op, t) ==
    IF ~ AllDefined(e) THEN {"panic"}
    ELSE IF ~ IsEmpty(e, t) THEN {"inhabited"}
    ELSE IF op = "&" THEN {"empty"} ELSE {"empty", "emptyNonCyclic"}

\* Mutant: a type that cannot be tested yet is not tested later either.
Defer_Not(op, t) == UNCHANGED deferred

Defer(op, t) == deferred' = Append(deferred, [semType |-> t, op |-> op])

\* The callers cs get t, unless the test fails; e is the environment by then.
nonEmptyType(cs, op, t, e) ==
    \/ /\ ~ isReady(e)
       /\ Defer(op, t)
       /\ calls' = Delivered(cs, t)
       /\ UNCHANGED <<emptyNonCyclic, outcome>>
    \/ /\ isReady(e)
       /\ \E r \in nonEmptyTypeNoDefer(e, op, t) :
             IF r \in {"inhabited", "emptyNonCyclic"}
             THEN /\ calls' = Delivered(cs, t)
                  /\ emptyNonCyclic' = (emptyNonCyclic \/ r = "emptyNonCyclic")
                  /\ UNCHANGED outcome
             ELSE /\ outcome' = r
                  /\ UNCHANGED <<calls, emptyNonCyclic>>
       /\ UNCHANGED deferred

-----------------------------------------------------------------------------

(* The start of resolveTypeDefn, resolveConstDefn and resolveTypeDesc. *)

IsCycle(n, depth) == depth = cycleDepth[n]

EnterTypeDefn(n, depth) ==
    \/ /\ semType[n] # Unresolved
       /\ Return(calls, semType[n])
       /\ UNCHANGED <<symbols, types>>
    \/ /\ semType[n] = Unresolved
       /\ IsCycle(n, depth)
       /\ Fail("cycle")
    \/ /\ semType[n] = Unresolved
       /\ ~ IsCycle(n, depth)
       /\ cycleDepth' = [cycleDepth EXCEPT ![n] = depth]
       /\ calls' = Append(calls, Activation("type", n, <<n>>, NoTd, depth))
       /\ UNCHANGED <<semType, resolved, types, checks, outcome>>

\* The type of a constant has one value, of a basic type of its own.
EnterConstDefn(n) ==
    \/ resolved[n] = "false" /\ Fail("cycle")
    \/ resolved[n] = "value" /\ Return(calls, Basic(n)) /\ UNCHANGED <<symbols, types>>
    \/ /\ resolved[n] = "nil"
       /\ resolved' = [resolved EXCEPT ![n] = "false"]
       /\ calls' = Append(calls, Activation("const", n, <<n>>, NoTd, 0))
       /\ UNCHANGED <<semType, cycleDepth, types, checks, outcome>>

EnterRef(n, depth) ==
    \/ IsDefined(n, "type") /\ EnterTypeDefn(n, depth)
    \/ IsDefined(n, "const") /\ EnterConstDefn(n)
    \/ ~ IsDefined(n, "type") /\ ~ IsDefined(n, "const") /\ Fail("nontype")

EnterDefined(place, td) ==
    LET r == getSemType(env, defns[place], td.op)
    IN /\ nonEmptyType(calls, td.op, r.type, r.env)
       /\ env' = r.env
       /\ defns' = [defns EXCEPT ![place] = r.defn]
       /\ UNCHANGED symbols

EnterOperator(place, td, depth) ==
    /\ defns' = IF ~ IsConstructor(td) THEN defns
                ELSE [p \in DOMAIN defns \cup {place} |->
                        IF p = place THEN [rec |-> 0, semType |-> Unresolved] ELSE defns[p]]
    /\ calls' = Append(calls, Activation("desc", Top.name, place, td, depth))
    /\ UNCHANGED <<symbols, env, checks, outcome>>

EnterTypeDesc(place, td, depth) ==
    \/ td.op = "builtin" /\ Return(calls, Basic(td.type)) /\ UNCHANGED <<symbols, types>>
    \/ td.op = "ref" /\ EnterRef(td.name, depth)
    \/ IsConstructor(td) /\ place \in DOMAIN defns /\ EnterDefined(place, td)
    \/ /\ td.op \notin {"builtin", "ref"}
       /\ ~ (IsConstructor(td) /\ place \in DOMAIN defns)
       /\ EnterOperator(place, td, depth)

-----------------------------------------------------------------------------

(* The rest of an activation: its operands, then its result. *)

DepthBelow(td, depth) == IF td.op \in Kinds \cup {"("} THEN depth + 1 ELSE depth

\* The type that a loop over the operands has accumulated.
Accumulated(td, ts) ==
    LET acc[i \in 1 .. Len(ts)] ==
            IF i = 1 THEN ts[1]
            ELSE IF td.op = "&" THEN Meet(acc[i - 1], ts[i]) ELSE acc[i - 1] \cup ts[i]
    IN acc[Len(ts)]

\* resolveSubsetTypeDesc tests without asking whether the environment is ready.
TestsOperand(f) ==
    /\ f.types # <<>>
    /\ f.what = "signature" \/ (f.td.op = "&" /\ Len(f.types) > 1 /\ isReady(env))

PanickingOperand(f) == TestsOperand(f) /\ ~ AllDefined(env)

\* An intersection that is seen to be empty, a parameter or a result that is.
BadOperand(f) ==
    /\ f.types # <<>>
    /\ LET t == IF f.td.op = "&" THEN Accumulated(f.td, f.types) ELSE f.types[Len(f.types)]
       IN \/ f.td.op = "&" /\ t = {}
          \/ TestsOperand(f) /\ AllDefined(env) /\ IsEmpty(env, t)

Operands(f) ==
    CASE f.what = "type" -> <<Defn(f.name).td>>
      [] f.what = "const" -> Defn(f.name).refs
      [] f.what = "signature" -> Defn(f.name).tds
      [] OTHER -> f.td.tds

Operand ==
    /\ calls # <<>>
    /\ LET f == Top
           i == Len(f.types) + 1
       IN \/ BadOperand(f) /\ Fail("empty")
          \/ PanickingOperand(f) /\ Fail("panic")
          \/ /\ ~ BadOperand(f) /\ ~ PanickingOperand(f)
             /\ i <= Len(Operands(f))
             /\ IF f.what = "const" THEN EnterConstDefn(Operands(f)[i])
                ELSE EnterTypeDesc(Append(f.place, i), Operands(f)[i],
                                   IF f.what = "desc" THEN DepthBelow(f.td, f.depth) ELSE f.depth)
    /\ UNCHANGED next

Finished(what) ==
    /\ calls # <<>>
    /\ Top.what = what
    /\ ~ BadOperand(Top) /\ ~ PanickingOperand(Top)
    /\ Len(Top.types) >= Len(Operands(Top))
    /\ UNCHANGED next

\* The atomic type that is defined from what has been resolved.
AtomicType(f) ==
    LET n == Len(f.td.tds)
        last == f.types[Len(f.types)]
    IN IF Len(f.types) > n THEN [kind |-> f.td.op, members |-> <<>>, rest |-> last]
       ELSE [kind |-> f.td.op,
             members |-> SubSeq(f.types, 1, IF f.td.rest THEN n - 1 ELSE n),
             rest |-> IF f.td.rest THEN last ELSE {}]

DefineConstructor ==
    /\ Finished("desc") /\ IsConstructor(Top.td)
    /\ LET f == Top
           r == define(env, defns[f.place], AtomicType(f))
       IN /\ env' = r.env
          /\ defns' = [defns EXCEPT ![f.place] = r.defn]
          /\ IF Len(f.types) - Len(f.td.tds) + 1 < f.td.dimensions
             THEN Return(calls, r.type)
             ELSE nonEmptyType(Callers, f.td.op, r.type, r.env)
    /\ UNCHANGED symbols

CombineOperands ==
    /\ Finished("desc") /\ ~ IsConstructor(Top.td)
    /\ LET f == Top
           t == Accumulated(f.td, f.types)
       IN \/ f.td.op \in {"|", "&"} /\ nonEmptyType(Callers, f.td.op, t, env)
          \/ f.td.op = "?" /\ Return(Callers, t \cup Basic("null"))
          \/ f.td.op = "(" /\ Return(Callers, t)
    /\ UNCHANGED <<symbols, types>>

\* The first of the types that were produced for a definition is used.
FirstType(n, t) == IF semType[n] = Unresolved THEN t ELSE semType[n]

FinishTypeDefn ==
    /\ Finished("type")
    /\ LET n == Top.name
           t == FirstType(n, Top.types[1])
       IN /\ semType' = [semType EXCEPT ![n] = t]
          /\ cycleDepth' = IF semType[n] = Unresolved THEN [cycleDepth EXCEPT ![n] = -1] ELSE cycleDepth
          /\ Return(Callers, t)
    /\ UNCHANGED <<resolved, types>>

FinishConstDefn ==
    /\ Finished("const")
    /\ resolved' = [resolved EXCEPT ![Top.name] = "value"]
    /\ Return(Callers, Basic(Top.name))
    /\ UNCHANGED <<semType, cycleDepth, types>>

FinishSignature ==
    /\ Finished("signature")
    /\ Return(Callers, {})
    /\ UNCHANGED <<symbols, types>>

-----------------------------------------------------------------------------

(* resolveTypes *)

resolveDefn ==
    /\ calls = <<>> /\ next <= Len(program.order)
    /\ LET n == program.order[next]
       IN \/ Defn(n).kind = "type" /\ EnterTypeDefn(n, 0)
          \/ Defn(n).kind = "const" /\ EnterConstDefn(n)
          \/ /\ Defn(n).kind = "function"
             /\ calls' = <<Activation("signature", n, <<n>>, NoTd, 0)>>
             /\ UNCHANGED <<symbols, types, checks, outcome>>
    /\ next' = next + 1

finishDeferredEmptinessChecks ==
    /\ calls = <<>> /\ next > Len(program.order)
    /\ Fail(IF ~ isReady(env) THEN "panic"
            ELSE IF deferred # <<>> /\ ~ AllDefined(env) THEN "panic"
            ELSE IF emptyNonCyclic \/ \E i \in DOMAIN deferred : IsEmpty(env, deferred[i].semType)
                 THEN "empty"
            ELSE "ok")
    /\ UNCHANGED next

Next ==
    /\ outcome = "running"
    /\ \/ resolveDefn \/ Operand \/ DefineConstructor \/ CombineOperands
       \/ FinishTypeDefn \/ FinishConstDefn \/ FinishSignature \/ finishDeferredEmptinessChecks
    /\ UNCHANGED program

Spec == Init /\ [][Next]_vars

-----------------------------------------------------------------------------

\* The comment on Env.isReady: it is ready only if all the recursive atoms that
\* have been allocated have been defined (core.bal:64).
ReadyWhenDefined == isReady(env) <=> AllDefined(env)
=============================================================================

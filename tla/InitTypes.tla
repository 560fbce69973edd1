----------------------------- MODULE InitTypes -----------------------------
(***************************************************************************)
(* The types of a program at run time: the symbols that the modules of a   *)
(* program use for types (nback/scaffold.bal), their definitions in the    *)
(* init module (nback/init.bal), and the type tests of the runtime that    *)
(* read them.                                                              *)
(*                                                                         *)
(* A type is [all, some]: the basic types all of whose values belong to    *)
(* it, and atomic types of lists, mappings and functions; it is the union  *)
(* of them.  Subtypes of the other basic types are left out.               *)
(***************************************************************************)
EXTENDS Integers, Sequences, FiniteSets, Functions

CONSTANTS
    AtomicType,         \* the atomic types of lists, mappings and functions
    Subtyping,          \* each with the sets of them of which it is a subtype
    FillerMemo          \* each with the structures in its filler (t:filler)

VARIABLES
    modules,            \* the modules, with their uses of types
    usage,              \* what buildInitTypes is doing
    queue,              \* the symbols that are still to be added for this usage
    descriptors,        \* the constructed types whose definition is to be added
    constructTypeDefns, \* by kind, the types that have a descriptor: by tid
    complexTypeDefns,   \* the types that have a ComplexType
    subtypeDefns,       \* what the subtypes of one basic type are tested by
    madeSymbols,        \* how many symbols TypeSymbolConstructor has made
    globals             \* the symbols of the init module with their values

typeVars == <<modules, usage, queue, descriptors, constructTypeDefns,
              complexTypeDefns, subtypeDefns, madeSymbols, globals>>

Kinds == {"list", "mapping", "function"}
Kind(a) == AtomicType[a].kind

Never == [all |-> {}, some |-> {}]
IsBitSet(t) == t.some = {}

\* t:isSubtype for an atomic type and the union of some of its kind.
isSubtype(a, S) == <<a, S>> \in Subtyping

\* The structures in the filler of a type.
FillerTypes(t) ==
    LET memo == {f \in FillerMemo : t = [all |-> {}, some |-> {f[1]}]}
    IN IF memo = {} THEN <<>> ELSE (CHOOSE f \in memo : TRUE)[2]

-----------------------------------------------------------------------------

(* The uses of types in a module: a use is [type, how]. *)

\* The index of a type in usedSemTypes, 0 if it is not there.
UsedIndex(used, t) ==
    LET at == {i \in DOMAIN used : used[i].type = t}
    IN IF at = {} THEN 0 ELSE CHOOSE i \in at : TRUE

\* getConstructType, getExactify and getTypeTest.
getUsedSemType(used, use) ==
    LET i == UsedIndex(used, use.type)
    IN IF i = 0 THEN Append(used, [type |-> use.type, how |-> {use.how}])
       ELSE [used EXCEPT ![i] = [type |-> use.type, how |-> used[i].how \cup {use.how}]]

createTypeUsage(uses) ==
    LET used[i \in 0 .. Len(uses)] == IF i = 0 THEN <<>> ELSE getUsedSemType(used[i - 1], uses[i])
    IN used[Len(uses)]

\* The symbols that the code of the module refers to, with the types it means.
References(id, uses) ==
    { [symbol |-> <<id, uses[i].how, UsedIndex(createTypeUsage(SubSeq(uses, 1, i)), uses[i].type)>>,
       type |-> uses[i].type] : i \in DOMAIN uses }

-----------------------------------------------------------------------------

(* Subtypes: what is tested for a set of atomic types of one kind. *)

Unfinished == [test |-> "unfinished"]

\* The types are numbered from 0.
Tid(defns, a) == (CHOOSE i \in DOMAIN defns[Kind(a)] : defns[Kind(a)][i] = a) - 1

\* The tids of the constructed types that are subtypes, in ascending order.
createPrecomputedSubtypeStruct(defns, kind, S) ==
    LET tids == [i \in DOMAIN defns[kind] |-> i - 1]
    IN [test |-> "precomputed",
        tids |-> SelectSeq(tids, LAMBDA tid : isSubtype(defns[kind][tid + 1], S))]

AllBitSets(types) == \A i \in DOMAIN types : IsBitSet(types[i])

createSubtypeStruct(defns, kind, S) ==
    LET a == AtomicType[CHOOSE a \in S : TRUE]
        atomic == \A b \in S : AtomicType[b] = a
    IN CASE atomic /\ kind \in {"list", "mapping"} /\ a.members = <<>> /\ IsBitSet(a.rest)
                   /\ ~ (kind = "mapping" /\ a.rest = Never) ->
              [test |-> kind, bitSet |-> a.rest.all]
         [] atomic /\ kind = "mapping" /\ a.rest = Never /\ AllBitSets(a.members) ->
              [test |-> "record", names |-> a.names, fields |-> a.members]
         [] atomic /\ kind = "function" /\ IsBitSet(a.returns) /\ a.restList = {} /\ AllBitSets(a.members) ->
              [test |-> "function", returns |-> a.returns, params |-> a.members]
         [] OTHER -> createPrecomputedSubtypeStruct(defns, kind, S)

Subtypes(types) ==
    {<<kind, {a \in t.some : Kind(a) = kind}>> : kind \in Kinds, t \in types} \ {<<kind, {}>> : kind \in Kinds}

\* Mutant: a subtype is always finished at once.
getBasicSubtype_Early(defns, complete, kind, S) == createSubtypeStruct(defns, kind, S)

\* Subtypes that are met before the construct types are complete are finished
\* later.
getBasicSubtype(defns, complete, kind, S) ==
    IF complete THEN createSubtypeStruct(defns, kind, S) ELSE Unfinished

\* addComplexTypeDefn for those of the types that are not there.
AddComplexTypeDefns(types, defns, complete) ==
    LET added == {t \in types : ~ IsBitSet(t)} \ complexTypeDefns
    IN /\ complexTypeDefns' = complexTypeDefns \cup added
       /\ subtypeDefns' =
            [s \in DOMAIN subtypeDefns \cup Subtypes(added) |->
                IF s \in DOMAIN subtypeDefns THEN subtypeDefns[s]
                ELSE getBasicSubtype(defns, complete, s[1], s[2])]

-----------------------------------------------------------------------------

(* buildInitTypes *)

\* The symbols of all modules for types that are used in this way, in order.
Symbols(ms, how) ==
    LET Uses(m) ==
            SelectSeq([i \in DOMAIN ms[m].types |->
                          [module |-> m, index |-> i, type |-> ms[m].types[i].type, how |-> ms[m].types[i].how]],
                      LAMBDA u : how \in u.how)
        upTo[m \in 0 .. Len(ms)] == IF m = 0 THEN <<>> ELSE upTo[m - 1] \o Uses(m)
    IN upTo[Len(ms)]

Symbol(u, how) == <<modules[u.module].id, how, u.index>>

TheAtom(t) == CHOOSE a \in t.some : TRUE

IsDefined(a) == \E i \in DOMAIN constructTypeDefns[Kind(a)] : constructTypeDefns[Kind(a)][i] = a

TypesInit ==
    /\ modules = <<>>
    /\ usage = "none"
    /\ queue = <<>>
    /\ descriptors = <<>>
    /\ constructTypeDefns = [kind \in Kinds |-> <<>>]
    /\ complexTypeDefns = {}
    /\ subtypeDefns = [s \in {} |-> Unfinished]
    /\ madeSymbols = <<>>
    /\ globals = {}

\* buildInitModule is called with the modules of the program.
buildInitTypes(ms) ==
    /\ modules' = ms
    /\ usage' = "construct"
    /\ queue' = Symbols(ms, "construct")
    /\ madeSymbols' = [m \in DOMAIN ms |-> 0]
    /\ UNCHANGED <<descriptors, constructTypeDefns, complexTypeDefns, subtypeDefns, globals>>

addConstructTypeSymbol ==
    /\ usage = "construct" /\ descriptors = <<>> /\ queue # <<>>
    /\ LET u == Head(queue)
           a == TheAtom(u.type)
       IN IF IsDefined(a)
          THEN /\ globals' = globals \cup {[symbol |-> Symbol(u, "construct"), atom |-> a]}
               /\ UNCHANGED descriptors
          ELSE /\ descriptors' = <<[atom |-> a, module |-> u.module, symbol |-> Symbol(u, "construct")]>>
               /\ UNCHANGED globals
    /\ queue' = Tail(queue)
    /\ UNCHANGED <<modules, usage, constructTypeDefns, complexTypeDefns, subtypeDefns, madeSymbols>>

\* Mutant: the symbols that are made up start at the last type of the module.
MadeIndex_OffByOne(m) == Len(modules[m].types) + madeSymbols[m]

\* construct of TypeSymbolConstructor.
MadeIndex(m) == Len(modules[m].types) + madeSymbols[m] + 1

\* The symbol of a type that is met in the descriptor of another one.
SymbolOf(d) ==
    CASE d.symbol = <<"filler">> -> <<"filler", Kind(d.atom), Len(constructTypeDefns[Kind(d.atom)])>>
      [] d.symbol = <<"rest">> -> <<modules[d.module].id, "construct", MadeIndex(d.module)>>
      [] OTHER -> d.symbol

Need(d, b, symbol) == [atom |-> b, module |-> d.module, symbol |-> symbol]

\* createUniformFunction: the type of the list of rest arguments, if there is one.
RestArgList(d) ==
    LET restList == AtomicType[d.atom].restList
    IN [i \in 1 .. Cardinality(restList) |-> Need(d, CHOOSE b \in restList : TRUE, <<"rest">>)]

\* The fillers that the descriptor of a list or a mapping needs.
FillersOf(d) ==
    LET fillers == FillerTypes(AtomicType[d.atom].rest)
    IN [i \in DOMAIN fillers |-> Need(d, fillers[i], <<"filler">>)]

\* The constructed types that the descriptor of a type needs, first of all.
Needed(d) == IF Kind(d.atom) = "function" THEN RestArgList(d) ELSE FillersOf(d)

MemberTypes(a) == Range(a.members) \cup {a.rest} \cup (IF a.kind = "function" THEN {a.returns} ELSE {})

\* addConstructTypeDefn, with createListDescInit and its likes: the type is in the
\* table before its members are looked at.
addConstructTypeDefn ==
    /\ descriptors # <<>>
    /\ LET d == Head(descriptors)
           kind == Kind(d.atom)
           defns == [constructTypeDefns EXCEPT ![kind] = Append(constructTypeDefns[kind], d.atom)]
       IN IF IsDefined(d.atom)
          THEN /\ descriptors' = Tail(descriptors)
               /\ UNCHANGED <<constructTypeDefns, complexTypeDefns, subtypeDefns, globals, madeSymbols>>
          ELSE /\ constructTypeDefns' = defns
               /\ globals' = globals \cup {[symbol |-> SymbolOf(d), atom |-> d.atom]}
               /\ madeSymbols' = IF d.symbol = <<"rest">>
                                 THEN [madeSymbols EXCEPT ![d.module] = madeSymbols[d.module] + 1]
                                 ELSE madeSymbols
               /\ AddComplexTypeDefns(MemberTypes(AtomicType[d.atom]), defns, FALSE)
               /\ descriptors' = Needed(d) \o Tail(descriptors)
    /\ UNCHANGED <<modules, usage, queue>>

\* constructTypesComplete: no descriptor is added from here on.
finishSubtypeDefns ==
    /\ usage = "construct" /\ descriptors = <<>> /\ queue = <<>>
    /\ subtypeDefns' =
         [s \in DOMAIN subtypeDefns |->
            IF subtypeDefns[s] = Unfinished THEN createSubtypeStruct(constructTypeDefns, s[1], s[2])
                                            ELSE subtypeDefns[s]]
    /\ usage' = "exactify"
    /\ queue' = Symbols(modules, "exactify")
    /\ UNCHANGED <<modules, descriptors, constructTypeDefns, complexTypeDefns, madeSymbols, globals>>

addExactifyTypeSymbol ==
    /\ usage = "exactify"
    /\ IF queue = <<>>
       THEN /\ usage' = "test"
            /\ queue' = Symbols(modules, "test")
            /\ UNCHANGED globals
       ELSE LET u == Head(queue)
                a == TheAtom(u.type)
                tid == IF IsDefined(a) THEN Tid(constructTypeDefns, a) ELSE -1
            IN /\ globals' = globals \cup {[symbol |-> Symbol(u, "exactify"), tid |-> tid]}
               /\ queue' = Tail(queue)
               /\ UNCHANGED usage
    /\ UNCHANGED <<modules, descriptors, constructTypeDefns, complexTypeDefns, subtypeDefns, madeSymbols>>

addTypeTestTypeSymbol ==
    /\ usage = "test"
    /\ IF queue = <<>>
       THEN /\ usage' = "built"
            /\ UNCHANGED <<queue, globals, complexTypeDefns, subtypeDefns>>
       ELSE LET u == Head(queue)
            IN /\ AddComplexTypeDefns({u.type}, constructTypeDefns, TRUE)
               /\ globals' = globals \cup {[symbol |-> Symbol(u, "test"), type |-> u.type]}
               /\ queue' = Tail(queue)
               /\ UNCHANGED usage
    /\ UNCHANGED <<modules, descriptors, constructTypeDefns, madeSymbols>>

TypesNext ==
    \/ addConstructTypeSymbol
    \/ addConstructTypeDefn
    \/ finishSubtypeDefns
    \/ addExactifyTypeSymbol
    \/ addTypeTestTypeSymbol

-----------------------------------------------------------------------------

(* The type tests of the runtime, for a structure by its inherent type. *)

memberBitSet(t) == t.all \cup {Kind(a) : a \in t.some}

memberTypeIsSubtypeSimple(t, bitSet) == memberBitSet(t) \subseteq bitSet

memberTypeIsSupertypeSimple(t, bitSet) == bitSet \subseteq memberBitSet(t)

\* The binary search, with the half-open interval from start to end.
tidListContains(tids, tid) ==
    LET search[start \in 0 .. Len(tids), end \in 0 .. Len(tids)] ==
            LET mid == start + (end - start) \div 2
            IN CASE start >= end -> FALSE
                 [] start < end /\ tids[mid + 1] = tid -> TRUE
                 [] start < end /\ tids[mid + 1] > tid -> search[start, mid]
                 [] OTHER -> search[mid + 1, end]
    IN search[0, Len(tids)]

precomputed_subtype_contains(s, a) == tidListContains(s.tids, Tid(constructTypeDefns, a))

array_subtype_contains(s, a) ==
    /\ \A t \in Range(AtomicType[a].members) : memberTypeIsSubtypeSimple(t, s.bitSet)
    /\ memberTypeIsSubtypeSimple(AtomicType[a].rest, s.bitSet)

\* The same of the fields of a mapping.
map_subtype_contains(s, a) == array_subtype_contains(s, a)

record_subtype_contains(s, a) ==
    LET d == AtomicType[a]
    IN /\ Len(s.names) = Len(d.names)
       /\ \A i \in DOMAIN d.names :
            s.names[i] = d.names[i] /\ memberTypeIsSubtypeSimple(d.members[i], s.fields[i].all)

function_subtype_contains(s, a) ==
    LET d == AtomicType[a]
        Param(i) == IF i <= Len(d.members) THEN d.members[i] ELSE d.rest
    IN /\ memberTypeIsSubtypeSimple(d.returns, s.returns.all)
       /\ Len(d.members) <= Len(s.params)
       /\ \A i \in DOMAIN s.params : memberTypeIsSupertypeSimple(Param(i), s.params[i].all)

subtype_contains(s, a) ==
    CASE s.test = "precomputed" -> precomputed_subtype_contains(s, a)
      [] s.test = "list" -> array_subtype_contains(s, a)
      [] s.test = "mapping" -> map_subtype_contains(s, a)
      [] s.test = "record" -> record_subtype_contains(s, a)
      [] s.test = "function" -> function_subtype_contains(s, a)

complexTypeContainsTagged(t, a) ==
    LET some == {b \in t.some : Kind(b) = Kind(a)}
    IN \/ Kind(a) \in t.all
       \/ some # {} /\ subtype_contains(subtypeDefns[<<Kind(a), some>>], a)

-----------------------------------------------------------------------------

Constructed == UNION {Range(constructTypeDefns[kind]) : kind \in Kinds}

\* A structure passes a type test, and may be stored as a member, iff its inherent
\* type is a subtype: for every test in every module and every structure that any
\* module or filler constructs (createSubtypeStruct of init.bal, and the functions
\* named _subtype_contains).
TypeTestsDecide ==
    usage = "built" =>
        \A t \in complexTypeDefns : \A a \in Constructed :
            complexTypeContainsTagged(t, a)
              <=> \/ Kind(a) \in t.all
                  \/ isSubtype(a, {b \in t.some : Kind(b) = Kind(a)})
=============================================================================

------------------------------ MODULE Compile ------------------------------
(***************************************************************************)
(* The driver (compile.bal): it compiles the root module and, depth first, *)
(* the modules that are imported, each of them once; emits each as soon as *)
(* its imports are; and has the init module built at the end.              *)
(***************************************************************************)
EXTENDS InitTypes

CONSTANTS
    Modules,            \* the submodules, and the root
    Root,               \* DEFAULT_ROOT_MODULE_ID
    Io, Foreign,        \* BALLERINA_IO, and any other module outside the program
    Programs            \* source trees: of each module its imports, state and
                        \* uses of types, and whether main may be the entry point

VARIABLES
    program,            \* the source tree
    result,             \* Job.result of each submodule, "none" if there is none
    calls,              \* the activations of processModule, the innermost last
    programModules,     \* what emitModule has been given
    outcome             \* of compileBalFile

driverVars == <<program, result, calls, programModules, outcome>>

vars == <<driverVars, typeVars>>

\* What the source of a module may be: there is no such directory, it has no
\* parts, scanning or resolving finds an error, or building does.
States == {"ok", "unreadable", "empty", "unscannable", "invalid", "unbuildable"}

ASSUME ModulesAssumption ==
    IsFiniteSet(Modules) /\ Root \in Modules /\ Modules \cap {Io, Foreign} = {} /\ Io # Foreign

ASSUME ProgramsAssumption ==
    \A p \in Programs :
        /\ p.imports \in [Modules -> Seq(Modules \cup {Io, Foreign})]
        /\ p.state \in [Modules -> States]

Init ==
    /\ program \in Programs
    /\ result = [m \in Modules |-> "none"]
    /\ calls = <<[id |-> Root, resolvedImports |-> <<>>]>>
    /\ programModules = <<>>
    /\ outcome = IF program.state[Root] = "unscannable" THEN "unscannable" ELSE "running"
    /\ TypesInit

Top == calls[Len(calls)]
Imports(m) == program.imports[m]

-----------------------------------------------------------------------------

\* processModule goes on with what resolveImport returned.
Resolved(cs, r) ==
    [cs EXCEPT ![Len(cs)] = [id |-> cs[Len(cs)].id,
                             resolvedImports |-> Append(cs[Len(cs)].resolvedImports, r)]]

Fail(error) ==
    /\ outcome' = error
    /\ UNCHANGED <<program, result, calls, programModules, typeVars>>

-----------------------------------------------------------------------------

\* What is known without compiling the module.
KnownImport(id) ==
    CASE id = Root -> "import cycle"
      [] id \in {Io, Foreign} -> "nil"
      [] OTHER -> result[id]

Started(id) == [result EXCEPT ![id] = "in progress"]

\* resolveImport for a module that is being compiled, further out.
ImportCycle(id) ==
    /\ KnownImport(id) = "in progress"
    /\ result' = [result EXCEPT ![id] = "import cycle"]
    /\ calls' = Resolved(calls, "import cycle")
    /\ UNCHANGED <<program, programModules, outcome, typeVars>>

\* resolveImport for a module that needs no compilation, or no more.
ImportKnown(id) ==
    /\ KnownImport(id) \notin {"none", "in progress"}
    /\ calls' = Resolved(calls, KnownImport(id))
    /\ UNCHANGED <<program, result, programModules, outcome, typeVars>>

\* processImport up to the imports of the module.
processImport(id) ==
    /\ KnownImport(id) = "none"
    /\ \/ /\ program.state[id] \in {"unreadable", "unscannable"}
          /\ Fail(program.state[id])
       \/ /\ program.state[id] = "empty"
          /\ result' = [result EXCEPT ![id] = "no module parts found"]
          /\ calls' = Resolved(calls, "no module parts found")
          /\ UNCHANGED <<program, programModules, outcome, typeVars>>
       \/ /\ program.state[id] \in {"ok", "invalid", "unbuildable"}
          /\ result' = Started(id)
          /\ calls' = Append(calls, [id |-> id, resolvedImports |-> <<>>])
          /\ UNCHANGED <<program, programModules, outcome, typeVars>>

resolveImport ==
    /\ outcome = "running" /\ calls # <<>>
    /\ Len(Top.resolvedImports) < Len(Imports(Top.id))
    /\ LET id == Imports(Top.id)[Len(Top.resolvedImports) + 1]
       IN ImportCycle(id) \/ ImportKnown(id) \/ processImport(id)

-----------------------------------------------------------------------------

(* resolveModule and emitModule, when all imports are resolved. *)

\* Mutant: a module outside the program is taken for one that exports nothing.
BadImports_Foreign ==
    {i \in DOMAIN Top.resolvedImports :
        Imports(Top.id)[i] # Io /\ Top.resolvedImports[i] \notin {"exports", "nil"}}

\* The imports that importPartPrefixes rejects.
BadImports ==
    {i \in DOMAIN Top.resolvedImports :
        Imports(Top.id)[i] # Io /\ Top.resolvedImports[i] # "exports"}

ImportsResolved ==
    /\ outcome = "running" /\ calls # <<>>
    /\ Len(Top.resolvedImports) = Len(Imports(Top.id))

resolveModuleFails ==
    /\ ImportsResolved
    /\ \/ \E first \in BadImports :
            /\ \A i \in BadImports : first <= i
            /\ LET r == Top.resolvedImports[first]
               IN Fail(IF r = "nil" THEN "unsupported module" ELSE r)
       \/ /\ BadImports = {} /\ program.state[Top.id] \in {"invalid", "unbuildable"}
          /\ Fail(program.state[Top.id])

\* Mutant: the exports are returned to the importer and not kept in the job.
Exported_Forgotten(id) == [result EXCEPT ![id] = "none"]

Exported(id) == [result EXCEPT ![id] = "exports"]

emitModule ==
    /\ ImportsResolved /\ BadImports = {} /\ program.state[Top.id] = "ok"
    /\ programModules' =
         Append(programModules, [id |-> Top.id, types |-> createTypeUsage(program.uses[Top.id])])
    /\ IF Len(calls) = 1
       THEN calls' = <<>> /\ UNCHANGED result
       ELSE /\ calls' = Resolved(SubSeq(calls, 1, Len(calls) - 1), "exports")
            /\ result' = Exported(Top.id)
    /\ UNCHANGED <<program, outcome, typeVars>>

-----------------------------------------------------------------------------

Reversed(ms) == [i \in DOMAIN ms |-> ms[Len(ms) - i + 1]]

\* compileBalFile after processModule; the init module calls main of the first
\* module it is given.
finalize ==
    /\ outcome = "running" /\ calls = <<>>
    /\ IF program.validMain
       THEN /\ outcome' = "ok"
            /\ buildInitTypes(Reversed(programModules))
            /\ UNCHANGED <<program, result, calls, programModules>>
       ELSE Fail("invalid main")

\* The compiler has exited.
Exited ==
    /\ usage = "built" \/ outcome \notin {"running", "ok"}
    /\ UNCHANGED vars

Next ==
    \/ resolveImport
    \/ resolveModuleFails
    \/ emitModule
    \/ finalize
    \/ TypesNext /\ UNCHANGED driverVars
    \/ Exited

Spec == Init /\ [][Next]_vars

-----------------------------------------------------------------------------

ImportsOf(m) == Range(Imports(m)) \cap Modules

\* The modules that are imported, directly or not, by those of S.
ImportedFrom(S) ==
    LET Closed(R) == \A m \in S \cup R : ImportsOf(m) \subseteq R
        closed == {R \in SUBSET Modules : Closed(R)}
    IN CHOOSE R \in closed : \A Q \in closed : R \subseteq Q

Reachable == {Root} \cup ImportedFrom({Root})

Cyclic == \E m \in Reachable : m \in ImportedFrom({m})

Compilable ==
    /\ program.validMain
    /\ ~ Cyclic
    /\ \A m \in Reachable : program.state[m] = "ok" /\ Foreign \notin Range(Imports(m))

\* A program is compiled iff all of its modules can be and no module imports itself
\* through others; an import cycle is reported only if there is one, and an error in
\* a module only if it is used (resolveImport, line 129, and its uses of check).
OutcomeRight ==
    outcome # "running" =>
        /\ outcome = "ok" <=> Compilable
        /\ outcome = "import cycle" => Cyclic
        /\ outcome \in States \ {"ok"} => \E m \in Reachable : program.state[m] = outcome

\* Each module is emitted once and after the modules it imports, although modules
\* are reached along several paths, and the root is emitted last, which is why the
\* init module finds main in the first of the reversed modules (lines 54 and 125,
\* init.bal:162).
EmittedInOrder ==
    /\ \A i, j \in DOMAIN programModules : programModules[i].id = programModules[j].id => i = j
    /\ \A i \in DOMAIN programModules : \A m \in ImportsOf(programModules[i].id) :
         \E j \in 1 .. i - 1 : programModules[j].id = m
    /\ usage # "none" => modules[1].id = Root /\ Len(modules) = Cardinality(Reachable)

\* Every type symbol that the code of some module refers to is defined once in the
\* init module, and stands for the type that was meant where the code was built: the
\* descriptor, the tid of the type (-1 if nothing has the type), or the type test
\* (getUsedSemType in scaffold.bal, buildInitTypesForUsage in init.bal).
SymbolsResolved ==
    usage = "built" =>
        \A m \in DOMAIN modules : \A r \in References(modules[m].id, program.uses[modules[m].id]) :
            LET how == r.symbol[2]
                defined == {g \in globals : g.symbol = r.symbol}
                a == TheAtom(r.type)
            IN defined =
                 { CASE how = "construct" -> [symbol |-> r.symbol, atom |-> a]
                     [] how = "exactify" ->
                          [symbol |-> r.symbol, tid |-> IF IsDefined(a) THEN Tid(constructTypeDefns, a) ELSE -1]
                     [] how = "test" -> [symbol |-> r.symbol, type |-> r.type] }
=============================================================================

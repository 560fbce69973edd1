---------------------------- MODULE CompileProofs ----------------------------
(***************************************************************************)
(* Proofs about Compile: the modules of a program are emitted once and in  *)
(* order, and the outcome is the right one for every graph of imports.     *)
(***************************************************************************)
EXTENDS Compile, FiniteSetTheorems, TLAPS

-----------------------------------------------------------------------------
(* The imports of a program, as functions of the program.                   *)

Edges(p, m) == Range(p.imports[m]) \cap Modules

ClosedSets(p, S) == {R \in SUBSET Modules : \A m \in S \cup R : Edges(p, m) \subseteq R}

\* ImportedFrom.
Reached(p, S) == CHOOSE R \in ClosedSets(p, S) : \A Q \in ClosedSets(p, S) : R \subseteq Q

ReachableIn(p) == {Root} \cup Reached(p, {Root})

CyclicIn(p) == \E m \in ReachableIn(p) : m \in Reached(p, {m})

\* A module that is used is in a certain state.
SomeIs(p, s) == \E m \in ReachableIn(p) : p.state[m] = s

-----------------------------------------------------------------------------
(* The inductive invariant.                                                 *)

Results == {"none", "in progress", "import cycle", "no module parts found", "exports"}

\* What resolveImport may return.
Resolutions == {"import cycle", "no module parts found", "nil", "exports"}

Frame == [id : Modules, resolvedImports : Seq(Resolutions)]

\* What a resolved import says of the import m.
Answer(p, res, m, r) ==
    /\ r = "exports" => m \in Modules /\ m # Root /\ res[m] = "exports"
    /\ r = "nil" => m \in {Io, Foreign}
    /\ r = "import cycle" => CyclicIn(p)
    /\ r = "no module parts found" => SomeIs(p, "empty")

FrameInv(p, res, f) ==
    /\ Len(f.resolvedImports) <= Len(p.imports[f.id])
    /\ \A i \in 1 .. Len(f.resolvedImports) : Answer(p, res, p.imports[f.id][i], f.resolvedImports[i])

\* The module that an activation is waiting for.
Awaits(p, f, m) ==
    /\ Len(f.resolvedImports) < Len(p.imports[f.id])
    /\ p.imports[f.id][Len(f.resolvedImports) + 1] = m

\* The k-th activation.
Activation(p, res, k, f) ==
    /\ f \in Frame /\ f.id \in ReachableIn(p)
    /\ f.id = Root <=> k = 1
    /\ k # 1 => res[f.id] \in {"in progress", "import cycle"}
    /\ FrameInv(p, res, f)

Below(p, m, x) == m # x /\ x \in Reached(p, {m})

\* The activations are of different modules, each imported by the one outside.
StackInv(p, res, cs) ==
    /\ cs \in Seq(Frame)
    /\ \A k \in 1 .. Len(cs) : Activation(p, res, k, cs[k])
    /\ \A k \in 1 .. Len(cs) : k + 1 \in 1 .. Len(cs) => Awaits(p, cs[k], cs[k + 1].id)
    /\ \A k, l \in 1 .. Len(cs) : k < l => Below(p, cs[k].id, cs[l].id)

OnStack(cs, m) == \E k \in 1 .. Len(cs) : cs[k].id = m

IsEmitted(pm, m) == \E i \in 1 .. Len(pm) : pm[i].id = m

\* What the job of a module says about it.
ResultInv(p, res, cs, pm) ==
    /\ res \in [Modules -> Results]
    /\ res[Root] = "none"
    /\ \A m \in Modules :
        /\ res[m] = "in progress" => OnStack(cs, m)
        /\ res[m] = "exports" <=> m # Root /\ IsEmitted(pm, m)
        /\ res[m] = "import cycle" => CyclicIn(p)
        /\ res[m] = "no module parts found" => SomeIs(p, "empty")

Emitted(p, m) == [id |-> m, types |-> createTypeUsage(p.uses[m])]

\* The i-th module has what it needs to be compiled.
EmittedAt(p, pm, i) ==
    /\ \A m \in Edges(p, pm[i].id) : \E j \in 1 .. (i - 1) : pm[j].id = m
    /\ pm[i].id \in ReachableIn(p) /\ p.state[pm[i].id] = "ok"
    /\ Foreign \notin Range(p.imports[pm[i].id])

EmittedInv(p, cs, pm) ==
    /\ pm \in Seq({Emitted(p, m) : m \in Modules})
    /\ \A i, j \in 1 .. Len(pm) : pm[i].id = pm[j].id => i = j
    /\ \A i \in 1 .. Len(pm) : EmittedAt(p, pm, i)
    /\ \A i \in 1 .. Len(pm) : pm[i].id = Root => cs = <<>> /\ i = Len(pm)
    /\ cs = <<>> => Len(pm) > 0 /\ pm[Len(pm)].id = Root

\* Why a compilation ends without a program.
Refused(p, o) ==
    \/ o = "import cycle" /\ CyclicIn(p)
    \/ o \in States \ {"ok"} /\ SomeIs(p, o)
    \/ o = "no module parts found" /\ SomeIs(p, "empty")
    \/ o = "unsupported module" /\ \E m \in ReachableIn(p) : Foreign \in Range(p.imports[m])
    \/ o = "invalid main" /\ ~ p.validMain

CompileInv ==
    /\ program \in Programs
    /\ StackInv(program, result, calls)
    /\ ResultInv(program, result, calls, programModules)
    /\ EmittedInv(program, calls, programModules)
    /\ \/ outcome = "running"
       \/ outcome = "ok" /\ calls = <<>> /\ program.validMain
       \/ Refused(program, outcome)
    /\ usage # "none" => outcome = "ok" /\ modules = Reversed(programModules)

-----------------------------------------------------------------------------
(* Lemmas about imports.                                                    *)

\* The imports of a program, by module.
LEMMA ProgramFacts ==
    ASSUME NEW p \in Programs
    PROVE  /\ \A m \in Modules : /\ p.imports[m] \in Seq(Modules \cup {Io, Foreign})
                                 /\ Len(p.imports[m]) \in Nat
                                 /\ p.state[m] \in States
           /\ \A m : Edges(p, m) \subseteq Modules
           /\ \A m \in Modules : \A i \in 1 .. Len(p.imports[m]) :
                p.imports[m][i] \in Modules => p.imports[m][i] \in Edges(p, m)
<1>1. \A m \in Modules : /\ p.imports[m] \in Seq(Modules \cup {Io, Foreign})
                         /\ p.state[m] \in States
  BY ProgramsAssumption
<1>2. \A m \in Modules : Len(p.imports[m]) \in Nat /\ DOMAIN p.imports[m] = 1 .. Len(p.imports[m])
  BY <1>1
<1> QED
  BY <1>1, <1>2 DEF Edges, Range

\* There is a least closed set: the intersection of all of them.
LEMMA ReachedLeast ==
    ASSUME NEW p, NEW S
    PROVE  /\ Reached(p, S) \in ClosedSets(p, S)
           /\ \A Q \in ClosedSets(p, S) : Reached(p, S) \subseteq Q
<1> DEFINE least == {m \in Modules : \A Q \in ClosedSets(p, S) : m \in Q}
<1>1. \A Q \in ClosedSets(p, S) : least \subseteq Q
  OBVIOUS
<1>2. least \in ClosedSets(p, S)
  <2> SUFFICES ASSUME NEW m \in S \cup least, NEW x \in Edges(p, m) PROVE x \in least
    BY DEF ClosedSets
  <2>1. x \in Modules
    BY DEF Edges
  <2>2. ASSUME NEW Q \in ClosedSets(p, S) PROVE x \in Q
    BY <2>1 DEF ClosedSets
  <2> QED
    BY <2>1, <2>2
<1> QED
  BY <1>1, <1>2 DEF Reached

\* What is imported is reached, and so is what that imports.
LEMMA ReachedStep ==
    ASSUME NEW p, NEW S
    PROVE  /\ \A m \in S : Edges(p, m) \subseteq Reached(p, S)
           /\ \A m \in Reached(p, S) : Edges(p, m) \subseteq Reached(p, S)
           /\ Reached(p, S) \subseteq Modules
BY ReachedLeast DEF ClosedSets

\* A module that is reached from one that is reached.
LEMMA ReachedFurther ==
    ASSUME NEW p, NEW a \in ReachableIn(p), NEW x \in Edges(p, a)
    PROVE  x \in ReachableIn(p) /\ x \in Modules
BY ReachedStep DEF ReachableIn

LEMMA ReachableModules ==
    ASSUME NEW p
    PROVE  ReachableIn(p) \subseteq Modules /\ Root \in ReachableIn(p)
BY ReachedStep, ModulesAssumption DEF ReachableIn

\* The definitions of the specification are those of this module.
LEMMA SameReachability ==
    /\ \A m : ImportsOf(m) = Edges(program, m)
    /\ \A S : ImportedFrom(S) = Reached(program, S)
    /\ Reachable = ReachableIn(program)
    /\ Cyclic <=> CyclicIn(program)
<1>1. \A m : ImportsOf(m) = Edges(program, m)
  BY DEF ImportsOf, Imports, Edges
<1>2. \A S : ImportedFrom(S) = Reached(program, S)
  BY DEF ImportedFrom, Reached, ClosedSets, ImportsOf, Imports, Edges
<1>3. Reachable = ReachableIn(program)
  BY <1>2 DEF Reachable, ReachableIn
<1> QED
  BY <1>1, <1>2, <1>3, Zenon DEF Cyclic, CyclicIn

-----------------------------------------------------------------------------
(* Lemmas about the activations.                                            *)

\* processModule goes on: only the innermost activation changes, by one more result.
LEMMA ResolvedShape ==
    ASSUME NEW cs \in Seq(Frame), Len(cs) > 0, NEW r \in Resolutions
    PROVE  /\ Resolved(cs, r) \in Seq(Frame) /\ Len(Resolved(cs, r)) = Len(cs)
           /\ \A k \in 1 .. Len(cs) : k # Len(cs) => Resolved(cs, r)[k] = cs[k]
           /\ Resolved(cs, r)[Len(cs)].id = cs[Len(cs)].id
           /\ Resolved(cs, r)[Len(cs)].resolvedImports = Append(cs[Len(cs)].resolvedImports, r)
<1> DEFINE n == Len(cs)
           top == [id |-> cs[n].id, resolvedImports |-> Append(cs[n].resolvedImports, r)]
<1>1. n \in Nat /\ n \in 1 .. n /\ cs[n] \in Frame
  OBVIOUS
<1>2. cs[n].id \in Modules /\ cs[n].resolvedImports \in Seq(Resolutions)
  BY <1>1 DEF Frame
<1>3. Append(cs[n].resolvedImports, r) \in Seq(Resolutions)
  BY <1>2
<1>4. top \in Frame
  BY <1>2, <1>3 DEF Frame
<1>5. Resolved(cs, r) = [cs EXCEPT ![n] = top]
  BY DEF Resolved
<1>6. /\ top.id = cs[n].id /\ top.resolvedImports = Append(cs[n].resolvedImports, r)
  OBVIOUS
<1> HIDE DEF top
<1>7. /\ [cs EXCEPT ![n] = top] \in Seq(Frame) /\ Len([cs EXCEPT ![n] = top]) = n
      /\ \A k \in 1 .. n : [cs EXCEPT ![n] = top][k] = IF k = n THEN top ELSE cs[k]
  BY <1>1, <1>4
<1> QED
  BY <1>1, <1>5, <1>6, <1>7

\* What a frame says stays true while no module loses its exports.
LEMMA FrameKept ==
    ASSUME NEW p, NEW res, NEW res2, NEW f, FrameInv(p, res, f),
           \A m \in Modules : res[m] = "exports" => res2[m] = "exports"
    PROVE  FrameInv(p, res2, f)
BY Zenon DEF FrameInv, Answer

\* One more result in a frame.
LEMMA FrameExtended ==
    ASSUME NEW p \in Programs, NEW res, NEW f \in Frame, NEW g, NEW r \in Resolutions, FrameInv(p, res, f),
           NEW m, Awaits(p, f, m), Answer(p, res, m, r),
           g.id = f.id, g.resolvedImports = Append(f.resolvedImports, r)
    PROVE  FrameInv(p, res, g)
<1> DEFINE rs == f.resolvedImports
           n == Len(rs)
<1>1. f.id \in Modules /\ rs \in Seq(Resolutions) /\ n \in Nat
  BY DEF Frame
<1>2. Len(p.imports[f.id]) \in Nat /\ n < Len(p.imports[f.id]) /\ p.imports[f.id][n + 1] = m
  BY <1>1, ProgramFacts DEF Awaits
<1>3. /\ Len(g.resolvedImports) = n + 1 /\ g.resolvedImports[n + 1] = r
      /\ \A i \in 1 .. n : g.resolvedImports[i] = rs[i]
  BY <1>1
<1>4. \A i \in 1 .. n : Answer(p, res, p.imports[f.id][i], rs[i])
  BY DEF FrameInv
<1> HIDE DEF rs, n
<1>5. ASSUME NEW i \in 1 .. (n + 1) PROVE Answer(p, res, p.imports[g.id][i], g.resolvedImports[i])
  <2>1. CASE i = n + 1
    BY <2>1, <1>2, <1>3
  <2>2. CASE i \in 1 .. n
    BY <2>2, <1>3, <1>4
  <2>3. i = n + 1 \/ i \in 1 .. n
    BY <1>1
  <2> QED
    BY <2>1, <2>2, <2>3, Zenon
<1>6. Len(g.resolvedImports) <= Len(p.imports[g.id])
  BY <1>1, <1>2, <1>3
<1> QED
  BY <1>3, <1>5, <1>6 DEF FrameInv

\* The jobs change, but no module on the stack is finished and none loses its exports.
Compatible(res, res2, cs) ==
    /\ \A m \in Modules : res[m] = "exports" => res2[m] = "exports"
    /\ \A k \in 1 .. Len(cs) : k # 1 => res2[cs[k].id] \in {"in progress", "import cycle"}

LEMMA StackKept ==
    ASSUME NEW p, NEW res, NEW res2, NEW cs, StackInv(p, res, cs), Compatible(res, res2, cs)
    PROVE  StackInv(p, res2, cs)
<1>1. ASSUME NEW k \in 1 .. Len(cs) PROVE Activation(p, res2, k, cs[k])
  <2>1. Activation(p, res, k, cs[k])
    BY DEF StackInv
  <2>2. FrameInv(p, res2, cs[k])
    BY <2>1, FrameKept, Zenon DEF Activation, Compatible
  <2> QED
    BY <2>1, <2>2, Zenon DEF Activation, Compatible
<1> QED
  BY <1>1 DEF StackInv

\* The innermost activation gets what it was waiting for.
LEMMA StackResolved ==
    ASSUME NEW p \in Programs, NEW res, NEW cs, StackInv(p, res, cs), Len(cs) > 0,
           NEW m, Awaits(p, cs[Len(cs)], m), NEW r \in Resolutions, Answer(p, res, m, r)
    PROVE  StackInv(p, res, Resolved(cs, r))
<1> DEFINE n == Len(cs)
           ds == Resolved(cs, r)
<1>1. cs \in Seq(Frame) /\ n \in Nat /\ n \in 1 .. n
  BY DEF StackInv
<1>2. /\ ds \in Seq(Frame) /\ Len(ds) = n
      /\ \A k \in 1 .. n : k # n => ds[k] = cs[k]
      /\ ds[n].id = cs[n].id /\ ds[n].resolvedImports = Append(cs[n].resolvedImports, r)
  BY <1>1, ResolvedShape
<1> HIDE DEF ds
<1>3. \A k \in 1 .. n : ds[k].id = cs[k].id
  BY <1>2
<1>4. ASSUME NEW k \in 1 .. n PROVE Activation(p, res, k, ds[k])
  <2>1. \A j \in 1 .. n : Activation(p, res, j, cs[j])
    BY DEF StackInv
  <2>2. CASE k # n
    BY <2>1, <2>2, <1>2
  <2>3. CASE k = n
    <3>1. Activation(p, res, n, cs[n])
      BY <2>1, <1>1
    <3>2. cs[n] \in Frame /\ FrameInv(p, res, cs[n])
      BY <3>1, Zenon DEF Activation
    <3>3. FrameInv(p, res, ds[n])
      BY <3>2, <1>2, FrameExtended
    <3>4. ds[n] \in Frame
      BY <1>1, <1>2
    <3> QED
      BY <3>1, <3>3, <3>4, <2>3, <1>2, Zenon DEF Activation
  <2> QED
    BY <2>2, <2>3
<1>5. \A k \in 1 .. n : k + 1 \in 1 .. n => Awaits(p, ds[k], ds[k + 1].id)
  <2> SUFFICES ASSUME NEW k \in 1 .. n, k + 1 \in 1 .. n PROVE Awaits(p, ds[k], ds[k + 1].id)
    OBVIOUS
  <2>1. k # n
    BY <1>1
  <2>2. ds[k] = cs[k] /\ ds[k + 1].id = cs[k + 1].id
    BY <2>1, <1>2, <1>3
  <2> QED
    BY <2>2 DEF StackInv
<1>6. \A k, l \in 1 .. n : k < l => Below(p, ds[k].id, ds[l].id)
  BY <1>3 DEF StackInv
<1>7. StackInv(p, res, ds)
  BY <1>2, <1>4, <1>5, <1>6 DEF StackInv
<1> QED
  BY <1>7 DEF ds

\* A module that is reached from one that is on the stack.
LEMMA TopReaches ==
    ASSUME NEW p \in Programs, NEW res, NEW cs, StackInv(p, res, cs), Len(cs) > 0,
           NEW m \in Modules, Awaits(p, cs[Len(cs)], m)
    PROVE  /\ m \in ReachableIn(p)
           /\ \A k \in 1 .. Len(cs) : m \in Reached(p, {cs[k].id})
<1> DEFINE n == Len(cs)
<1>1. cs \in Seq(Frame) /\ n \in Nat /\ n \in 1 .. n /\ cs[n] \in Frame
  <2>1. cs \in Seq(Frame)
    BY DEF StackInv
  <2> QED
    BY <2>1
<1>2. cs[n].id \in Modules /\ cs[n].resolvedImports \in Seq(Resolutions)
  BY <1>1 DEF Frame
<1>3. m \in Edges(p, cs[n].id)
  <2>1. /\ Len(cs[n].resolvedImports) + 1 \in 1 .. Len(p.imports[cs[n].id])
        /\ p.imports[cs[n].id][Len(cs[n].resolvedImports) + 1] = m
    BY <1>2, ProgramFacts DEF Awaits
  <2> QED
    BY <2>1, <1>2, ProgramFacts
<1>4. cs[n].id \in ReachableIn(p)
  BY <1>1, Zenon DEF StackInv, Activation
<1>5. ASSUME NEW k \in 1 .. n PROVE m \in Reached(p, {cs[k].id})
  <2>1. CASE k = n
    BY <2>1, <1>3, ReachedStep
  <2>2. CASE k < n
    <3>1. cs[n].id \in Reached(p, {cs[k].id})
      BY <2>2, <1>1 DEF StackInv, Below
    <3> QED
      BY <3>1, <1>3, ReachedStep
  <2> QED
    BY <2>1, <2>2, <1>1
<1> QED
  BY <1>3, <1>4, <1>5, ReachedFurther

\* processImport starts a module.
LEMMA StackPushed ==
    ASSUME NEW p \in Programs, NEW res \in [Modules -> Results], NEW cs, StackInv(p, res, cs), Len(cs) > 0,
           NEW m \in Modules, m # Root, Awaits(p, cs[Len(cs)], m), res[m] = "none"
    PROVE  StackInv(p, [res EXCEPT ![m] = "in progress"], Append(cs, [id |-> m, resolvedImports |-> <<>>]))
<1> DEFINE n == Len(cs)
           res2 == [res EXCEPT ![m] = "in progress"]
           f == [id |-> m, resolvedImports |-> <<>>]
           ds == Append(cs, f)
<1>1. cs \in Seq(Frame) /\ n \in Nat /\ n \in 1 .. n
  <2>1. cs \in Seq(Frame)
    BY DEF StackInv
  <2> QED
    BY <2>1
<1>2. f \in Frame /\ f.id = m /\ f.resolvedImports = <<>> /\ Len(f.resolvedImports) = 0
  BY DEF Frame
<1>3. res2[m] = "in progress" /\ \A x \in Modules : x # m => res2[x] = res[x]
  OBVIOUS
<1> HIDE DEF f, res2
<1>4. ds \in Seq(Frame) /\ Len(ds) = n + 1 /\ ds[n + 1] = f /\ \A k \in 1 .. n : ds[k] = cs[k]
  BY <1>1, <1>2
<1> HIDE DEF ds
<1>5. \A k \in 1 .. n : Activation(p, res, k, cs[k])
  BY DEF StackInv
<1>6. \A k \in 1 .. n : cs[k].id \in Modules /\ cs[k].id # m
  BY <1>5, Zenon DEF Activation, Frame
<1>7. Compatible(res, res2, cs)
  <2>1. \A x \in Modules : res[x] = "exports" => res2[x] = "exports"
    BY <1>3, Zenon
  <2>2. \A k \in 1 .. n : k # 1 => res2[cs[k].id] \in {"in progress", "import cycle"}
    BY <1>3, <1>5, <1>6, Zenon DEF Activation
  <2> QED
    BY <2>1, <2>2, Zenon DEF Compatible
<1>8. \A k \in 1 .. n : Activation(p, res2, k, cs[k])
  BY <1>7, StackKept, Zenon DEF StackInv
<1>9. m \in ReachableIn(p) /\ \A k \in 1 .. n : m \in Reached(p, {cs[k].id})
  BY TopReaches
<1>10. Activation(p, res2, n + 1, f)
  <2>1. FrameInv(p, res2, f)
    BY <1>2, ProgramFacts DEF FrameInv
  <2>2. n + 1 # 1
    BY <1>1
  <2> QED
    BY <2>1, <2>2, <1>2, <1>3, <1>9, Zenon DEF Activation
<1>11. \A k \in 1 .. (n + 1) : k \in 1 .. n \/ k = n + 1
  BY <1>1
<1>12. \A k \in 1 .. (n + 1) : Activation(p, res2, k, ds[k])
  BY <1>4, <1>8, <1>10, <1>11
<1>13. ASSUME NEW k \in 1 .. (n + 1), k + 1 \in 1 .. (n + 1) PROVE Awaits(p, ds[k], ds[k + 1].id)
  <2>1. k \in 1 .. n /\ ds[k] = cs[k]
    BY <1>1, <1>4, <1>13
  <2>2. CASE k = n
    BY <2>1, <2>2, <1>2, <1>4
  <2>3. CASE k + 1 \in 1 .. n
    BY <2>1, <2>3, <1>4 DEF StackInv
  <2>4. k = n \/ k + 1 \in 1 .. n
    BY <2>1, <1>1
  <2> QED
    BY <2>2, <2>3, <2>4
<1>14. ASSUME NEW k \in 1 .. (n + 1), NEW l \in 1 .. (n + 1), k < l PROVE Below(p, ds[k].id, ds[l].id)
  <2>1. k \in 1 .. n /\ ds[k] = cs[k]
    BY <1>1, <1>4, <1>14
  <2>2. CASE l = n + 1
    BY <2>1, <2>2, <1>2, <1>4, <1>6, <1>9 DEF Below
  <2>3. CASE l \in 1 .. n
    BY <2>1, <2>3, <1>4, <1>14 DEF StackInv
  <2> QED
    BY <2>2, <2>3, <1>11
<1>15. StackInv(p, res2, ds)
  BY <1>4, <1>12, <1>13, <1>14 DEF StackInv
<1> QED
  BY <1>15, Zenon DEF ds, f, res2

\* A module is finished, and the activation outside goes on with its exports.
LEMMA StackPopped ==
    ASSUME NEW p \in Programs, NEW res \in [Modules -> Results], NEW cs, StackInv(p, res, cs), Len(cs) > 1
    PROVE  /\ StackInv(p, [res EXCEPT ![cs[Len(cs)].id] = "exports"],
                       Resolved(SubSeq(cs, 1, Len(cs) - 1), "exports"))
           /\ Len(Resolved(SubSeq(cs, 1, Len(cs) - 1), "exports")) = Len(cs) - 1
           /\ \A k \in 1 .. (Len(cs) - 1) :
                Resolved(SubSeq(cs, 1, Len(cs) - 1), "exports")[k].id = cs[k].id
<1> DEFINE n == Len(cs)
           m == cs[n].id
           res2 == [res EXCEPT ![m] = "exports"]
           ds == SubSeq(cs, 1, n - 1)
<1>1. cs \in Seq(Frame) /\ n \in Nat /\ n > 1
  <2>1. cs \in Seq(Frame)
    BY DEF StackInv
  <2> QED
    BY <2>1
<1>2. ds \in Seq(Frame) /\ Len(ds) = n - 1 /\ \A k \in 1 .. (n - 1) : ds[k] = cs[k]
  BY <1>1
<1>3. /\ \A k \in 1 .. n : Activation(p, res, k, cs[k])
      /\ \A k \in 1 .. n : k + 1 \in 1 .. n => Awaits(p, cs[k], cs[k + 1].id)
      /\ \A k, l \in 1 .. n : k < l => Below(p, cs[k].id, cs[l].id)
  BY DEF StackInv
<1>4. n \in 1 .. n /\ n - 1 \in 1 .. n /\ (n - 1) + 1 = n /\ n # 1 /\ \A k \in 1 .. (n - 1) : k \in 1 .. n /\ k < n
  <2>1. \A i \in Nat : i > 1 => /\ i \in 1 .. i /\ i - 1 \in 1 .. i /\ (i - 1) + 1 = i /\ i # 1
                                /\ \A k \in 1 .. (i - 1) : k \in 1 .. i /\ k < i
    OBVIOUS
  <2> QED
    BY <2>1, <1>1, Zenon
<1>5. m \in Modules /\ m # Root
  BY <1>3, <1>4, Zenon DEF Activation, Frame
<1>6. Awaits(p, cs[n - 1], m)
  BY <1>3, <1>4
<1>7. \A k \in 1 .. (n - 1) : cs[k].id # m /\ cs[k].id \in Modules
  BY <1>3, <1>4, Zenon DEF Below, Activation, Frame
<1>8. res2[m] = "exports" /\ \A x \in Modules : x # m => res2[x] = res[x]
  BY <1>5
<1> HIDE DEF ds, m, res2
<1>9. StackInv(p, res, ds)
  <2>1. \A k \in 1 .. (n - 1) : Activation(p, res, k, ds[k])
    BY <1>2, <1>3, <1>4
  <2>2. \A k \in 1 .. (n - 1) : k + 1 \in 1 .. (n - 1) => Awaits(p, ds[k], ds[k + 1].id)
    BY <1>2, <1>3, <1>4
  <2>3. \A k, l \in 1 .. (n - 1) : k < l => Below(p, ds[k].id, ds[l].id)
    BY <1>2, <1>3, <1>4
  <2> QED
    BY <2>1, <2>2, <2>3, <1>2 DEF StackInv
<1>10. Compatible(res, res2, ds)
  <2>1. \A x \in Modules : res[x] = "exports" => res2[x] = "exports"
    BY <1>5, <1>8
  <2>2. ASSUME NEW k \in 1 .. (n - 1), k # 1 PROVE res2[ds[k].id] \in {"in progress", "import cycle"}
    <3>1. Activation(p, res, k, cs[k])
      BY <1>3, <1>4
    <3> QED
      BY <2>2, <3>1, <1>2, <1>7, <1>8, Zenon DEF Activation
  <2> QED
    BY <2>1, <2>2, <1>2, Zenon DEF Compatible
<1>11. StackInv(p, res2, ds)
  BY <1>9, <1>10, StackKept
<1>12. Answer(p, res2, m, "exports")
  BY <1>5, <1>8 DEF Answer
<1>13. "exports" \in Resolutions /\ Len(ds) > 0 /\ ds[Len(ds)] = cs[n - 1]
  BY <1>1, <1>2, <1>4 DEF Resolutions
<1>14. StackInv(p, res2, Resolved(ds, "exports"))
  BY <1>6, <1>11, <1>12, <1>13, StackResolved
<1>15. /\ Len(Resolved(ds, "exports")) = n - 1
       /\ \A k \in 1 .. (n - 1) : Resolved(ds, "exports")[k].id = ds[k].id
  <2> DEFINE es == Resolved(ds, "exports")
  <2>1. /\ es \in Seq(Frame) /\ Len(es) = Len(ds)
        /\ \A k \in 1 .. Len(ds) : k # Len(ds) => es[k] = ds[k]
        /\ es[Len(ds)].id = ds[Len(ds)].id
    BY <1>2, <1>13, ResolvedShape
  <2> HIDE DEF es
  <2>2. Len(es) = n - 1 /\ \A k \in 1 .. (n - 1) : es[k].id = ds[k].id
    BY <2>1, <1>2
  <2> QED
    BY <2>2 DEF es
<1> QED
  BY <1>2, <1>14, <1>15 DEF ds, m, res2

-----------------------------------------------------------------------------
(* Lemmas about the jobs and the modules emitted.                           *)

\* No activation has been left out.
NoneLost(cs, ds) == \A m \in Modules : OnStack(cs, m) => OnStack(ds, m)

LEMMA ResultKept ==
    ASSUME NEW p, NEW res, NEW cs, NEW pm, NEW ds, ResultInv(p, res, cs, pm), NoneLost(cs, ds)
    PROVE  ResultInv(p, res, ds, pm)
  BY Zenon DEF ResultInv, NoneLost

\* What resolveImport may write into a job.
LEMMA ResultWritten ==
    ASSUME NEW p, NEW res, NEW cs, NEW pm, NEW ds, ResultInv(p, res, cs, pm), NoneLost(cs, ds),
           NEW m \in Modules, m # Root, res[m] # "exports",
           NEW r \in Results, r # "exports",
           r = "in progress" => OnStack(ds, m),
           r = "import cycle" => CyclicIn(p),
           r = "no module parts found" => SomeIs(p, "empty")
    PROVE  ResultInv(p, [res EXCEPT ![m] = r], ds, pm)
<1> DEFINE res2 == [res EXCEPT ![m] = r]
<1>1. res \in [Modules -> Results]
  BY Zenon DEF ResultInv
<1>2. res2 \in [Modules -> Results] /\ res2[m] = r /\ \A x \in Modules : x # m => res2[x] = res[x]
  BY <1>1, Zenon
<1> HIDE DEF res2
<1>3. res2[Root] = "none"
  BY <1>2, ModulesAssumption, Zenon DEF ResultInv
<1>4. ASSUME NEW x \in Modules
      PROVE  /\ res2[x] = "in progress" => OnStack(ds, x)
             /\ res2[x] = "exports" <=> x # Root /\ IsEmitted(pm, x)
             /\ res2[x] = "import cycle" => CyclicIn(p)
             /\ res2[x] = "no module parts found" => SomeIs(p, "empty")
  <2>1. CASE x = m
    BY <1>2, <2>1, Zenon DEF ResultInv
  <2>2. CASE x # m
    <3>1. res2[x] = res[x]
      BY <1>2, <2>2, Zenon
    <3> QED
      BY <3>1, Zenon DEF ResultInv, NoneLost
  <2> QED
    BY <2>1, <2>2, Zenon
<1> QED
  BY <1>2, <1>3, <1>4, Zenon DEF ResultInv, res2

\* The modules pm2 are those of pm and the module m.
OneMore(pm, pm2, m) ==
    /\ Len(pm) \in Nat /\ Len(pm2) = Len(pm) + 1
    /\ \A i \in 1 .. Len(pm2) : i \in 1 .. Len(pm) \/ i = Len(pm) + 1
    /\ \A i \in 1 .. Len(pm) : i \in 1 .. Len(pm2) /\ pm2[i] = pm[i] /\ i # Len(pm2)
    /\ Len(pm2) \in 1 .. Len(pm2) /\ pm2[Len(pm) + 1].id = m
    /\ \A x : IsEmitted(pm2, x) <=> IsEmitted(pm, x) \/ x = m

LEMMA AppendEmitted ==
    ASSUME NEW p, NEW T, NEW pm \in Seq(T), NEW m
    PROVE  OneMore(pm, Append(pm, Emitted(p, m)), m)
<1> DEFINE e == Emitted(p, m)
           pm2 == Append(pm, e)
<1>1. e.id = m
  BY DEF Emitted
<1> HIDE DEF e
<1>2. Len(pm) \in Nat /\ Len(pm2) = Len(pm) + 1
  OBVIOUS
<1>3. \A i \in 1 .. Len(pm) : pm2[i] = pm[i]
  OBVIOUS
<1>4. pm2[Len(pm) + 1] = e
  OBVIOUS
<1> HIDE DEF pm2
<1>5. \A i \in 1 .. Len(pm2) : i \in 1 .. Len(pm) \/ i = Len(pm) + 1
  BY <1>2
<1>6. /\ \A i \in 1 .. Len(pm) : i \in 1 .. Len(pm2) /\ i # Len(pm2)
      /\ Len(pm2) \in 1 .. Len(pm2)
  BY <1>2
<1>7. \A x : IsEmitted(pm2, x) <=> IsEmitted(pm, x) \/ x = m
  BY <1>1, <1>2, <1>3, <1>4, <1>5, <1>6 DEF IsEmitted
<1> QED
  BY <1>1, <1>2, <1>3, <1>4, <1>5, <1>6, <1>7 DEF OneMore, pm2, e

\* Other activations than that of the module m remain.
OthersRemain(cs, ds, m) == \A x \in Modules : OnStack(cs, x) /\ x # m => OnStack(ds, x)

LEMMA ResultEmitted ==
    ASSUME NEW p, NEW res, NEW cs, NEW T, NEW pm \in Seq(T), NEW ds, ResultInv(p, res, cs, pm),
           NEW m \in Modules, m # Root, OthersRemain(cs, ds, m)
    PROVE  ResultInv(p, [res EXCEPT ![m] = "exports"], ds, Append(pm, Emitted(p, m)))
<1> DEFINE res2 == [res EXCEPT ![m] = "exports"]
           pm2 == Append(pm, Emitted(p, m))
<1>1. res \in [Modules -> Results] /\ "exports" \in Results
  BY Zenon DEF ResultInv, Results
<1>2. res2 \in [Modules -> Results] /\ res2[m] = "exports" /\ \A x \in Modules : x # m => res2[x] = res[x]
  BY <1>1
<1>3. \A x : IsEmitted(pm2, x) <=> IsEmitted(pm, x) \/ x = m
  BY AppendEmitted DEF OneMore
<1> HIDE DEF res2, pm2
<1>4. res2[Root] = "none"
  BY <1>2, ModulesAssumption, Zenon DEF ResultInv
<1>5. ASSUME NEW x \in Modules
      PROVE  /\ res2[x] = "in progress" => OnStack(ds, x)
             /\ res2[x] = "exports" <=> x # Root /\ IsEmitted(pm2, x)
             /\ res2[x] = "import cycle" => CyclicIn(p)
             /\ res2[x] = "no module parts found" => SomeIs(p, "empty")
  <2>1. CASE x = m
    BY <1>2, <1>3, <2>1
  <2>2. CASE x # m
    <3>1. res2[x] = res[x]
      BY <1>2, <2>2
    <3> QED
      BY <3>1, <2>2, <1>3, Zenon DEF ResultInv, OthersRemain
  <2> QED
    BY <2>1, <2>2, Zenon
<1> QED
  BY <1>2, <1>4, <1>5, Zenon DEF ResultInv, res2, pm2

LEMMA RootResult ==
    ASSUME NEW p, NEW res, NEW cs, NEW T, NEW pm \in Seq(T), ResultInv(p, res, cs, pm),
           OthersRemain(cs, <<>>, Root)
    PROVE  ResultInv(p, res, <<>>, Append(pm, Emitted(p, Root)))
<1>1. \A x : IsEmitted(Append(pm, Emitted(p, Root)), x) <=> IsEmitted(pm, x) \/ x = Root
  BY AppendEmitted, Zenon DEF OneMore
<1>2. \A x \in Modules : res[x] = "in progress" => OnStack(<<>>, x)
  <2> TAKE x \in Modules
  <2> HAVE res[x] = "in progress"
  <2>1. x # Root /\ OnStack(cs, x)
    BY Zenon DEF ResultInv
  <2> QED
    BY <2>1, Zenon DEF OthersRemain
<1> QED
  BY <1>1, <1>2, Zenon DEF ResultInv

\* No module is emitted, and the root is not finished.
LEMMA EmittedKept ==
    ASSUME NEW p, NEW cs, NEW pm, NEW ds, EmittedInv(p, cs, pm), cs # <<>>, ds # <<>>
    PROVE  EmittedInv(p, ds, pm)
  BY DEF EmittedInv

\* A module is emitted.
LEMMA EmittedGrows ==
    ASSUME NEW p, NEW cs, NEW pm, NEW ds, EmittedInv(p, cs, pm), cs # <<>>,
           NEW m \in Modules, m \in ReachableIn(p), ~ IsEmitted(pm, m), p.state[m] = "ok",
           Foreign \notin Range(p.imports[m]),
           Edges(p, m) \subseteq {x \in Modules : IsEmitted(pm, x)},
           m = Root <=> ds = <<>>
    PROVE  EmittedInv(p, ds, Append(pm, Emitted(p, m)))
<1> DEFINE E == {Emitted(p, x) : x \in Modules}
           pm2 == Append(pm, Emitted(p, m))
           n == Len(pm)
<1>1. pm \in Seq(E) /\ Emitted(p, m) \in E
  BY DEF EmittedInv
<1>2. pm2 \in Seq(E)
  BY <1>1
<1> HIDE DEF E
<1>3. /\ n \in Nat /\ Len(pm2) = n + 1
      /\ \A i \in 1 .. Len(pm2) : i \in 1 .. n \/ i = n + 1
      /\ \A i \in 1 .. n : i \in 1 .. Len(pm2) /\ pm2[i] = pm[i] /\ i # Len(pm2)
      /\ Len(pm2) \in 1 .. Len(pm2) /\ pm2[n + 1].id = m
  <2>1. OneMore(pm, pm2, m)
    BY <1>1, AppendEmitted
  <2> HIDE DEF pm2
  <2> QED
    BY <2>1 DEF OneMore
<1> HIDE DEF pm2, n
<1>4. /\ \A i, j \in 1 .. n : pm[i].id = pm[j].id => i = j
      /\ \A i \in 1 .. n : EmittedAt(p, pm, i)
      /\ \A i \in 1 .. n : pm[i].id # Root
      /\ \A i \in 1 .. n : pm[i].id # m
  BY DEF EmittedInv, IsEmitted, n
<1>5. \A i, j \in 1 .. Len(pm2) : pm2[i].id = pm2[j].id => i = j
  BY <1>3, <1>4
<1>6. ASSUME NEW i \in 1 .. Len(pm2) PROVE EmittedAt(p, pm2, i)
  <2>1. CASE i \in 1 .. n
    <3>1. EmittedAt(p, pm, i) /\ pm2[i] = pm[i]
      BY <2>1, <1>3, <1>4
    <3>2. \A j \in 1 .. (i - 1) : pm2[j] = pm[j]
      BY <2>1, <1>3
    <3> QED
      BY <3>1, <3>2 DEF EmittedAt
  <2>2. CASE i = n + 1
    <3>1. \A x \in Edges(p, m) : \E j \in 1 .. n : pm[j].id = x
      BY DEF IsEmitted, n
    <3>2. i - 1 = n /\ pm2[i].id = m
      BY <2>2, <1>3
    <3> QED
      BY <3>1, <3>2, <1>3 DEF EmittedAt
  <2> QED
    BY <2>1, <2>2, <1>3
<1>7. \A i \in 1 .. Len(pm2) : pm2[i].id = Root => ds = <<>> /\ i = Len(pm2)
  BY <1>3, <1>4
<1>8. ds = <<>> => Len(pm2) > 0 /\ pm2[Len(pm2)].id = Root
  BY <1>3
<1> QED
  BY <1>2, <1>5, <1>6, <1>7, <1>8 DEF EmittedInv, E, pm2

-----------------------------------------------------------------------------
(* The steps.                                                               *)

DriverInv(p, res, cs, pm) == StackInv(p, res, cs) /\ ResultInv(p, res, cs, pm) /\ EmittedInv(p, cs, pm)

\* processModule needs the import id next.
Waiting(id) ==
    /\ CompileInv /\ outcome = "running" /\ calls # <<>>
    /\ Awaits(program, calls[Len(calls)], id)

LEMMA StackNonEmpty ==
    ASSUME NEW p, NEW res, NEW cs, StackInv(p, res, cs), cs # <<>>
    PROVE  cs \in Seq(Frame) /\ Len(cs) \in Nat /\ Len(cs) > 0 /\ Len(cs) \in 1 .. Len(cs) /\ 1 \in 1 .. Len(cs)
<1>1. cs \in Seq(Frame)
  BY DEF StackInv
<1>2. Len(cs) \in Nat /\ Len(cs) # 0
  BY <1>1
<1> QED
  BY <1>1, <1>2

LEMMA ResolvedStack ==
    ASSUME NEW cs \in Seq(Frame), Len(cs) > 0, NEW r \in Resolutions
    PROVE  NoneLost(cs, Resolved(cs, r)) /\ Resolved(cs, r) # <<>>
<1> DEFINE ds == Resolved(cs, r)
           n == Len(cs)
<1>1. /\ ds \in Seq(Frame) /\ Len(ds) = n
      /\ \A k \in 1 .. n : k # n => ds[k] = cs[k]
      /\ ds[n].id = cs[n].id
  BY ResolvedShape
<1> HIDE DEF ds
<1>2. NoneLost(cs, ds)
  BY <1>1 DEF NoneLost, OnStack
<1>3. ds # <<>>
  BY <1>1
<1> QED
  BY <1>2, <1>3 DEF ds

\* The compilation goes on.
LEMMA StillRunning ==
    ASSUME CompileInv, outcome = "running", UNCHANGED <<program, outcome, typeVars>>,
           DriverInv(program, result', calls', programModules')
    PROVE  CompileInv'
<1>1. usage' = "none" /\ outcome' = "running" /\ program' = program
  BY DEF CompileInv, typeVars
<1>2. DriverInv(program', result', calls', programModules')
  BY <1>1
<1> QED
  BY <1>1, <1>2 DEF CompileInv, DriverInv

\* The compilation fails.
LEMMA GivesUp ==
    ASSUME CompileInv, outcome = "running", NEW error, Fail(error), Refused(program, error)
    PROVE  CompileInv'
<1>1. /\ usage' = "none" /\ outcome' = error
      /\ program' = program /\ result' = result /\ calls' = calls /\ programModules' = programModules
  BY DEF CompileInv, Fail, typeVars
<1>2. Refused(program', outcome')
  BY <1>1
<1> QED
  BY <1>1, <1>2 DEF CompileInv

LEMMA AwaitedImport ==
    ASSUME NEW p \in Programs, NEW res, NEW cs, StackInv(p, res, cs), cs # <<>>,
           NEW id, Awaits(p, cs[Len(cs)], id)
    PROVE  id \in Modules \cup {Io, Foreign}
<1> DEFINE f == cs[Len(cs)]
<1>1. cs \in Seq(Frame) /\ Len(cs) \in 1 .. Len(cs)
  BY StackNonEmpty
<1>2. f \in Frame
  BY <1>1
<1> HIDE DEF f
<1>3. f.id \in Modules /\ Len(f.resolvedImports) \in Nat
  BY <1>2 DEF Frame
<1>4. /\ p.imports[f.id] \in Seq(Modules \cup {Io, Foreign})
      /\ Len(f.resolvedImports) < Len(p.imports[f.id])
      /\ id = p.imports[f.id][Len(f.resolvedImports) + 1]
  BY <1>3, ProgramFacts DEF Awaits, f
<1>5. Len(f.resolvedImports) + 1 \in 1 .. Len(p.imports[f.id])
  BY <1>3, <1>4
<1> QED
  BY <1>4, <1>5

\* An import that is not the root, io or a foreign module has a job, or none yet.
LEMMA KnownResult ==
    ASSUME NEW id, Waiting(id), KnownImport(id) \in {"none", "in progress"}
    PROVE  id \in Modules /\ id # Root /\ KnownImport(id) = result[id]
<1>1. id # Root /\ id \notin {Io, Foreign}
  BY Zenon DEF KnownImport
<1>2. StackInv(program, result, calls) /\ program \in Programs
  BY Zenon DEF Waiting, CompileInv
<1>3. id \in Modules \cup {Io, Foreign}
  BY <1>2, AwaitedImport, Zenon DEF Waiting
<1> QED
  BY <1>1, <1>3, Zenon DEF KnownImport

\* An import of a module that is being compiled closes a cycle.
LEMMA OnStackCyclic ==
    ASSUME NEW id \in Modules, Waiting(id), OnStack(calls, id)
    PROVE  CyclicIn(program)
<1>1. StackInv(program, result, calls) /\ program \in Programs /\ Len(calls) > 0
  BY StackNonEmpty DEF Waiting, CompileInv
<1>2. id \in ReachableIn(program) /\ \A k \in 1 .. Len(calls) : id \in Reached(program, {calls[k].id})
  BY <1>1, TopReaches DEF Waiting
<1> QED
  BY <1>2, Zenon DEF CyclicIn, OnStack

\* resolveImport for a module that is being compiled.
LEMMA CycleStep ==
    ASSUME NEW id, Waiting(id), ImportCycle(id)
    PROVE  CompileInv'
<1>1. id \in Modules /\ id # Root /\ result[id] = "in progress"
  BY KnownResult, Zenon DEF ImportCycle
<1>2. /\ program \in Programs /\ StackInv(program, result, calls)
      /\ ResultInv(program, result, calls, programModules) /\ EmittedInv(program, calls, programModules)
      /\ outcome = "running" /\ calls # <<>> /\ Awaits(program, calls[Len(calls)], id)
  BY DEF Waiting, CompileInv
<1>3. CyclicIn(program)
  BY <1>1, <1>2, OnStackCyclic, Zenon DEF ResultInv
<1>4. calls \in Seq(Frame) /\ Len(calls) > 0
  BY <1>2, StackNonEmpty
<1> DEFINE r == "import cycle"
           res2 == [result EXCEPT ![id] = r]
           ds == Resolved(calls, r)
<1>5. r \in Resolutions /\ r \in Results /\ r # "exports" /\ r # "in progress" /\ r # "no module parts found"
  BY DEF Resolutions, Results
<1>6. NoneLost(calls, ds) /\ ds # <<>>
  BY <1>4, <1>5, ResolvedStack, Zenon
<1>7. ResultInv(program, res2, ds, programModules)
  BY <1>1, <1>2, <1>3, <1>5, <1>6, ResultWritten, Zenon
<1>8. StackInv(program, res2, calls)
  <2>1. result \in [Modules -> Results]
    BY <1>2, Zenon DEF ResultInv
  <2>2. res2[id] = r /\ \A x \in Modules : x # id => res2[x] = result[x]
    BY <2>1, <1>1, Zenon
  <2>3. \A k \in 1 .. Len(calls) :
          calls[k].id \in Modules /\ (k # 1 => result[calls[k].id] \in {"in progress", "import cycle"})
    BY <1>2, Zenon DEF StackInv, Activation, Frame
  <2>4. Compatible(result, res2, calls)
    BY <2>2, <2>3, <1>1, Zenon DEF Compatible
  <2> QED
    BY <2>4, <1>2, StackKept, Zenon
<1>9. Answer(program, res2, id, r)
  BY <1>3 DEF Answer
<1>10. StackInv(program, res2, ds)
  BY <1>2, <1>4, <1>5, <1>8, <1>9, StackResolved, Zenon
<1>11. EmittedInv(program, ds, programModules)
  BY <1>2, <1>6, EmittedKept, Zenon
<1>12. /\ result' = res2 /\ calls' = ds /\ programModules' = programModules
       /\ UNCHANGED <<program, outcome, typeVars>>
  BY Zenon DEF ImportCycle
<1> HIDE DEF res2, ds
<1>13. DriverInv(program, result', calls', programModules')
  BY <1>7, <1>10, <1>11, <1>12 DEF DriverInv
<1> QED
  BY <1>2, <1>12, <1>13, StillRunning DEF Waiting

\* What is known of an import is true of the program.
LEMMA KnownAnswer ==
    ASSUME NEW id, Waiting(id), KnownImport(id) \notin {"none", "in progress"}
    PROVE  KnownImport(id) \in Resolutions /\ Answer(program, result, id, KnownImport(id))
<1>1. /\ program \in Programs /\ StackInv(program, result, calls)
      /\ ResultInv(program, result, calls, programModules)
      /\ calls # <<>> /\ Awaits(program, calls[Len(calls)], id)
  BY Zenon DEF Waiting, CompileInv
<1>2. id \in Modules \cup {Io, Foreign} /\ 1 \in 1 .. Len(calls)
  BY <1>1, AwaitedImport, StackNonEmpty, Zenon
<1>3. CASE id = Root
  <2>1. calls[1].id = Root
    BY <1>1, <1>2, Zenon DEF StackInv, Activation
  <2>2. OnStack(calls, id)
    BY <2>1, <1>2, <1>3, Zenon DEF OnStack
  <2>3. CyclicIn(program)
    BY <2>2, <1>3, OnStackCyclic, ModulesAssumption, Zenon
  <2>4. id \notin {Io, Foreign}
    BY <1>3, ModulesAssumption, Zenon
  <2>5. KnownImport(id) = "import cycle"
    BY <2>4, <1>3 DEF KnownImport
  <2> QED
    BY <2>3, <2>5, Zenon DEF Answer, Resolutions
<1>4. CASE id \in {Io, Foreign} /\ id # Root
  <2>1. KnownImport(id) = "nil"
    BY <1>4 DEF KnownImport
  <2> QED
    BY <2>1, <1>4 DEF Answer, Resolutions
<1>5. CASE id \in Modules /\ id # Root
  <2>1. id \notin {Io, Foreign}
    BY <1>5, ModulesAssumption, Zenon
  <2>2. KnownImport(id) = result[id]
    BY <2>1, <1>5, Zenon DEF KnownImport
  <2>3. /\ result[id] \in Results
        /\ result[id] = "import cycle" => CyclicIn(program)
        /\ result[id] = "no module parts found" => SomeIs(program, "empty")
    BY <1>1, <1>5, Zenon DEF ResultInv
  <2>4. result[id] \in {"import cycle", "no module parts found", "exports"}
    BY <2>2, <2>3, Zenon DEF Results
  <2> QED
    BY <2>2, <2>3, <2>4, <1>5, Zenon DEF Answer, Resolutions
<1> QED
  BY <1>2, <1>3, <1>4, <1>5, Zenon

\* resolveImport for a module that needs no compilation.
LEMMA KnownStep ==
    ASSUME NEW id, Waiting(id), ImportKnown(id)
    PROVE  CompileInv'
<1> DEFINE r == KnownImport(id)
           ds == Resolved(calls, r)
<1>1. r \in Resolutions /\ Answer(program, result, id, r)
  BY KnownAnswer, Zenon DEF ImportKnown
<1>2. /\ result' = result /\ calls' = ds /\ programModules' = programModules
      /\ UNCHANGED <<program, outcome, typeVars>>
  BY Zenon DEF ImportKnown
<1> HIDE DEF r
<1>3. /\ program \in Programs /\ StackInv(program, result, calls)
      /\ ResultInv(program, result, calls, programModules) /\ EmittedInv(program, calls, programModules)
      /\ outcome = "running" /\ calls # <<>> /\ Awaits(program, calls[Len(calls)], id)
  BY DEF Waiting, CompileInv
<1>4. calls \in Seq(Frame) /\ Len(calls) > 0
  BY <1>3, StackNonEmpty
<1>5. NoneLost(calls, ds) /\ ds # <<>>
  BY <1>1, <1>4, ResolvedStack
<1>6. StackInv(program, result, ds)
  BY <1>1, <1>3, <1>4, StackResolved
<1> HIDE DEF ds
<1>7. ResultInv(program, result, ds, programModules) /\ EmittedInv(program, ds, programModules)
  BY <1>3, <1>5, ResultKept, EmittedKept
<1>8. DriverInv(program, result', calls', programModules')
  BY <1>2, <1>6, <1>7 DEF DriverInv
<1> QED
  BY <1>2, <1>3, <1>8, StillRunning DEF Waiting

\* processImport for a module without parts.
LEMMA EmptyStep ==
    ASSUME NEW id \in Modules, Waiting(id), id # Root, result[id] = "none", program.state[id] = "empty",
           result' = [result EXCEPT ![id] = "no module parts found"],
           calls' = Resolved(calls, "no module parts found"),
           UNCHANGED <<program, programModules, outcome, typeVars>>
    PROVE  CompileInv'
<1>1. /\ program \in Programs /\ StackInv(program, result, calls)
      /\ ResultInv(program, result, calls, programModules) /\ EmittedInv(program, calls, programModules)
      /\ outcome = "running" /\ calls # <<>> /\ Awaits(program, calls[Len(calls)], id)
  BY Zenon DEF Waiting, CompileInv
<1>2. calls \in Seq(Frame) /\ Len(calls) > 0
  BY <1>1, StackNonEmpty, Zenon
<1>3. SomeIs(program, "empty")
  BY <1>1, <1>2, TopReaches, Zenon DEF SomeIs
<1> DEFINE r == "no module parts found"
           res2 == [result EXCEPT ![id] = r]
           ds == Resolved(calls, r)
<1>4. r \in Resolutions /\ r \in Results /\ r # "exports" /\ r # "in progress" /\ r # "import cycle"
  BY Zenon DEF Resolutions, Results
<1>5. NoneLost(calls, ds) /\ ds # <<>>
  BY <1>2, <1>4, ResolvedStack, Zenon
<1>6. ResultInv(program, res2, ds, programModules)
  BY <1>1, <1>3, <1>4, <1>5, ResultWritten, Zenon
<1>7. StackInv(program, res2, calls)
  <2>1. result \in [Modules -> Results]
    BY <1>1, Zenon DEF ResultInv
  <2>2. res2[id] = r /\ \A x \in Modules : x # id => res2[x] = result[x]
    BY <2>1, Zenon
  <2>3. \A k \in 1 .. Len(calls) :
          calls[k].id \in Modules /\ (k # 1 => result[calls[k].id] \in {"in progress", "import cycle"})
    BY <1>1, Zenon DEF StackInv, Activation, Frame
  <2>4. Compatible(result, res2, calls)
    BY <2>2, <2>3, Zenon DEF Compatible
  <2> QED
    BY <2>4, <1>1, StackKept, Zenon
<1>8. Answer(program, res2, id, r)
  BY <1>3, Zenon DEF Answer
<1>9. StackInv(program, res2, ds)
  BY <1>1, <1>2, <1>4, <1>7, <1>8, StackResolved, Zenon
<1>10. EmittedInv(program, ds, programModules)
  BY <1>1, <1>5, EmittedKept, Zenon
<1>11. DriverInv(program, result', calls', programModules')
  BY <1>6, <1>9, <1>10, Zenon DEF DriverInv
<1> QED
  BY <1>1, <1>11, StillRunning, Zenon DEF Waiting

\* processImport starts the compilation of a module.
LEMMA StartStep ==
    ASSUME NEW id \in Modules, Waiting(id), id # Root, result[id] = "none",
           result' = Started(id),
           calls' = Append(calls, [id |-> id, resolvedImports |-> <<>>]),
           UNCHANGED <<program, programModules, outcome, typeVars>>
    PROVE  CompileInv'
<1>1. /\ program \in Programs /\ StackInv(program, result, calls)
      /\ ResultInv(program, result, calls, programModules) /\ EmittedInv(program, calls, programModules)
      /\ outcome = "running" /\ calls # <<>> /\ Awaits(program, calls[Len(calls)], id)
  BY DEF Waiting, CompileInv
<1>2. calls \in Seq(Frame) /\ Len(calls) > 0 /\ Len(calls) \in Nat
  BY <1>1, StackNonEmpty
<1> DEFINE f == [id |-> id, resolvedImports |-> <<>>]
           res2 == [result EXCEPT ![id] = "in progress"]
           ds == Append(calls, f)
<1>3. result \in [Modules -> Results]
  BY <1>1, Zenon DEF ResultInv
<1>4. StackInv(program, res2, ds)
  BY <1>1, <1>2, <1>3, StackPushed, Zenon
<1>5. f.id = id
  OBVIOUS
<1> HIDE DEF f
<1>6. NoneLost(calls, ds) /\ OnStack(ds, id) /\ ds # <<>>
  <2>1. Len(ds) = Len(calls) + 1 /\ ds[Len(calls) + 1] = f /\ \A k \in 1 .. Len(calls) : ds[k] = calls[k]
    BY <1>2
  <2> HIDE DEF ds
  <2>2. Len(calls) + 1 \in 1 .. Len(ds) /\ \A k \in 1 .. Len(calls) : k \in 1 .. Len(ds)
    BY <2>1, <1>2
  <2>3. ds # <<>>
    BY <2>1, <1>2
  <2> QED
    BY <2>1, <2>2, <2>3, <1>5 DEF NoneLost, OnStack
<1> HIDE DEF ds
<1>7. /\ "in progress" \in Results /\ "in progress" # "exports"
      /\ "in progress" # "import cycle" /\ "in progress" # "no module parts found"
  BY DEF Results
<1>8. ResultInv(program, res2, ds, programModules)
  BY <1>1, <1>6, <1>7, ResultWritten, Zenon
<1>9. EmittedInv(program, ds, programModules)
  BY <1>1, <1>6, EmittedKept
<1>10. result' = res2 /\ calls' = ds
  BY Zenon DEF Started, ds, f
<1> HIDE DEF res2
<1>11. DriverInv(program, result', calls', programModules')
  BY <1>4, <1>8, <1>9, <1>10, Zenon DEF DriverInv
<1> QED
  BY <1>1, <1>11, StillRunning DEF Waiting

\* The handler resolveImport keeps the invariant.
LEMMA ImportStep ==
    ASSUME CompileInv, resolveImport
    PROVE  CompileInv'
<1>1. PICK id : Waiting(id) /\ (ImportCycle(id) \/ ImportKnown(id) \/ processImport(id))
  <2> DEFINE id == Imports(Top.id)[Len(Top.resolvedImports) + 1]
  <2>1. Waiting(id)
    BY DEF resolveImport, Waiting, Awaits, Top, Imports
  <2>2. ImportCycle(id) \/ ImportKnown(id) \/ processImport(id)
    BY DEF resolveImport
  <2> QED
    BY <2>1, <2>2, Zenon
<1>2. CASE ImportCycle(id)
  BY <1>1, <1>2, CycleStep
<1>3. CASE ImportKnown(id)
  BY <1>1, <1>3, KnownStep
<1>4. CASE processImport(id)
  <2>1. id \in Modules /\ id # Root /\ result[id] = "none"
    BY <1>1, <1>4, KnownResult, Zenon DEF processImport
  <2>2. CASE program.state[id] \in {"unreadable", "unscannable"} /\ Fail(program.state[id])
    <3>1. /\ program \in Programs /\ StackInv(program, result, calls) /\ Len(calls) > 0
          /\ Awaits(program, calls[Len(calls)], id)
      BY <1>1, StackNonEmpty DEF Waiting, CompileInv
    <3>2. id \in ReachableIn(program)
      BY <2>1, <3>1, TopReaches
    <3>3. Refused(program, program.state[id])
      BY <2>2, <3>2, Zenon DEF Refused, SomeIs, States
    <3> QED
      BY <1>1, <2>2, <3>3, GivesUp DEF Waiting
  <2>3. CASE /\ program.state[id] = "empty"
             /\ result' = [result EXCEPT ![id] = "no module parts found"]
             /\ calls' = Resolved(calls, "no module parts found")
             /\ UNCHANGED <<program, programModules, outcome, typeVars>>
    BY <1>1, <2>1, <2>3, EmptyStep, Zenon
  <2>4. CASE /\ result' = Started(id)
             /\ calls' = Append(calls, [id |-> id, resolvedImports |-> <<>>])
             /\ UNCHANGED <<program, programModules, outcome, typeVars>>
    BY <1>1, <2>1, <2>4, StartStep
  <2> QED
    BY <1>4, <2>2, <2>3, <2>4, Zenon DEF processImport
<1> QED
  BY <1>1, <1>2, <1>3, <1>4

\* What is known of the innermost activation when its imports are resolved.
LEMMA TopFacts ==
    ASSUME CompileInv, ImportsResolved
    PROVE  /\ program \in Programs /\ outcome = "running" /\ calls # <<>>
           /\ calls \in Seq(Frame) /\ Len(calls) \in 1 .. Len(calls)
           /\ Top \in Frame /\ Top.id \in Modules /\ Top.id \in ReachableIn(program)
           /\ Top.id = Root <=> Len(calls) = 1
           /\ Len(calls) # 1 => result[Top.id] \in {"in progress", "import cycle"}
           /\ DOMAIN Top.resolvedImports = 1 .. Len(Imports(Top.id))
           /\ DOMAIN Imports(Top.id) = 1 .. Len(Imports(Top.id))
           /\ \A i \in 1 .. Len(Imports(Top.id)) :
                /\ Top.resolvedImports[i] \in Resolutions
                /\ Answer(program, result, Imports(Top.id)[i], Top.resolvedImports[i])
<1>1. /\ program \in Programs /\ StackInv(program, result, calls)
      /\ outcome = "running" /\ calls # <<>>
  BY DEF CompileInv, ImportsResolved
<1>2. calls \in Seq(Frame) /\ Len(calls) \in 1 .. Len(calls)
  BY <1>1, StackNonEmpty
<1> DEFINE f == calls[Len(calls)]
<1>3. Activation(program, result, Len(calls), f)
  BY <1>1, <1>2 DEF StackInv
<1>4. Top = f /\ Imports(f.id) = program.imports[f.id]
  BY DEF Top, Imports
<1> HIDE DEF f
<1>5. f \in Frame /\ FrameInv(program, result, f) /\ f.id \in ReachableIn(program)
  BY <1>3, Zenon DEF Activation
<1>6. f.id \in Modules /\ f.resolvedImports \in Seq(Resolutions)
  BY <1>5 DEF Frame
<1>7. Len(f.resolvedImports) = Len(program.imports[f.id])
  BY <1>4 DEF ImportsResolved
<1>8. /\ DOMAIN f.resolvedImports = 1 .. Len(f.resolvedImports)
      /\ \A i \in 1 .. Len(f.resolvedImports) : f.resolvedImports[i] \in Resolutions
  BY <1>6
<1>9. DOMAIN program.imports[f.id] = 1 .. Len(program.imports[f.id])
  <2>1. program.imports[f.id] \in Seq(Modules \cup {Io, Foreign})
    BY <1>1, <1>6, ProgramFacts
  <2> QED
    BY <2>1
<1>10. \A i \in 1 .. Len(f.resolvedImports) : Answer(program, result, program.imports[f.id][i], f.resolvedImports[i])
  BY <1>5 DEF FrameInv
<1>11. f.id = Root <=> Len(calls) = 1
  BY <1>3, Zenon DEF Activation
<1>12. Len(calls) # 1 => result[f.id] \in {"in progress", "import cycle"}
  BY <1>3, Zenon DEF Activation
<1> QED
  BY <1>1, <1>2, <1>4, <1>5, <1>6, <1>7, <1>8, <1>9, <1>10, <1>11, <1>12, Zenon

\* resolveModule rejects a module for what its imports are or for what it is itself.
LEMMA FailStep ==
    ASSUME CompileInv, resolveModuleFails
    PROVE  CompileInv'
<1>1. ImportsResolved
  BY Zenon DEF resolveModuleFails
<1>2. /\ outcome = "running" /\ Top.id \in ReachableIn(program)
      /\ DOMAIN Top.resolvedImports = 1 .. Len(Imports(Top.id))
      /\ DOMAIN Imports(Top.id) = 1 .. Len(Imports(Top.id))
      /\ \A i \in 1 .. Len(Imports(Top.id)) :
            /\ Top.resolvedImports[i] \in Resolutions
            /\ Answer(program, result, Imports(Top.id)[i], Top.resolvedImports[i])
  BY <1>1, TopFacts, Zenon
<1>3. ASSUME NEW first \in BadImports,
             Fail(IF Top.resolvedImports[first] = "nil" THEN "unsupported module" ELSE Top.resolvedImports[first])
      PROVE  CompileInv'
  <2> DEFINE r == Top.resolvedImports[first]
             x == Imports(Top.id)[first]
             error == IF r = "nil" THEN "unsupported module" ELSE r
  <2>1. /\ first \in DOMAIN Imports(Top.id) /\ r \in Resolutions /\ Answer(program, result, x, r)
        /\ x # Io /\ r # "exports"
    BY <1>2, <1>3, Zenon DEF BadImports
  <2>2. x \in Range(program.imports[Top.id])
    BY <2>1 DEF Range, Imports
  <2> HIDE DEF r, x
  <2>3. CASE r = "nil"
    <3>1. x = Foreign
      BY <2>1, <2>3 DEF Answer
    <3>2. Refused(program, error)
      BY <2>2, <2>3, <3>1, <1>2, Zenon DEF Refused
    <3> QED
      BY <1>2, <1>3, <3>2, GivesUp, Zenon DEF r
  <2>4. CASE r # "nil"
    <3>1. \/ r = "import cycle" /\ CyclicIn(program)
          \/ r = "no module parts found" /\ SomeIs(program, "empty")
      BY <2>1, <2>4, Zenon DEF Answer, Resolutions
    <3>2. Refused(program, error)
      BY <2>4, <3>1, Zenon DEF Refused
    <3> QED
      BY <1>2, <1>3, <3>2, GivesUp, Zenon DEF r
  <2> QED
    BY <2>3, <2>4
<1>4. ASSUME program.state[Top.id] \in {"invalid", "unbuildable"}, Fail(program.state[Top.id])
      PROVE  CompileInv'
  <2>1. Refused(program, program.state[Top.id])
    BY <1>2, <1>4, Zenon DEF Refused, SomeIs, States
  <2> QED
    BY <1>2, <1>4, <2>1, GivesUp
<1> QED
  BY <1>3, <1>4, Zenon DEF resolveModuleFails

\* The module that is emitted is new, and what it imports has been emitted.
LEMMA ReadyToEmit ==
    ASSUME CompileInv, emitModule
    PROVE  /\ ~ IsEmitted(programModules, Top.id)
           /\ Foreign \notin Range(program.imports[Top.id])
           /\ Edges(program, Top.id) \subseteq {x \in Modules : IsEmitted(programModules, x)}
<1>1. ImportsResolved /\ BadImports = {}
  BY DEF emitModule
<1>2. /\ ResultInv(program, result, calls, programModules)
      /\ EmittedInv(program, calls, programModules)
  BY DEF CompileInv
<1>3. /\ calls # <<>> /\ Top.id \in Modules
      /\ Top.id = Root <=> Len(calls) = 1
      /\ Len(calls) # 1 => result[Top.id] \in {"in progress", "import cycle"}
      /\ DOMAIN Top.resolvedImports = 1 .. Len(Imports(Top.id))
      /\ DOMAIN Imports(Top.id) = 1 .. Len(Imports(Top.id))
      /\ \A i \in 1 .. Len(Imports(Top.id)) :
            Answer(program, result, Imports(Top.id)[i], Top.resolvedImports[i])
  BY <1>1, TopFacts, Zenon
<1>4. \A x \in Range(program.imports[Top.id]) : x = Io \/ (x \in Modules /\ x # Root /\ result[x] = "exports")
  <2> TAKE x \in Range(program.imports[Top.id])
  <2>1. PICK i \in 1 .. Len(Imports(Top.id)) : x = Imports(Top.id)[i]
    BY <1>3, Zenon DEF Range, Imports
  <2>2. x = Io \/ Top.resolvedImports[i] = "exports"
    BY <2>1, <1>1, <1>3, Zenon DEF BadImports
  <2>3. Answer(program, result, x, Top.resolvedImports[i])
    BY <2>1, <1>3, Zenon
  <2> QED
    BY <2>2, <2>3, Zenon DEF Answer
<1>5. Foreign \notin Range(program.imports[Top.id])
  BY <1>4, ModulesAssumption
<1>6. \A x \in Edges(program, Top.id) : x \in Modules /\ IsEmitted(programModules, x)
  <2> TAKE x \in Edges(program, Top.id)
  <2>1. x \in Range(program.imports[Top.id]) /\ x \in Modules
    BY DEF Edges
  <2>2. x # Io
    BY <2>1, ModulesAssumption
  <2>3. result[x] = "exports"
    BY <2>1, <2>2, <1>4
  <2> QED
    BY <2>1, <2>3, <1>2, Zenon DEF ResultInv
<1>7. ~ IsEmitted(programModules, Top.id)
  <2>1. CASE Top.id = Root
    BY <2>1, <1>2, <1>3 DEF EmittedInv, IsEmitted
  <2>2. CASE Top.id # Root
    <3>1. result[Top.id] # "exports"
      BY <2>2, <1>3, Zenon
    <3> QED
      BY <2>2, <3>1, <1>2, <1>3, Zenon DEF ResultInv
  <2> QED
    BY <2>1, <2>2
<1> QED
  BY <1>5, <1>6, <1>7

\* emitModule for the root, and for any other module.
LEMMA EmitStep ==
    ASSUME CompileInv, emitModule
    PROVE  CompileInv'
<1> DEFINE m == Top.id
           pm2 == Append(programModules, Emitted(program, m))
<1>1. ImportsResolved /\ program.state[m] = "ok" /\ UNCHANGED <<program, outcome, typeVars>>
  BY DEF emitModule
<1>2. programModules' = pm2
  BY DEF emitModule, Emitted
<1>3. /\ StackInv(program, result, calls) /\ ResultInv(program, result, calls, programModules)
      /\ EmittedInv(program, calls, programModules)
  BY DEF CompileInv
<1>4. /\ program \in Programs /\ outcome = "running" /\ calls # <<>>
      /\ calls \in Seq(Frame) /\ Len(calls) \in 1 .. Len(calls)
      /\ m \in Modules /\ m \in ReachableIn(program) /\ (m = Root <=> Len(calls) = 1)
  BY <1>1, TopFacts, Zenon
<1>5. /\ ~ IsEmitted(programModules, m)
      /\ Foreign \notin Range(program.imports[m])
      /\ Edges(program, m) \subseteq {x \in Modules : IsEmitted(programModules, x)}
  BY ReadyToEmit
<1>6. m = calls[Len(calls)].id
  BY DEF Top
<1>7. programModules \in Seq({Emitted(program, x) : x \in Modules})
  BY <1>3 DEF EmittedInv
<1> HIDE DEF m
<1>8. CASE Len(calls) = 1
  <2>1. m = Root /\ calls' = <<>> /\ result' = result
    BY <1>4, <1>8 DEF emitModule
  <2>2. OthersRemain(calls, <<>>, Root)
    BY <1>6, <1>8, <2>1 DEF OthersRemain, OnStack
  <2>3. ResultInv(program, result, <<>>, pm2)
    BY <1>3, <1>7, <2>1, <2>2, RootResult
  <2>4. EmittedInv(program, <<>>, pm2)
    BY <1>1, <1>3, <1>4, <1>5, <2>1, EmittedGrows
  <2>5. StackInv(program, result, <<>>)
    BY DEF StackInv
  <2> HIDE DEF pm2
  <2>6. DriverInv(program, result', calls', programModules')
    BY <2>1, <2>3, <2>4, <2>5, <1>2 DEF DriverInv
  <2> QED
    BY <1>1, <1>4, <2>6, StillRunning
<1>9. CASE Len(calls) # 1
  <2> DEFINE n == Len(calls)
             ds == Resolved(SubSeq(calls, 1, n - 1), "exports")
             res2 == [result EXCEPT ![m] = "exports"]
  <2>1. n \in Nat /\ n > 1 /\ m # Root
    <3>1. Len(calls) \in Nat
      BY <1>4
    <3>2. \A k \in Nat : k \in 1 .. k /\ k # 1 => k > 1
      OBVIOUS
    <3> QED
      BY <1>4, <1>9, <3>1, <3>2, Zenon
  <2>2. result \in [Modules -> Results]
    BY <1>3, Zenon DEF ResultInv
  <2>3. /\ StackInv(program, res2, ds) /\ Len(ds) = n - 1
        /\ \A k \in 1 .. (n - 1) : ds[k].id = calls[k].id
    BY <1>3, <1>4, <1>6, <2>1, <2>2, StackPopped, Zenon
  <2>4. calls' = ds /\ result' = res2
    BY <1>9 DEF emitModule, Exported, m
  <2> HIDE DEF ds
  <2>5. \A k \in 1 .. n : k = n \/ k \in 1 .. (n - 1)
    <3>1. \A l \in Nat : \A k \in 1 .. l : k = l \/ k \in 1 .. (l - 1)
      OBVIOUS
    <3> QED
      BY <2>1, <3>1, Zenon
  <2>6. OthersRemain(calls, ds, m)
    BY <1>6, <2>3, <2>5 DEF OthersRemain, OnStack
  <2>7. ResultInv(program, res2, ds, pm2)
    BY <1>3, <1>4, <1>7, <2>1, <2>6, ResultEmitted
  <2>8. ds # <<>>
    BY <2>1, <2>3
  <2>9. EmittedInv(program, ds, pm2)
    BY <1>1, <1>3, <1>4, <1>5, <2>1, <2>8, EmittedGrows
  <2> HIDE DEF pm2, res2
  <2>10. DriverInv(program, result', calls', programModules')
    BY <2>3, <2>4, <2>7, <2>9, <1>2 DEF DriverInv
  <2> QED
    BY <1>1, <1>4, <2>10, StillRunning
<1> QED
  BY <1>8, <1>9

\* compileBalFile when all modules are emitted.
LEMMA FinalizeStep ==
    ASSUME CompileInv, finalize
    PROVE  CompileInv'
<1>1. outcome = "running" /\ calls = <<>>
  BY Zenon DEF finalize
<1>2. CASE program.validMain
  <2>1. /\ outcome' = "ok" /\ modules' = Reversed(programModules)
        /\ program' = program /\ result' = result /\ calls' = calls /\ programModules' = programModules
    BY <1>2 DEF finalize, buildInitTypes
  <2> QED
    BY <1>1, <1>2, <2>1 DEF CompileInv
<1>3. CASE ~ program.validMain
  <2>1. Fail("invalid main")
    BY <1>3, Zenon DEF finalize
  <2>2. Refused(program, "invalid main")
    BY <1>3, Zenon DEF Refused
  <2> QED
    BY <1>1, <2>1, <2>2, GivesUp, Zenon
<1> QED
  BY <1>2, <1>3

\* The init module is built for the modules it was given.
LEMMA TypesStep ==
    ASSUME CompileInv, TypesNext, UNCHANGED driverVars
    PROVE  CompileInv'
<1>1. modules' = modules /\ (usage' # "none" => usage # "none")
  BY Zenon DEF TypesNext, addConstructTypeSymbol, addConstructTypeDefn, finishSubtypeDefns,
         addExactifyTypeSymbol, addTypeTestTypeSymbol
<1> QED
  BY <1>1 DEF CompileInv, driverVars

LEMMA CompileInit ==
    ASSUME Init
    PROVE  CompileInv
<1>1. /\ program \in Programs /\ programModules = <<>> /\ usage = "none"
      /\ result = [m \in Modules |-> "none"]
      /\ calls = <<[id |-> Root, resolvedImports |-> <<>>]>>
  BY Zenon DEF Init, TypesInit
<1> DEFINE f == [id |-> Root, resolvedImports |-> <<>>]
<1>2. f \in Frame /\ f.id = Root /\ Len(f.resolvedImports) = 0
  BY ModulesAssumption DEF Frame
<1>3. calls = <<f>>
  BY <1>1
<1> HIDE DEF f
<1>4. calls \in Seq(Frame) /\ Len(calls) = 1 /\ calls[1] = f /\ calls # <<>>
  BY <1>2, <1>3
<1>5. \A m \in Modules : result[m] = "none"
  BY <1>1
<1>6. result \in [Modules -> Results]
  BY <1>1 DEF Results
<1>7. StackInv(program, result, calls)
  <2>1. FrameInv(program, result, f)
    BY <1>1, <1>2, ProgramFacts, ModulesAssumption DEF FrameInv
  <2>2. Activation(program, result, 1, f)
    BY <2>1, <1>2, ReachableModules DEF Activation
  <2> QED
    BY <2>2, <1>4 DEF StackInv
<1>8. ResultInv(program, result, calls, programModules)
  <2>1. Len(programModules) = 0
    BY <1>1
  <2>2. \A m : ~ IsEmitted(programModules, m)
    BY <2>1 DEF IsEmitted
  <2> QED
    BY <2>2, <1>5, <1>6, ModulesAssumption, Zenon DEF ResultInv
<1>9. EmittedInv(program, calls, programModules)
  <2>1. programModules \in Seq({Emitted(program, m) : m \in Modules}) /\ Len(programModules) = 0
    BY <1>1
  <2>2. \A i \in 1 .. Len(programModules) : FALSE
    BY <2>1
  <2> QED
    BY <2>1, <2>2, <1>4, Zenon DEF EmittedInv
<1>10. outcome = "running" \/ Refused(program, outcome)
  <2>1. program.state[Root] = "unscannable" => Refused(program, "unscannable")
    BY ReachableModules DEF Refused, SomeIs, States
  <2> QED
    BY <2>1 DEF Init
<1> QED
  BY <1>1, <1>7, <1>8, <1>9, <1>10 DEF CompileInv

LEMMA CompileNext ==
    ASSUME CompileInv, [Next]_vars
    PROVE  CompileInv'
<1>1. CASE resolveImport
  BY <1>1, ImportStep
<1>2. CASE resolveModuleFails
  BY <1>2, FailStep
<1>3. CASE emitModule
  BY <1>3, EmitStep
<1>4. CASE finalize
  BY <1>4, FinalizeStep
<1>5. CASE TypesNext /\ UNCHANGED driverVars
  BY <1>5, TypesStep
<1>6. CASE UNCHANGED vars
  BY <1>6 DEF CompileInv, vars, driverVars, typeVars
<1>7. CASE Exited
  BY <1>6, <1>7 DEF Exited
<1> QED
  BY <1>1, <1>2, <1>3, <1>4, <1>5, <1>6, <1>7 DEF Next

LEMMA CompileInvariant == Spec => []CompileInv
BY CompileInit, CompileNext, PTL DEF Spec

-----------------------------------------------------------------------------
(* What the invariant says of the outcome.                                  *)

\* The modules emitted before the i-th.
Earlier(pm, i) == {pm[j].id : j \in 1 .. (i - 1)}

\* The modules emitted before one are closed under imports, and it is not among them.
LEMMA NotReachedFromItself ==
    ASSUME NEW p, NEW cs, NEW pm, EmittedInv(p, cs, pm), NEW i \in 1 .. Len(pm)
    PROVE  pm[i].id \notin Reached(p, {pm[i].id})
<1> DEFINE E == {Emitted(p, m) : m \in Modules}
<1>1. pm \in Seq(E) /\ \A e \in E : e.id \in Modules
  BY DEF EmittedInv, Emitted
<1> HIDE DEF E
<1>2. Len(pm) \in Nat /\ \A j \in 1 .. Len(pm) : pm[j].id \in Modules
  BY <1>1
<1>3. /\ \A j, k \in 1 .. Len(pm) : pm[j].id = pm[k].id => j = k
      /\ \A j \in 1 .. Len(pm) : EmittedAt(p, pm, j)
  BY DEF EmittedInv
<1>4. \A j \in 1 .. (i - 1) : j \in 1 .. Len(pm) /\ j # i
  BY <1>2
<1>5. ASSUME NEW j \in 1 .. Len(pm), j <= i, NEW x \in Edges(p, pm[j].id)
      PROVE  x \in Earlier(pm, i)
  <2>1. PICK k \in 1 .. (j - 1) : pm[k].id = x
    BY <1>3, Zenon DEF EmittedAt
  <2>2. k \in 1 .. (i - 1)
    BY <2>1, <1>2, <1>5
  <2> QED
    BY <2>1, <2>2 DEF Earlier
<1>6. \A j \in 1 .. (i - 1) : j <= i
  BY <1>2
<1>7. Earlier(pm, i) \in ClosedSets(p, {pm[i].id})
  <2>1. Earlier(pm, i) \subseteq Modules
    BY <1>2, <1>4 DEF Earlier
  <2>2. i <= i
    BY <1>2
  <2>3. Edges(p, pm[i].id) \subseteq Earlier(pm, i)
    BY <1>5, <2>2
  <2>4. \A m \in Earlier(pm, i) : Edges(p, m) \subseteq Earlier(pm, i)
    BY <1>4, <1>5, <1>6, Zenon DEF Earlier
  <2> QED
    BY <2>1, <2>3, <2>4 DEF ClosedSets
<1>8. pm[i].id \notin Earlier(pm, i)
  BY <1>3, <1>4 DEF Earlier
<1> QED
  BY <1>7, <1>8, ReachedLeast

\* When the root is emitted, so is every module it needs.
LEMMA AllEmitted ==
    ASSUME NEW p, NEW pm, EmittedInv(p, <<>>, pm)
    PROVE  \A m : m \in ReachableIn(p) <=> IsEmitted(pm, m)
<1> DEFINE S == {m \in Modules : IsEmitted(pm, m)}
           E == {Emitted(p, m) : m \in Modules}
<1>1. pm \in Seq(E) /\ \A e \in E : e.id \in Modules
  BY DEF EmittedInv, Emitted
<1> HIDE DEF E
<1>2. Len(pm) \in Nat /\ \A j \in 1 .. Len(pm) : pm[j].id \in Modules
  BY <1>1
<1>3. /\ \A j \in 1 .. Len(pm) : EmittedAt(p, pm, j)
      /\ Len(pm) > 0 /\ pm[Len(pm)].id = Root
  BY DEF EmittedInv
<1>4. \A m \in S : Edges(p, m) \subseteq S
  <2> SUFFICES ASSUME NEW m \in S, NEW x \in Edges(p, m) PROVE x \in S
    OBVIOUS
  <2>1. PICK i \in 1 .. Len(pm) : pm[i].id = m
    BY DEF IsEmitted
  <2>2. PICK j \in 1 .. (i - 1) : pm[j].id = x
    BY <2>1, <1>3 DEF EmittedAt
  <2>3. j \in 1 .. Len(pm)
    BY <2>1, <2>2, <1>2
  <2> QED
    BY <2>2, <2>3, <1>2 DEF IsEmitted
<1>5. Len(pm) \in 1 .. Len(pm)
  BY <1>2, <1>3
<1>6. Root \in S
  BY <1>2, <1>3, <1>5 DEF IsEmitted
<1>7. S \in ClosedSets(p, {Root})
  BY <1>4, <1>6 DEF ClosedSets
<1>8. ReachableIn(p) \subseteq S
  BY <1>6, <1>7, ReachedLeast DEF ReachableIn
<1>9. \A m : IsEmitted(pm, m) => m \in ReachableIn(p)
  BY <1>3 DEF IsEmitted, EmittedAt
<1> QED
  BY <1>8, <1>9

LEMMA NotRefusedOk == ~ Refused(program, "ok")
BY DEF Refused

\* A program that has been compiled could be.
LEMMA CompiledIsCompilable ==
    ASSUME CompileInv, outcome = "ok"
    PROVE  Compilable
<1>1. EmittedInv(program, <<>>, programModules) /\ program.validMain
  BY NotRefusedOk DEF CompileInv
<1>2. \A m : m \in ReachableIn(program) <=> IsEmitted(programModules, m)
  BY <1>1, AllEmitted
<1>3. \A m \in ReachableIn(program) : m \notin Reached(program, {m})
  BY <1>1, <1>2, NotReachedFromItself DEF IsEmitted
<1>4. \A m \in ReachableIn(program) : program.state[m] = "ok" /\ Foreign \notin Range(program.imports[m])
  BY <1>1, <1>2 DEF IsEmitted, EmittedInv, EmittedAt
<1> QED
  BY <1>1, <1>3, <1>4, SameReachability, Zenon DEF Compilable, CyclicIn, Imports

\* A program that has been refused could not be compiled.
LEMMA RefusedRight ==
    ASSUME Refused(program, outcome)
    PROVE  /\ ~ Compilable
           /\ outcome = "import cycle" => Cyclic
           /\ outcome \in States \ {"ok"} => \E m \in Reachable : program.state[m] = outcome
<1>1. /\ Reachable = ReachableIn(program)
      /\ Cyclic <=> CyclicIn(program)
  BY SameReachability
<1>2. ~ Compilable
  BY <1>1, Zenon DEF Refused, Compilable, SomeIs, Imports
<1>3. outcome = "import cycle" => Cyclic
  BY <1>1, Zenon DEF Refused, States
<1>4. outcome \in States \ {"ok"} => \E m \in Reachable : program.state[m] = outcome
  BY <1>1, Zenon DEF Refused, SomeIs, States
<1> QED
  BY <1>2, <1>3, <1>4, Zenon

\* The outcome of a compilation is the right one for every program, whatever its modules
\* import: it succeeds iff each module that is needed can be compiled and none imports
\* itself, and an error that is reported is one of the program (compileBalFile and
\* resolveImport in compile.bal).
THEOREM OutcomeAlwaysRight == Spec => []OutcomeRight
<1>1. CompileInv => OutcomeRight
  <2> SUFFICES ASSUME CompileInv, outcome # "running" PROVE OutcomeRight
    BY Zenon DEF OutcomeRight
  <2>1. CASE outcome = "ok"
    <3>1. Compilable
      BY <2>1, CompiledIsCompilable
    <3> QED
      BY <2>1, <3>1 DEF OutcomeRight
  <2>2. CASE outcome # "ok"
    <3>1. Refused(program, outcome)
      BY <2>2 DEF CompileInv
    <3> QED
      BY <2>2, <3>1, RefusedRight, Zenon DEF OutcomeRight
  <2> QED
    BY <2>1, <2>2
<1> QED
  BY <1>1, CompileInvariant, PTL

\* As many modules are emitted as are needed.
LEMMA EmittedCount ==
    ASSUME NEW p, NEW pm, EmittedInv(p, <<>>, pm)
    PROVE  Cardinality(ReachableIn(p)) = Len(pm) /\ Len(pm) \in Nat /\ Len(pm) > 0
<1> DEFINE f == [i \in 1 .. Len(pm) |-> pm[i].id]
           S == ReachableIn(p)
<1>1. Len(pm) \in Nat /\ Len(pm) > 0
  <2>1. pm \in Seq({Emitted(p, m) : m \in Modules}) /\ Len(pm) > 0
    BY DEF EmittedInv
  <2> QED
    BY <2>1
<1>2. \A m : m \in S <=> \E i \in 1 .. Len(pm) : pm[i].id = m
  BY AllEmitted DEF IsEmitted
<1> HIDE DEF S
<1>3. \A i, j \in 1 .. Len(pm) : pm[i].id = pm[j].id => i = j
  BY DEF EmittedInv
<1>4. f \in Bijection(1 .. Len(pm), S)
  BY <1>2, <1>3 DEF Bijection, Injection, Surjection, IsInjective
<1>5. ExistsBijection(1 .. Len(pm), S)
  BY <1>4 DEF ExistsBijection
<1> QED
  BY <1>1, <1>5, FS_CountingElements DEF S

\* Each module is emitted once and after the modules it imports, and the init module is
\* given all of them, the root first, for every graph of imports (emitModule in
\* compile.bal, buildInitModule in init.bal).
THEOREM ModulesEmittedInOrder == Spec => []EmittedInOrder
<1>1. CompileInv => EmittedInOrder
  <2> SUFFICES ASSUME CompileInv PROVE EmittedInOrder
    OBVIOUS
  <2> DEFINE pm == programModules
             E == {Emitted(program, m) : m \in Modules}
  <2>1. EmittedInv(program, calls, pm)
    BY DEF CompileInv
  <2>2. pm \in Seq(E)
    BY <2>1 DEF EmittedInv
  <2> HIDE DEF E
  <2>3. DOMAIN pm = 1 .. Len(pm)
    BY <2>2
  <2>4. \A i, j \in DOMAIN pm : pm[i].id = pm[j].id => i = j
    BY <2>1, <2>3, Zenon DEF EmittedInv
  <2>5. \A i \in DOMAIN pm : \A m \in Edges(program, pm[i].id) : \E j \in 1 .. i - 1 : pm[j].id = m
    BY <2>1, <2>3, Zenon DEF EmittedInv, EmittedAt
  <2>6. ASSUME usage # "none"
        PROVE  modules[1].id = Root /\ Len(modules) = Cardinality(ReachableIn(program))
    <3>1. modules = Reversed(pm) /\ calls = <<>>
      BY <2>6, NotRefusedOk DEF CompileInv
    <3>2. Cardinality(ReachableIn(program)) = Len(pm) /\ Len(pm) \in Nat /\ Len(pm) > 0
      BY <2>1, <3>1, EmittedCount
    <3>3. pm[Len(pm)].id = Root
      BY <2>1, <3>1 DEF EmittedInv
    <3>4. modules = [i \in 1 .. Len(pm) |-> pm[Len(pm) - i + 1]]
      BY <2>3, <3>1 DEF Reversed
    <3> HIDE DEF pm
    <3>5. Len(modules) = Len(pm) /\ modules[1] = pm[Len(pm)]
      BY <3>2, <3>4
    <3> QED
      BY <3>2, <3>3, <3>5
  <2> QED
    BY <2>4, <2>5, <2>6, SameReachability DEF EmittedInOrder
<1> QED
  BY <1>1, CompileInvariant, PTL
=============================================================================

----------------------------- MODULE Narrowing ------------------------------
(***************************************************************************)
(* How the front end generates code for statements when the type of a      *)
(* variable is narrowed (front/stmt.bal and front/expr.bal), what the      *)
(* verifier of the BIR says of the code (bir/verify.bal), and what the     *)
(* code does once the back end has built it (nback/typeTest.bal).          *)
(*                                                                         *)
(* A narrowed variable has a register of its own, with a copy of the value *)
(* of the variable at the time of the test.  The bindings that code        *)
(* generation hands from statement to statement have to keep a copy from   *)
(* being read after an assignment to the variable.                         *)
(*                                                                         *)
(* A function has one local variable, of register 1.  A type is a set of   *)
(* values.  Conditions that are not about the variable are left open.      *)
(***************************************************************************)
EXTENDS Integers, Sequences, FiniteSets, SequencesExt

CONSTANTS
    Values,         \* the values of the declared type of the variable
    Bodies          \* the bodies of functions: sequences of statements

VARIABLES
    body,           \* the source of the function
    code,           \* bir:FunctionCode
    stage,          \* what has been done with the function
    memory,         \* the value at the address of each register
    pc              \* the block and the instruction that come next

narrowVars == <<body, code, stage, memory, pc>>

Variable == 1
Uninitialized == "uninitialized"
Nowhere == <<0, 0>>
NoCode == [registers |-> <<>>, blocks |-> <<>>]

-----------------------------------------------------------------------------

(* Code under construction: g is a bir:FunctionCode with the loop contexts *)
(* and the first error.  Block 0 and the empty chain stand for ().         *)

Emit(g, block, insn) == [g EXCEPT !.blocks[block] = Append(@, insn)]

Branch(dest) == [op |-> "branch", dest |-> dest, backward |-> FALSE]
BackwardBranch(dest) == [op |-> "branch", dest |-> dest, backward |-> TRUE]

createBasicBlock(g) == [g EXCEPT !.blocks = Append(@, <<>>)]

createNarrowRegister(g, type, underlying) ==
    [g EXCEPT !.registers = Append(@, [type |-> type, underlying |-> underlying])]

SemanticErr(g, message) == IF g.err = "none" THEN [g EXCEPT !.err = message] ELSE g

(* A chain of bindings, the oldest first: a chain that is a limit is a      *)
(* prefix of the chains it limits.                                          *)

Narrowed(bindings, reg) == Append(bindings, [kind |-> "narrow", reg |-> reg, invalidates |-> 0])

Current(bindings) == Last(bindings)

bindingsUpTo(limit, bindings) == SubSeq(bindings, Len(limit) + 1, Len(bindings))

\* The declaration is the only binding that is not an occurrence, and it is
\* outside of every scope.
addBindings(limit, bindings) == limit \o bindingsUpTo(limit, bindings)

addAssignments(limit, bindings, root) ==
    root \o SelectSeq(bindingsUpTo(limit, bindings), LAMBDA b : b.kind = "assign")

OrElse(bindings, default) == IF bindings = <<>> THEN default ELSE bindings

-----------------------------------------------------------------------------

(* Type mergers: the block where branches meet, and for each branch where   *)
(* it comes from and the bindings there.                                    *)

NoMerger == [dest |-> 0, origins |-> <<>>]
NoPrevs == [t |-> NoMerger, f |-> NoMerger]

CreateMerger(g, bindings, label, merger) ==
    LET dest == IF merger.dest = 0 THEN Len(g.blocks) + 1 ELSE merger.dest
    IN  [g |-> IF merger.dest = 0 THEN createBasicBlock(g) ELSE g,
         merger |-> [dest |-> dest,
                     origins |-> Append(merger.origins, [label |-> label, bindings |-> bindings])]]

\* The mergers of both sides of a branch at the end of a block, and the branch.
CreateMergers(g, block, ifTrue, ifFalse, prevs, insn) ==
    LET WithFalse(t, f) ==
            [g |-> Emit(f.g, block, [insn EXCEPT !.ifTrue = t.merger.dest, !.ifFalse = f.merger.dest]),
             t |-> t.merger, f |-> f.merger]
        WithTrue(t) == WithFalse(t, CreateMerger(t.g, ifFalse, block, prevs.f))
    IN  WithTrue(CreateMerger(g, ifTrue, block, prevs.t))

\* Mutant: a merge takes place when some of the branches have a binding.
SomeUnbound_AllUnbound(limit, origins) ==
    \A i \in DOMAIN origins : bindingsUpTo(limit, origins[i].bindings) = <<>>

SomeUnbound(limit, origins) ==
    \E i \in DOMAIN origins : bindingsUpTo(limit, origins[i].bindings) = <<>>

\* The variable is bound to a new register when every branch has a binding for it,
\* above the limit, and the union of their types is not the type it has there.
codeGenTypeMerge(g, block, limit, origins) ==
    LET bound == {i \in DOMAIN origins : bindingsUpTo(limit, origins[i].bindings) # <<>>}
        operands == [i \in bound |-> Current(origins[i].bindings).reg]
        union == UNION {g.registers[operands[i]].type : i \in bound}
        merged == Len(g.registers) + 1
        insn == [op |-> "merge", result |-> merged, operands |-> operands,
                 preds |-> [i \in bound |-> origins[i].label]]
    IN  IF origins = <<>> THEN [g |-> g, bindings |-> limit]
        ELSE IF Len(origins) = 1 THEN [g |-> g, bindings |-> origins[1].bindings]
        ELSE IF SomeUnbound(limit, origins) \/ g.registers[Current(limit).reg].type = union
             THEN [g |-> g, bindings |-> limit]
        ELSE [g |-> Emit(createNarrowRegister(g, union, Variable), block, insn),
              bindings |-> Narrowed(limit, merged)]

codeGenConstCond(g, bindings, block, const, prevs) ==
    LET side == prevs.t.dest # 0
        merger == IF side THEN prevs.t ELSE prevs.f
        Pair(h, taken, notTaken) ==
            [g |-> h, t |-> IF const THEN taken ELSE notTaken, f |-> IF const THEN notTaken ELSE taken]
        Diverted(new) == Pair(Emit(new.g, block, Branch(new.merger.dest)), new.merger, merger)
    IN  IF prevs = NoPrevs THEN Pair(g, [dest |-> block, origins |-> <<>>], NoMerger)
        ELSE IF side = const THEN Pair(Emit(g, block, Branch(merger.dest)), merger, NoMerger)
        ELSE Diverted(CreateMerger(g, bindings, block, NoMerger))

codeGenTypeTestForCond(g, bindings, block, type, negated, prevs) ==
    LET reg == Current(bindings).reg
        cur == g.registers[reg].type
        yes == IF negated THEN cur \ type ELSE cur \cap type
        ifTrue == Len(g.registers) + 1
        ifFalse == Len(g.registers) + 2
    IN  IF cur \ yes = {} THEN codeGenConstCond(g, bindings, block, TRUE, prevs)
        ELSE IF yes = {} THEN codeGenConstCond(g, bindings, block, FALSE, prevs)
        ELSE CreateMergers(createNarrowRegister(createNarrowRegister(g, yes, reg), cur \ yes, reg), block,
                           Narrowed(bindings, ifTrue), Narrowed(bindings, ifFalse), prevs,
                           [op |-> "typeCond", operand |-> reg, type |-> yes, ifTrue |-> 0, ifFalse |-> 0,
                            ifTrueRegister |-> ifTrue, ifFalseRegister |-> ifFalse])

RECURSIVE codeGenExprForCond(_, _, _, _, _)

\* In a chain of && the merger of the false side grows, in a chain of || that of
\* the true side.  The value of lhs may be known.
codeGenLogicalBinaryExpr(lhs, bindings, cond, prevs) ==
    LET isOr == cond.op = "||"
        merger == IF isOr THEN lhs.f ELSE lhs.t
        Rhs(m) == codeGenExprForCond(m.g, m.bindings, merger.dest, cond.right,
                                     [NoPrevs EXCEPT ![IF isOr THEN "t" ELSE "f"] = IF isOr THEN lhs.t ELSE lhs.f])
    IN  IF lhs.t.dest # 0 /\ lhs.f.dest # 0
        THEN Rhs(codeGenTypeMerge(lhs.g, merger.dest, bindings, merger.origins))
        ELSE IF (lhs.t.dest # 0) = isOr THEN lhs
        ELSE codeGenExprForCond(lhs.g, bindings, merger.dest, cond.right, prevs)

\* A comparison with a constant is a test for its type; one that is never equal is
\* refused.  It is modelled for a variable whose type has several values.
codeGenExprForCond(g, bindings, block, cond, prevs) ==
    LET Flip(pair) == [pair EXCEPT !.t = pair.f, !.f = pair.t]
        Compared(pair) ==
            IF (IF cond.negated THEN pair.f ELSE pair.t).dest # 0 THEN pair
            ELSE [pair EXCEPT !.g = SemanticErr(@, "intersection of operands is empty")]
    IN  CASE cond.op = "==" ->
                Compared(codeGenTypeTestForCond(g, bindings, block, {cond.value}, cond.negated, prevs))
          [] cond.op = "is" -> codeGenTypeTestForCond(g, bindings, block, cond.type, cond.negated, prevs)
          [] cond.op = "const" -> codeGenConstCond(g, bindings, block, cond.value, prevs)
          [] cond.op = "boolean" ->
                CreateMergers(g, block, bindings, bindings, prevs, [op |-> "cond", ifTrue |-> 0, ifFalse |-> 0])
          [] cond.op = "!" -> Flip(codeGenExprForCond(g, bindings, block, cond.operand, Flip(prevs)))
          [] cond.op \in {"&&", "||"} ->
                codeGenLogicalBinaryExpr(codeGenExprForCond(g, bindings, block, cond.left, prevs),
                                         bindings, cond, prevs)

-----------------------------------------------------------------------------

(* Statements: the code, the block after it or 0, and the bindings there,   *)
(* which are empty when they are the ones before it.                        *)

Effect(g, block, bindings) == [g |-> g, block |-> block, bindings |-> bindings]

NoLoop == [onBreak |-> 0, onContinue |-> 0, backward |-> FALSE, breaks |-> <<>>, continues |-> <<>>]

PushLoop(g, onBreak, onContinue, backward) ==
    [g EXCEPT !.loops = Append(@, [NoLoop EXCEPT !.onBreak = onBreak, !.onContinue = onContinue,
                                                 !.backward = backward])]

PopLoop(g) == [g EXCEPT !.loops = Front(@)]

codeGenBreakContinueStmt(g, block, bindings, stmt) ==
    LET isBreak == stmt.op = "break"
        loop == Last(g.loops)
        known == IF isBreak THEN loop.onBreak ELSE loop.onContinue
        dest == IF known = 0 THEN Len(g.blocks) + 1 ELSE known
        left == IF isBreak
                THEN [loop EXCEPT !.onBreak = dest, !.breaks = Append(@, bindings)]
                ELSE [loop EXCEPT !.onContinue = dest, !.continues = Append(@, bindings)]
        insn == IF ~ isBreak /\ loop.backward THEN BackwardBranch(dest) ELSE Branch(dest)
    IN  IF g.loops = <<>> THEN Effect(SemanticErr(g, "not in loop"), 0, <<>>)
        ELSE Effect(Emit([(IF known = 0 THEN createBasicBlock(g) ELSE g) EXCEPT !.loops = Append(Front(@), left)],
                         block, insn), 0, <<>>)

\* An assignment is to the register of the variable; it ends the narrowing.
codeGenAssignStmt(g, block, bindings, stmt) ==
    LET b == Current(bindings)
    IN  Effect(Emit(g, block, [op |-> "assign", value |-> stmt.value]), block,
               IF b.kind # "narrow" THEN <<>>
               ELSE Append(bindings, [kind |-> "assign", reg |-> Variable, invalidates |-> b.reg]))

\* Mutant: assignments in a loop are never refused.
ValidAssignments_Always(limit, bindings, startRegister) == TRUE

ValidAssignments(limit, bindings, startRegister) ==
    \A i \in DOMAIN bindingsUpTo(limit, bindings) :
        LET b == bindingsUpTo(limit, bindings)[i]
        IN  b.kind = "assign" => b.invalidates >= startRegister

validLoopAssignments(g, limit, chains, startRegister) ==
    IF \A i \in DOMAIN chains : ValidAssignments(limit, chains[i], startRegister) THEN g
    ELSE SemanticErr(g, "assignment to narrowed variable in loop")

\* The assignments that are in force where the loop is left by a break.
AfterBreaks(loop, limit, bindings) ==
    IF loop.breaks = <<>> THEN <<>>
    ELSE FoldLeft(LAMBDA root, chain : addAssignments(limit, chain, root), bindings, loop.breaks)

RECURSIVE codeGenStmt(_, _, _, _)

RECURSIVE codeGenStmts(_, _)
codeGenStmts(effect, stmts) ==
    LET After(e) == [e EXCEPT !.bindings = OrElse(@, effect.bindings)]
    IN  IF stmts = <<>> \/ effect.g.err # "none" THEN effect
        ELSE IF effect.block = 0 THEN Effect(SemanticErr(effect.g, "unreachable code"), 0, <<>>)
        ELSE codeGenStmts(After(codeGenStmt(effect.g, effect.block, effect.bindings, Head(stmts))), Tail(stmts))

codeGenScope(g, block, bindings, stmts) ==
    LET Outer(e) == [e EXCEPT !.bindings = IF e.block = 0 THEN <<>> ELSE addBindings(bindings, @)]
    IN  Outer(codeGenStmts(Effect(g, block, bindings), stmts))

codeGenScopeWithTypeMerger(g, merger, bindings, stmts) ==
    LET From(m) == codeGenScope(m.g, merger.dest, m.bindings, stmts)
    IN  From(codeGenTypeMerge(g, merger.dest, bindings, merger.origins))

MergeAt(g, dest, bindings, origins) ==
    LET At(m) == Effect(m.g, dest, m.bindings)
    IN  At(codeGenTypeMerge(g, dest, bindings, origins))

Origin(e) == [label |-> e.block, bindings |-> e.bindings]

\* The condition is singleton true or singleton false.
IfElseConst(cond, block, bindings, stmt) ==
    LET const == cond.t.dest # 0
        merger == IF const THEN cond.t ELSE cond.f
        taken == IF const THEN stmt.ifTrue ELSE stmt.ifFalse
        notTaken == IF const THEN stmt.ifFalse ELSE stmt.ifTrue
    IN  IF notTaken # <<>> THEN Effect(SemanticErr(cond.g, "unreachable code"), block, <<>>)
        ELSE IF ~ const /\ taken = <<>> THEN Effect(cond.g, merger.dest, <<>>)
        ELSE codeGenScopeWithTypeMerger(cond.g, merger, bindings, taken)

IfOnly(yes, cond, bindings) ==
    IF yes.block = 0 THEN MergeAt(yes.g, cond.f.dest, bindings, cond.f.origins)
    ELSE MergeAt(Emit(yes.g, yes.block, Branch(cond.f.dest)), cond.f.dest, bindings,
                 Append(cond.f.origins, Origin(yes)))

IfAndElse(yes, no, bindings) ==
    LET dest == Len(no.g.blocks) + 1
    IN  IF yes.block # 0 /\ no.block # 0
        THEN MergeAt(Emit(Emit(createBasicBlock(no.g), yes.block, Branch(dest)), no.block, Branch(dest)),
                     dest, bindings, <<Origin(yes), Origin(no)>>)
        ELSE Effect(no.g, IF yes.block # 0 THEN yes.block ELSE no.block, OrElse(yes.bindings, no.bindings))

\* An empty ifFalse is an if without else.
codeGenIfElseStmt(g, block, bindings, stmt) ==
    LET Arms(yes, cond) ==
            IF stmt.ifFalse = <<>> THEN IfOnly(yes, cond, bindings)
            ELSE IfAndElse(yes, codeGenScopeWithTypeMerger(yes.g, cond.f, bindings, stmt.ifFalse), bindings)
        On(cond) ==
            IF cond.t.dest = 0 \/ cond.f.dest = 0 THEN IfElseConst(cond, block, bindings, stmt)
            ELSE Arms(codeGenScopeWithTypeMerger(cond.g, cond.t, bindings, stmt.ifTrue), cond)
    IN  On(codeGenExprForCond(g, bindings, block, stmt.cond, NoPrevs))

\* The end of the body of a loop: a branch, and the check of every way to the next
\* iteration.  The limit is the bindings where the body starts.
EndLoop(e, bindings, limit, startRegister) ==
    LET loop == Last(e.g.loops)
        fresh == e.block # 0 /\ loop.onContinue = 0
        onContinue == IF fresh THEN Len(e.g.blocks) + 1 ELSE loop.onContinue
        ended == IF e.block = 0 THEN e.g
                 ELSE Emit(IF fresh THEN createBasicBlock(e.g) ELSE e.g, e.block,
                           IF loop.backward THEN BackwardBranch(onContinue) ELSE Branch(onContinue))
        ways == loop.continues \o (IF e.block = 0 THEN <<>> ELSE <<e.bindings>>)
    IN  [g |-> PopLoop(validLoopAssignments(ended, limit, ways, startRegister)),
         onContinue |-> onContinue, onBreak |-> loop.onBreak,
         bindings |-> AfterBreaks(loop, limit, bindings)]

\* The bindings where the condition is false are not used after the loop.
finishCodeGenWhileStmt(cond, bindings, stmt, loopHead, startRegister) ==
    LET Body(m) ==
            EndLoop(codeGenScope(PushLoop(m.g, cond.f.dest, loopHead, TRUE), cond.t.dest, m.bindings, stmt.body),
                    bindings, m.bindings, startRegister)
        After(loop) == Effect(loop.g, loop.onBreak, loop.bindings)
        exit == codeGenTypeMerge(cond.g, cond.f.dest, bindings, cond.f.origins)
    IN  After(Body(codeGenTypeMerge(exit.g, cond.t.dest, bindings, cond.t.origins)))

codeGenWhileStmt(g, block, bindings, stmt) ==
    LET loopHead == Len(g.blocks) + 1
        On(cond) ==
            IF cond.t.dest # 0
            THEN finishCodeGenWhileStmt(cond, bindings, stmt, loopHead, Len(g.registers) + 1)
            ELSE IF stmt.body # <<>> THEN Effect(SemanticErr(cond.g, "unreachable code"), block, <<>>)
            ELSE MergeAt(cond.g, cond.f.dest, bindings, cond.f.origins)
    IN  On(codeGenExprForCond(Emit(createBasicBlock(g), block, Branch(loopHead)), bindings, loopHead,
                              stmt.cond, NoPrevs))

codeGenForeachStmt(g, block, bindings, stmt) ==
    LET loopHead == Len(g.blocks) + 1
        exit == Len(g.blocks) + 2
        loopBody == Len(g.blocks) + 3
        entered == [Emit(g, block, Branch(loopHead)) EXCEPT
                      !.blocks = @ \o <<<<[op |-> "cond", ifTrue |-> loopBody, ifFalse |-> exit]>>, <<>>, <<>>>>]
        After(loop) ==
            Effect(IF loop.onContinue = 0 THEN loop.g ELSE Emit(loop.g, loop.onContinue, BackwardBranch(loopHead)),
                   exit, loop.bindings)
    IN  After(EndLoop(codeGenScope(PushLoop(entered, exit, 0, FALSE), loopBody, bindings, stmt.body),
                      bindings, bindings, Len(g.registers) + 1))

(* A clause of a match statement has the set of its constant patterns, or   *)
(* all values when it has the wildcard.                                     *)

Preceding(clauses, i) == UNION {clauses[j].patterns : j \in 1 .. i - 1}

BadClause(clauses, i, matched) ==
    \/ /\ clauses[i].patterns # Values
       /\ \/ clauses[i].patterns \cap Preceding(clauses, i) # {}
          \/ ~ clauses[i].patterns \subseteq matched
    \/ matched \subseteq Preceding(clauses, i)

\* One test for each clause but the one that is left when no other matches.
MatchTests(g, block, bindings, clauses, default) ==
    LET reg == Current(bindings).reg
        matched == g.registers[reg].type
        Test(acc, i) ==
            LET preceding == Preceding(clauses, i)
                ifTrue == Len(acc.g.registers) + 1
                nextBlock == Len(acc.g.blocks) + 1
                insn == [op |-> "typeCond", operand |-> acc.unmatched, type |-> clauses[i].patterns,
                         ifTrue |-> Len(g.blocks) - Len(clauses) + i, ifFalse |-> nextBlock,
                         ifTrueRegister |-> ifTrue, ifFalseRegister |-> ifTrue + 1]
            IN  IF i = default
                THEN [acc EXCEPT !.bindings = Append(@, IF i = 1 THEN bindings ELSE Narrowed(bindings, acc.unmatched))]
                ELSE [g |-> Emit(createBasicBlock(
                                   createNarrowRegister(
                                     createNarrowRegister(acc.g, clauses[i].patterns \ preceding, reg),
                                     matched \ (preceding \cup clauses[i].patterns), reg)), acc.block, insn),
                      block |-> nextBlock, unmatched |-> ifTrue + 1,
                      bindings |-> Append(acc.bindings, Narrowed(bindings, ifTrue))]
    IN  FoldLeft(Test, [g |-> g, block |-> block, unmatched |-> reg, bindings |-> <<>>],
                 [i \in 1 .. Len(clauses) |-> i])

\* The end of a clause, or of the tests: a branch to the block after the statement.
ToCont(acc, g, block, bindings) ==
    LET cont == IF acc.block = 0 THEN Len(g.blocks) + 1 ELSE acc.block
    IN  Effect(Emit(IF acc.block = 0 THEN createBasicBlock(g) ELSE g, block, Branch(cont)), cont, bindings)

MatchClauses(tests, first, bindings, clauses) ==
    LET End(acc, e) ==
            IF e.block = 0 THEN [acc EXCEPT !.g = e.g]
            ELSE ToCont(acc, e.g, e.block, addAssignments(bindings, e.bindings, OrElse(acc.bindings, bindings)))
        Clause(acc, i) == End(acc, codeGenScope(acc.g, first + i, tests.bindings[i], clauses[i].body))
    IN  FoldLeft(Clause, Effect(tests.g, 0, <<>>), [i \in 1 .. Len(clauses) |-> i])

codeGenMatchStmt(g, block, bindings, stmt) ==
    LET clauses == stmt.clauses
        n == Len(clauses)
        matched == g.registers[Current(bindings).reg].type
        default == IF matched \subseteq Preceding(clauses, n + 1) THEN n ELSE 0
        End(arms, tests) ==
            IF default # 0 THEN [arms EXCEPT !.g = Emit(@, tests.block, Branch(Len(g.blocks) + n))]
            ELSE ToCont(arms, arms.g, tests.block, arms.bindings)
        Clauses(tests) == End(MatchClauses(tests, Len(g.blocks), bindings, clauses), tests)
    IN  IF \E i \in 1 .. n : BadClause(clauses, i, matched)
        THEN Effect(SemanticErr(g, "match pattern"), block, <<>>)
        ELSE Clauses(MatchTests([g EXCEPT !.blocks = @ \o [i \in 1 .. n |-> <<>>]], block, bindings, clauses, default))

\* A use stores the value of the variable in a structure (an instruction without a
\* result: verifyRegFlow does not look at the operands of the others).
codeGenStmt(g, block, bindings, stmt) ==
    CASE stmt.op = "use" ->
            Effect(Emit(g, block, [op |-> "use", operand |-> Current(bindings).reg]), block, <<>>)
      [] stmt.op = "assign" -> codeGenAssignStmt(g, block, bindings, stmt)
      [] stmt.op = "if" -> codeGenIfElseStmt(g, block, bindings, stmt)
      [] stmt.op = "while" -> codeGenWhileStmt(g, block, bindings, stmt)
      [] stmt.op = "foreach" -> codeGenForeachStmt(g, block, bindings, stmt)
      [] stmt.op = "match" -> codeGenMatchStmt(g, block, bindings, stmt)
      [] stmt.op \in {"break", "continue"} -> codeGenBreakContinueStmt(g, block, bindings, stmt)
      [] stmt.op = "return" -> Effect(Emit(g, block, [op |-> "ret"]), 0, <<>>)

Declared == <<[kind |-> "decl", reg |-> Variable, invalidates |-> 0]>>

codeGenFunction(stmts) ==
    LET g == [registers |-> <<[type |-> Values, underlying |-> 0]>>, blocks |-> <<<<>>>>,
              loops |-> <<>>, err |-> "none"]
        End(e) == IF e.block = 0 THEN e.g ELSE Emit(e.g, e.block, [op |-> "ret"])
    IN  End(codeGenScope(g, 1, Declared, stmts))

-----------------------------------------------------------------------------

(* bir:verifyFunctionCode, as far as it looks at the flow of control and of *)
(* registers.                                                               *)

Terminator(c, l) == Last(c.blocks[l])

FwdTargets(c, l) ==
    LET insn == Terminator(c, l)
    IN  CASE insn.op = "branch" /\ ~ insn.backward -> <<insn.dest>>
          [] insn.op \in {"cond", "typeCond"} -> <<insn.ifTrue, insn.ifFalse>>
          [] OTHER -> <<>>

\* A block is visited on the first way to it: a forward branch is not to a block
\* on that way, a backward branch is to one.
RECURSIVE verifyGraph(_, _, _, _)
verifyGraph(c, l, preds, acc) ==
    LET path == preds \cup {l}
        insn == Terminator(c, l)
        Child(a, s) ==
            IF s \in path THEN [a EXCEPT !.valid = FALSE]
            ELSE IF s \in a.visited THEN a
            ELSE verifyGraph(c, s, path, a)
    IN  IF c.blocks[l] = <<>> THEN [acc EXCEPT !.valid = FALSE]
        ELSE IF insn.op = "branch" /\ insn.backward
             THEN [valid |-> acc.valid /\ insn.dest \in path, visited |-> acc.visited \cup {l}]
        ELSE FoldLeft(Child, [acc EXCEPT !.visited = @ \cup {l}], FwdTargets(c, l))

Origins(c, l) == {p \in DOMAIN c.blocks : l \in ToSet(FwdTargets(c, p))}

verifyReachable(c, visited) == visited = DOMAIN c.blocks

Merges(c, l) == {i \in DOMAIN c.blocks[l] : c.blocks[l][i].op = "merge"}

\* The registers that are initialized where block l starts, and those that are
\* when control goes from block p to block l.
RECURSIVE InitializedAt(_, _)
Flow(c, p, l) ==
    LET insn == Terminator(c, p)
    IN  InitializedAt(c, p)
          \cup {c.blocks[p][i].result : i \in Merges(c, p)}
          \cup {r \in DOMAIN c.registers : insn.op = "typeCond" /\ l = insn.ifTrue /\ r = insn.ifTrueRegister}
          \cup {r \in DOMAIN c.registers : insn.op = "typeCond" /\ l = insn.ifFalse /\ r = insn.ifFalseRegister}
InitializedAt(c, l) ==
    IF l = 1 THEN {Variable}
    ELSE {r \in DOMAIN c.registers : \A p \in Origins(c, l) : r \in Flow(c, p, l)}

IsConst(c, r) == Cardinality(c.registers[r].type) = 1

verifyTypeMergeFlow(c, l, i) ==
    LET insn == c.blocks[l][i]
    IN  /\ \A j \in 1 .. i - 1 : j \in Merges(c, l)
        /\ Cardinality(DOMAIN insn.operands) = Cardinality(Origins(c, l))
        /\ \A k \in DOMAIN insn.operands :
              insn.preds[k] \in Origins(c, l) /\ insn.operands[k] \in Flow(c, insn.preds[k], l)

verifyRegFlow(c) ==
    \A l \in DOMAIN c.blocks : \A i \in DOMAIN c.blocks[l] :
        LET insn == c.blocks[l][i]
            initialized == InitializedAt(c, l) \cup {c.blocks[l][j].result : j \in Merges(c, l)}
        IN  /\ insn.op = "merge" => verifyTypeMergeFlow(c, l, i)
            /\ insn.op = "typeCond" => insn.operand \in initialized
            /\ insn.op = "use" => IsConst(c, insn.operand) \/ insn.operand \in initialized

verifyFunctionCode(c) ==
    LET On(graph) == graph.valid /\ verifyReachable(c, graph.visited) /\ verifyRegFlow(c)
    IN  On(verifyGraph(c, 1, {}, [valid |-> TRUE, visited |-> {}]))

-----------------------------------------------------------------------------

(* The code of the back end.  A narrow register is stored where the block   *)
(* that a test leads to starts, unless it is merged there.                  *)

NarrowRegs(c, l) ==
    UNION {LET insn == Terminator(c, p)
           IN  {r \in DOMAIN c.registers : /\ insn.op = "typeCond"
                                           /\ \/ l = insn.ifTrue /\ r = insn.ifTrueRegister
                                              \/ l = insn.ifFalse /\ r = insn.ifFalseRegister} : p \in Origins(c, l)}

buildTypeMerges(c, l, m) ==
    LET merged == UNION {{c.blocks[l][i].operands[k] : k \in DOMAIN c.blocks[l][i].operands} : i \in Merges(c, l)}
        results == {c.blocks[l][i].result : i \in Merges(c, l)}
    IN  [r \in DOMAIN m |-> IF r \in results THEN m[Variable]
                            ELSE IF r \in NarrowRegs(c, l) \ merged THEN m[c.registers[r].underlying]
                            ELSE m[r]]

Insn == code.blocks[pc[1]][pc[2]]
At(op) == stage = "running" /\ Insn.op = op

Goto(l) ==
    /\ memory' = buildTypeMerges(code, l, memory)
    /\ pc' = <<l, Cardinality(Merges(code, l)) + 1>>
    /\ UNCHANGED <<body, code, stage>>

Generate ==
    /\ stage = "source"
    /\ UNCHANGED body
    /\ \E g \in {codeGenFunction(body)} :
          \/ /\ g.err = "none" /\ verifyFunctionCode(g)
             /\ stage' = "running"
             /\ code' = [registers |-> g.registers, blocks |-> g.blocks]
             /\ \E v \in Values :
                   memory' = [r \in DOMAIN g.registers |-> IF r = Variable THEN v ELSE Uninitialized]
             /\ pc' = <<1, 1>>
          \/ /\ stage' = IF g.err # "none" THEN "refused" ELSE "invalid"
             /\ g.err # "none" \/ ~ verifyFunctionCode(g)
             /\ UNCHANGED <<code, memory, pc>>

AssignInsn ==
    /\ At("assign")
    /\ memory' = [memory EXCEPT ![Variable] = Insn.value]
    /\ pc' = [pc EXCEPT ![2] = @ + 1]
    /\ UNCHANGED <<body, code, stage>>

UseInsn == At("use") /\ pc' = [pc EXCEPT ![2] = @ + 1] /\ UNCHANGED <<body, code, stage, memory>>

BranchInsn == At("branch") /\ Goto(Insn.dest)

CondBranchInsn == At("cond") /\ \E l \in {Insn.ifTrue, Insn.ifFalse} : Goto(l)

TypeCondBranchInsn ==
    At("typeCond") /\ Goto(IF memory[Insn.operand] \in Insn.type THEN Insn.ifTrue ELSE Insn.ifFalse)

RetInsn == At("ret") /\ stage' = "returned" /\ UNCHANGED <<body, code, memory, pc>>

NarrowInit ==
    /\ body \in Bodies
    /\ code = NoCode
    /\ stage = "source"
    /\ memory = <<>>
    /\ pc = Nowhere

NarrowNext ==
    \/ Generate \/ AssignInsn \/ UseInsn \/ BranchInsn \/ CondBranchInsn \/ TypeCondBranchInsn \/ RetInsn

-----------------------------------------------------------------------------

\* The value of an operand: a register whose type has one value is a constant.
ValueOf(r) == IF IsConst(code, r) THEN CHOOSE v \in code.registers[r].type : TRUE ELSE memory[r]

\* An assignment shadows the narrowed binding (lookupVarRefForAssign): wherever a
\* variable is used or tested, what is read is the value it has, also when it
\* is assigned to in a branch, a loop or a clause, and it is of the type that the
\* code was generated for.
ReadsCurrent ==
    /\ At("use") => /\ ValueOf(Insn.operand) = memory[Variable]
                    /\ memory[Variable] \in code.registers[Insn.operand].type
    /\ At("typeCond") => memory[Insn.operand] = memory[Variable]

\* What code generation emits passes the verifier: on every way to a use of a
\* narrow register it has been stored, and a merge has one operand for each way
\* into its block.
CodeAccepted == stage # "invalid"
=============================================================================

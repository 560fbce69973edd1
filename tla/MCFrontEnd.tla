----------------------------- MODULE MCFrontEnd -----------------------------
(* The modules of MCTypeResolution, and functions with a local variable     *)
(* whose type has two ints and a string.                                    *)
EXTENDS FrontEnd, MCTypeResolution

CONSTANTS i1, i2, s1

ThreeValues == {i1, i2, s1}

Is(type) == [op |-> "is", type |-> type, negated |-> FALSE]
IsNot(type) == [op |-> "is", type |-> type, negated |-> TRUE]
Equals(v, negated) == [op |-> "==", value |-> v, negated |-> negated]
Bool == [op |-> "boolean"]
Always == [op |-> "const", value |-> TRUE]

Use == [op |-> "use"]
Set(v) == [op |-> "assign", value |-> v]
Leave(op) == [op |-> op]
If(cond, ifTrue, ifFalse) == [op |-> "if", cond |-> cond, ifTrue |-> ifTrue, ifFalse |-> ifFalse]
While(cond, stmts) == [op |-> "while", cond |-> cond, body |-> stmts]
Foreach(stmts) == [op |-> "foreach", body |-> stmts]
Match(clauses) == [op |-> "match", clauses |-> clauses]
Clause(patterns, stmts) == [patterns |-> patterns, body |-> stmts]

Tests == {Is({i1, i2}), Is({i1}), IsNot({s1})}
Compares == {Equals(i2, FALSE), Equals(s1, TRUE)}
Atoms == {Bool} \cup Tests
Conds ==
    Atoms \cup Compares \cup {[op |-> "!", operand |-> x] : x \in Tests \cup Compares}
      \cup {[op |-> o, left |-> x, right |-> Bool] : o \in {"&&", "||"}, x \in Compares}
      \cup {[op |-> o, left |-> x, right |-> y] : o \in {"&&", "||"}, x, y \in Atoms}

Straight == {<<Use>>, <<Set(s1)>>, <<Set(i2), Use>>, <<Set(s1), Leave("return")>>}
Leaving == {<<Set(s1), Leave(o)>> : o \in {"break", "continue", "return"}}
Inside(arms, others) == {<<Use, If(x, y, z), Use>> : x \in {Bool, Is({i1, i2})}, y \in arms, z \in others}
Matches == {Match(<<Clause({i1}, x), Clause(p, y)>>) : p \in {{i2}, {i2, s1}, ThreeValues}, x, y \in Straight}

\* The variable is not narrowed where a statement starts that assigns to it.
FromDeclared ==
    {If(x, y, z) : x \in Conds, y \in Straight, z \in Straight \cup {<<>>}}
      \cup {While(x, y) : x \in {Bool, Always}, y \in Inside(Straight \cup Leaving, {<<>>, <<Set(i2)>>})}
      \cup {Foreach(y) : y \in Inside(Straight \cup Leaving, {<<>>, <<Set(i2)>>})}
      \cup {While(x, y) : x \in Tests, y \in Straight \cup Leaving \cup Inside(Leaving, {<<>>, <<Use>>})}
      \cup Matches \cup {Foreach(<<Use, x>>) : x \in Matches}

\* It is narrowed there: assignments in a loop, in a match statement, and in
\* branches from which control does not go on.
FromNarrowed ==
    {While(Bool, y) : y \in Straight \cup Leaving} \cup {Foreach(y) : y \in Straight \cup Leaving}
      \cup {Foreach(<<Use, If(Bool, y, <<>>), Use>>) : y \in Leaving}
      \cup {If(x, <<Set(s1), Leave("return")>>, <<Use>>) : x \in Atoms}
      \cup {If(Equals(s1, FALSE), <<Set(s1), Leave("return")>>, <<Use>>)}
      \cup Matches

LocalBodies ==
    {<<x, Use>> : x \in FromDeclared}
      \cup {<<If(x, <<y, Use>>, <<>>), Use>> : x \in Tests, y \in FromNarrowed}
      \cup {<<If(x, <<Leave("return")>>, <<>>), y, Use>> : x \in Tests, y \in FromNarrowed}

\* It is narrowed there, and one branch assigns to it or it is narrowed again.
JoinedBodies ==
    {<<If(Is({i1, i2}), <<If(Bool, <<Set(s1)>>, <<>>), Use>>, <<>>)>>,
     <<If(Is({i1, i2}), <<Foreach(<<Use, If(Is({i1}), <<Set(s1), Leave("continue")>>, <<>>)>>)>>, <<>>)>>}
=============================================================================

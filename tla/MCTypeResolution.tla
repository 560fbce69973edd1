-------------------------- MODULE MCTypeResolution --------------------------
(* Modules of two type definitions, and some with constants and functions. *)
EXTENDS TypeResolution, TypeMeaning, TLC

CONSTANTS A, B, c, d, fn

Integer == [op |-> "builtin", type |-> "int"]
Str == [op |-> "builtin", type |-> "string"]
Ref(n) == [op |-> "ref", name |-> n]
Tuple(tds) == [op |-> "list", tds |-> tds, rest |-> FALSE, dimensions |-> 1]
Array(td, n) == [op |-> "list", tds |-> <<td>>, rest |-> TRUE, dimensions |-> n]
Record(tds) == [op |-> "mapping", tds |-> tds, rest |-> FALSE, dimensions |-> 1]
Map(td) == [op |-> "mapping", tds |-> <<td>>, rest |-> TRUE, dimensions |-> 1]
Op(op, tds) == [op |-> op, tds |-> tds]

AllNames == {A, B, c, d, fn}

Leaves == {Integer, Ref(A), Ref(B)}
Refs == {Ref(A), Ref(B)}
Structures == {Tuple(<<x>>) : x \in Leaves} \cup {Array(x, 1) : x \in Refs} \cup {Map(x) : x \in Refs}

TypeDescs ==
    Leaves \cup Structures
      \cup {Tuple(<<x, y>>) : x, y \in Leaves}
      \cup {Record(<<x>>) : x \in Refs}
      \cup {Op("?", <<x>>) : x \in Refs} \cup {Op("(", <<x>>) : x \in Refs}
      \cup {Op("|", <<x, y>>) : x \in Leaves, y \in Structures}
      \cup {Op("&", <<x, y>>) : x \in Refs, y \in Structures \cup {Integer}}
      \cup {Tuple(<<Op(op, <<x, y>>)>>) : op \in {"|", "&"}, x \in Refs, y \in {Integer, Array(Ref(A), 1)}}

TypeDefn(td) == [kind |-> "type", td |-> td]
Module(td1, td2) == [order |-> <<A, B>>, defn |-> (A :> TypeDefn(td1) @@ B :> TypeDefn(td2))]

\* A cycle through parentheses is not seen by the test of depth, and resolution
\* recurses without end: such modules are left out.
SeenByDepth(p) ==
    ~ UnguardedCycle(p.defn)
      \/ \A n \in {A, B} : p.defn[n].td.op = "(" => DirectRefs(p.defn[n].td) \cap {A, B} = {}

TwoTypes == {p \in {Module(x, y) : x, y \in TypeDescs} : SeenByDepth(p)}

\* A function, a type and two constants; the references may be to each of them.
WithConstants ==
    { [order |-> o, defn |-> (fn :> [kind |-> "function", tds |-> <<p, Ref(A)>>]
                              @@ A :> TypeDefn(t)
                              @@ c :> [kind |-> "const", refs |-> r]
                              @@ d :> [kind |-> "const", refs |-> s])] :
        o \in {<<fn, A, c, d>>, <<d, c, A, fn>>},
        p \in {Ref(c), Tuple(<<Ref(A)>>), Op("&", <<Ref(A), Tuple(<<Ref(c)>>)>>)},
        t \in {Ref(c), Ref(fn), Ref(B), Tuple(<<Ref(c)>>), Op("|", <<Ref(d), Tuple(<<Ref(A)>>)>>),
               Op("&", <<Ref(c), Ref(d)>>), Tuple(<<Ref(A), Ref(c)>>)},
        r \in {<<>>, <<d>>},
        s \in {<<>>, <<c>>, <<d>>} }

AllModules == TwoTypes \cup WithConstants

\* Arrays with two dimensions.
MatrixModules ==
    {Module(x, y) : x \in {Array(z, 2) : z \in Leaves}, y \in {Integer, Array(Ref(B), 2)}}

-----------------------------------------------------------------------------

Depths == 0 .. 2

\* resolveTypes accepts a module iff it is well formed, in whatever order the
\* definitions are met and whichever tests had to be deferred: a cycle that is not
\* through a constructor, and an empty type, are found (lines 115, 181 and 37).
OutcomeCorrect ==
    outcome # "running" => (outcome = "ok" <=> WellFormed(program.defn))

\* Every definition of a module that is accepted stands for its descriptor, also
\* when it was entered again while it was resolved (line 126) and when the atom
\* was used before it was defined (list.bal:89).
ResolvedFaithfully ==
    outcome = "ok" =>
        \A n \in TypeNames(program.defn) : \A h \in Depths :
            Unfolded(env, semType[n], h) = TdUnfolded(program.defn, Defn(n).td, h)

\* The panics are impossible: the environment is ready when all definitions are
\* resolved (line 34), and no atom is used before it is defined (core.bal:180).
NoPanic == outcome # "panic"
=============================================================================

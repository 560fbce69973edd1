---------------------------- MODULE TypeMeaning ----------------------------
(***************************************************************************)
(* What types and type descriptors mean, by definition: a value is a basic *)
(* value, or a list or mapping of values, and it is finite.  So a type is  *)
(* inhabited if it has a value of some height, and a descriptor stands for *)
(* what is left when the names in it are replaced by their definitions.    *)
(***************************************************************************)
EXTENDS Integers, Sequences, FiniteSets

CONSTANT Height     \* the height up to which values are looked for

\* Members that a value must have when its shape is each of those of S, with
\* members and rest as sequences of requirements; each requirement is a set that
\* the value of the member is in the intersection of.
Lengths(S) == {Len(s.members) : s \in {x \in S : x.rest = <<>>}}
Longest(S) == CHOOSE n \in {Len(s.members) : s \in S} : \A s \in S : Len(s.members) <= n
MemberAt(s, i) == IF i <= Len(s.members) THEN s.members[i] ELSE s.rest[1]
Compatible(S) == \A n \in Lengths(S) : n = Longest(S)
Requirements(S) == {{MemberAt(s, i) : s \in S} : i \in 1 .. Longest(S)}

-----------------------------------------------------------------------------

(* Types of an environment. *)

AtomicOf(e, atom) == IF atom.rec THEN e.recAtoms[atom.kind][atom.index] ELSE e.atomTable[atom.index]

IsBasic(atom) == atom.kind \notin {"list", "mapping"}

Shape(e, atom) ==
    LET a == AtomicOf(e, atom)
    IN [members |-> a.members, rest |-> IF a.rest = {} THEN <<>> ELSE <<a.rest>>]

\* The intersections of atoms that make up the intersection of the types of S.
Conjunctions(S) ==
    LET choices == {f \in [S -> UNION S] : \A t \in S : f[t] \in t}
    IN {c \in {UNION {f[t] : t \in S} : f \in choices} :
            \A x, y \in c : x.kind = y.kind /\ (IsBasic(x) => x = y)}

RECURSIVE HasValue(_, _, _)
HasValue(e, S, h) ==
    /\ h > 0
    /\ \E c \in Conjunctions(S) :
          \/ \A atom \in c : IsBasic(atom)
          \/ /\ \A atom \in c : ~ IsBasic(atom)
             /\ LET shapes == {Shape(e, atom) : atom \in c}
                IN Compatible(shapes) /\ \A R \in Requirements(shapes) : HasValue(e, R, h - 1)

NoValue(e, t) == ~ HasValue(e, {t}, Height)

\* The type with the atoms written out, to depth h.
RECURSIVE Unfolded(_, _, _)
Unfolded(e, t, h) ==
    { { IF IsBasic(atom) \/ h = 0 THEN <<atom.kind>>
        ELSE LET s == Shape(e, atom)
             IN <<atom.kind, [i \in DOMAIN s.members |-> Unfolded(e, s.members[i], h - 1)],
                             [i \in DOMAIN s.rest |-> Unfolded(e, s.rest[i], h - 1)]>> :
        atom \in c } : c \in t }

-----------------------------------------------------------------------------

(* Type descriptors.  defn gives the definitions of the names. *)

\* The names that a descriptor refers to outside any constructor.
RECURSIVE DirectRefs(_)
DirectRefs(td) ==
    CASE td.op = "ref" -> {td.name}
      [] td.op \in {"|", "&", "?", "("} -> UNION {DirectRefs(td.tds[i]) : i \in DOMAIN td.tds}
      [] OTHER -> {}

RECURSIVE AllRefs(_)
AllRefs(td) ==
    CASE td.op = "ref" -> {td.name}
      [] td.op = "builtin" -> {}
      [] OTHER -> UNION {AllRefs(td.tds[i]) : i \in DOMAIN td.tds}

\* The descriptors within td, the constructors and operators.
RECURSIVE Within(_)
Within(td) ==
    IF td.op \in {"ref", "builtin"} THEN {}
    ELSE {td} \cup UNION {Within(td.tds[i]) : i \in DOMAIN td.tds}

TypeNames(defn) == {n \in DOMAIN defn : defn[n].kind = "type"}

\* A name whose definition leads back to it.
RECURSIVE Reaches(_, _, _)
Reaches(edges, from, seen) ==
    LET more == UNION {edges[n] : n \in from} \ seen
    IN IF more = {} THEN seen ELSE Reaches(edges, more, seen \cup more)

Cyclic(edges) == \E n \in DOMAIN edges : n \in Reaches(edges, {n}, {})

UnguardedCycle(defn) ==
    Cyclic([n \in TypeNames(defn) |-> DirectRefs(defn[n].td) \cap TypeNames(defn)])

ConstCycle(defn) ==
    LET consts == {n \in DOMAIN defn : defn[n].kind = "const"}
    IN Cyclic([n \in consts |-> {defn[n].refs[i] : i \in DOMAIN defn[n].refs}])

\* Sets of constructors and basic types: the intersection of the descriptors of S
\* is the union of the intersections of these sets.
RECURSIVE Alternatives(_, _)
Alternatives(defn, S) ==
    LET builtin(b) == {{[op |-> "builtin", type |-> b]}}
        operands(td) == {td.tds[i] : i \in DOMAIN td.tds}
        union(td) == UNION {Alternatives(defn, {x}) : x \in operands(td)}
        of(td) ==
            CASE td.op \in {"list", "mapping", "builtin"} -> {{td}}
              [] td.op = "ref" -> IF defn[td.name].kind = "type"
                                  THEN Alternatives(defn, {defn[td.name].td})
                                  ELSE builtin(td.name)
              [] td.op = "?" -> union(td) \cup builtin("null")
              [] td.op = "&" -> Alternatives(defn, operands(td))
              [] OTHER -> union(td)
        picked == {f \in [S -> UNION {of(td) : td \in S}] : \A td \in S : f[td] \in of(td)}
    IN {c \in {UNION {f[td] : td \in S} : f \in picked} :
            \A x, y \in c : x.op = y.op /\ (x.op = "builtin" => x.type = y.type)}

\* A constructor of one dimension, of the arrays it is an array of.
RECURSIVE OneDimension(_)
OneDimension(td) ==
    IF td.dimensions = 1 THEN td
    ELSE OneDimension([td EXCEPT !.dimensions = td.dimensions - 1,
                                 !.tds = <<[td EXCEPT !.dimensions = 1]>>])

TdShape(td) ==
    LET one == OneDimension(td)
        n == Len(one.tds)
    IN [members |-> SubSeq(one.tds, 1, IF one.rest THEN n - 1 ELSE n),
        rest |-> IF one.rest THEN <<one.tds[n]>> ELSE <<>>]

RECURSIVE TdHasValue(_, _, _)
TdHasValue(defn, S, h) ==
    /\ h > 0
    /\ \E c \in Alternatives(defn, S) :
          \/ \A td \in c : td.op = "builtin"
          \/ /\ \A td \in c : td.op # "builtin"
             /\ LET shapes == {TdShape(td) : td \in c}
                IN Compatible(shapes) /\ \A R \in Requirements(shapes) : TdHasValue(defn, R, h - 1)

\* The descriptor with the names replaced by their definitions, to depth h.
RECURSIVE TdUnfolded(_, _, _)
TdUnfolded(defn, td, h) ==
    { { IF x.op = "builtin" THEN <<x.type>>
        ELSE IF h = 0 THEN <<x.op>>
        ELSE LET s == TdShape(x)
             IN <<x.op, [i \in DOMAIN s.members |-> TdUnfolded(defn, s.members[i], h - 1)],
                        [i \in DOMAIN s.rest |-> TdUnfolded(defn, s.rest[i], h - 1)]>> :
        x \in c } : c \in Alternatives(defn, {td}) }

Descriptors(d) ==
    CASE d.kind = "type" -> {d.td}
      [] d.kind = "function" -> {d.tds[i] : i \in DOMAIN d.tds}
      [] OTHER -> {}

\* The names are defined and are not those of functions, no definition is given in
\* terms of itself alone, and no type that is written down is empty.
WellFormed(defn) ==
    LET tds == UNION {Descriptors(defn[n]) : n \in DOMAIN defn}
    IN /\ \A td \in tds : \A n \in AllRefs(td) : n \in DOMAIN defn /\ defn[n].kind # "function"
       /\ ~ UnguardedCycle(defn)
       /\ ~ ConstCycle(defn)
       /\ \A td \in UNION {Within(x) : x \in tds} : TdHasValue(defn, {td}, Height)
=============================================================================

---------------------------- MODULE MCEmptiness ----------------------------
(* Environments of four Bdds in which tests are nested and undone more than *)
(* once.                                                                    *)
EXTENDS Emptiness, FiniteSets

CONSTANTS b1, b2, b3, b4

\* Up to two clauses that have at most two members.
FourBdds == {b1, b2, b3, b4}
SmallClauses == {c \in SUBSET FourBdds : Cardinality(c) \in 1 .. 2}
Mutual ==
    { [b \in FourBdds |->
        CASE b = b1 -> {{b2, b3}, c} [] b = b2 -> {{b1}, d} [] b = b3 -> {{b4}} [] OTHER -> e] :
      c \in SmallClauses, d \in SmallClauses, e \in {{}, {{}}, {{b1, b3}}} }
=============================================================================

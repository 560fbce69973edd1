----------------------------- MODULE DeepValues -----------------------------
(***************************************************************************)
(* A program that applies the deep operations of the runtime, one at a     *)
(* time, to the structures of one heap: == (Equality), println (Printing)  *)
(* and, in a single step, the relational operators (Comparison).           *)
(***************************************************************************)
EXTENDS Equality, Printing, Comparison

CONSTANTS
    Heaps,            \* the heaps to start with
    Roots             \* the pairs of tagged pointers to compare

deepVars == <<heap, root, stack, answer, visited, frames, output, printing>>
eqOnly == <<root, stack, answer, visited>>
printOnly == <<frames, output, printing>>

CallEq == ~printing /\ output = <<>> /\ EqCall(Roots) /\ UNCHANGED printOnly
CallPrintln == root = <<>> /\ (\E args \in ArgumentLists : println(args)) /\ UNCHANGED eqOnly
Work == (EqWork /\ UNCHANGED printOnly) \/ (PrintWork /\ UNCHANGED eqOnly)
GoOn == (Resume /\ UNCHANGED printOnly) \/ (Forget /\ UNCHANGED eqOnly)

DeepInit ==
    /\ heap \in Heaps /\ WellFormed
    /\ root = <<>> /\ stack = <<>> /\ answer = "none" /\ visited = {}
    /\ frames = <<>> /\ output = <<>> /\ printing = FALSE

DeepNext == CallEq \/ CallPrintln \/ Work \/ GoOn

\* An operation that has begun is a C function that keeps running.
DeepSpec == DeepInit /\ [][DeepNext]_deepVars /\ WF_deepVars(Work)

Idle == root = <<>> /\ output = <<>> /\ ~printing

\* The order of lists and == fit each other: only equal lists compare as
\* equal, equal lists without NaN do, the order can be turned round and
\* chained, and the comparators for arrays of one member type agree with
\* the general one (optListDoCompare, list.c:427).  Members that are
\* identical (===) are equal.
OrderAgrees ==
    Idle => \A p \in ComparedLists : \A q \in ComparedLists \cup {[p EXCEPT !.exact = TRUE]} :
        Comparable(p, q, Depth) =>
            LET r == taggedPtrCompare(p, q)
                ints == {s \in Scalars : s.tag = "int"}
            IN /\ r = "EQ" => DeepEqual(p, q)
               /\ r # "EQ" /\ ~HasNaN(p, Depth) => ~DeepEqual(p, q)
               /\ taggedPtrCompare(q, p) = Flip(r)
               /\ ListOf(p, Scalars) /\ ListOf(q, Scalars) => _bal_array_compare(p, q) = r
               /\ ListOf(p, Pointers) /\ ListOf(q, Pointers) => _bal_array_list_compare(p, q) = r
               /\ ListOf(p, ints) /\ ListOf(q, ints) => _bal_array_exact_int_compare(p, q) = r
               /\ \A i \in DOMAIN Members(p), j \in DOMAIN Members(q) :
                    _bal_exact_eq(Members(p)[i], Members(q)[j]) => DeepEqual(Members(p)[i], Members(q)[j])
               /\ r = "LT" => \A t \in ComparedLists :
                    /\ Comparable(q, t, Depth) /\ Comparable(p, t, Depth)
                    /\ taggedPtrCompare(q, t) = "LT"
                    => taggedPtrCompare(p, t) = "LT"

\* Every == and every println comes to an end, on cyclic structures too.
CallsReturn == (root # <<>> \/ printing) ~> (answer # "none" \/ Printed)
=============================================================================

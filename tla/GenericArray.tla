---------------------------- MODULE GenericArray ----------------------------
(***************************************************************************)
(* The growable array (struct GenericArray) that holds the members of      *)
(* every list and the fields of every mapping.  Only the arithmetic of its *)
(* capacity is modelled: the members belong to the modules that use it.    *)
(***************************************************************************)
EXTENDS Integers

CONSTANTS
    InitialCapacity,  \* INITIAL_CAPACITY, 4 in the code
    ArrayLengthMax    \* ARRAY_LENGTH_MAX, INT64_MAX / 8 in the code

ASSUME InitialCapacityAssumption == InitialCapacity \in Nat /\ InitialCapacity > 1
ASSUME ArrayLengthMaxAssumption ==
    ArrayLengthMax \in Nat /\ ArrayLengthMax >= InitialCapacity

Larger(m, n) == IF m > n THEN m ELSE n

\* The capacity after growth "by a factor of 1.5".
Extended(old) ==
    IF old <= ArrayLengthMax - (old \div 2) THEN old + (old \div 2) ELSE ArrayLengthMax

\* _bal_array_grow panics (PANIC_LIST_TOO_LONG) when there is no room to grow.
GrowPanics(old) == old > ArrayLengthMax - (old \div 2) /\ old = ArrayLengthMax

\* The new capacity that _bal_array_grow(ap, min, shift) allocates.
GrownCapacity(old, min) ==
    IF old = 0 THEN Larger(min, InitialCapacity) ELSE Larger(Extended(old), min)
=============================================================================

------------------------------ MODULE FrontEnd ------------------------------
(***************************************************************************)
(* The two halves of the front end together: the types of a module are     *)
(* resolved (TypeResolution), and code is generated for the bodies of its  *)
(* functions (Narrowing).  A behaviour is about one of them: what the      *)
(* second needs of the first is that a type descriptor has a type.         *)
(***************************************************************************)
EXTENDS TypeResolution, Narrowing

VARIABLE half

frontEndVars == <<half, vars, narrowVars>>

ResolutionRest ==
    /\ program = [order |-> <<>>, defn |-> <<>>]
    /\ semType = <<>> /\ cycleDepth = <<>> /\ resolved = <<>>
    /\ defns = [p \in {} |-> Unresolved]
    /\ env = [atomTable |-> <<>>, recAtoms |-> [k \in Kinds |-> <<>>], recAtomCount |-> 0]
    /\ deferred = <<>> /\ emptyNonCyclic = FALSE /\ calls = <<>> /\ next = 1 /\ outcome = "running"

NarrowRest == body = <<>> /\ code = NoCode /\ stage = "rest" /\ memory = <<>> /\ pc = Nowhere

FrontEndInit ==
    \/ half = "types" /\ Init /\ NarrowRest
    \/ half = "functions" /\ ResolutionRest /\ NarrowInit

TypesStep == half = "types" /\ Next /\ UNCHANGED <<half, narrowVars>>
FunctionsStep == half = "functions" /\ NarrowNext /\ UNCHANGED <<half, vars>>

FrontEndNext == TypesStep \/ FunctionsStep

FrontEndSpec == FrontEndInit /\ [][FrontEndNext]_frontEndVars
=============================================================================

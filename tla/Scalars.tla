------------------------------ MODULE Scalars -------------------------------
(***************************************************************************)
(* Values that are not structures, together: strings, numbers, errors, the *)
(* types of ints, and type tests.  A behaviour is about one of these       *)
(* parts; the variables of the others rest.                                *)
(***************************************************************************)
EXTENDS Strings, Numbers, Errors, IntSubtypes, TypeTest

VARIABLE part

StringsRest == StringsInit
NumbersRest == number = Zero /\ panicCode = "none"
ErrorsRest ==
    /\ program = [exe |-> "debug", stacks |-> {}, errors |-> 0]
    /\ btState = FALSE /\ sbt = NoError /\ errors = <<>> /\ trace = NoTrace
    /\ stderr = <<>> /\ errAt = "rest"
IntTypesRest == intSubtype = All /\ intValues = Ints
TestRest ==
    /\ type = [all |-> {}, sub |-> <<>>] /\ value = [tag |-> 0, n |-> 0]
    /\ subtype = NoSubtype /\ start = 0 /\ end = 0 /\ at = "rest" /\ answer = FALSE

ScalarsInit ==
    \/ part = "strings" /\ StringsInit /\ NumbersRest /\ ErrorsRest /\ IntTypesRest /\ TestRest
    \/ part = "numbers" /\ StringsRest /\ NumbersInit /\ ErrorsRest /\ IntTypesRest /\ TestRest
    \/ part = "errors" /\ StringsRest /\ NumbersRest /\ ErrorsInit /\ IntTypesRest /\ TestRest
    \/ part = "intTypes" /\ StringsRest /\ NumbersRest /\ ErrorsRest /\ IntTypesInit /\ TestRest
    \/ part = "test" /\ StringsRest /\ NumbersRest /\ ErrorsRest /\ IntTypesRest /\ TestInit

StringsStep == part = "strings" /\ StringsNext /\ UNCHANGED <<part, numberVars, errVars, intTypeVars, testVars>>
NumbersStep == part = "numbers" /\ NumbersNext /\ UNCHANGED <<part, strVars, errVars, intTypeVars, testVars>>
ErrorsStep == part = "errors" /\ ErrorsNext /\ UNCHANGED <<part, strVars, numberVars, intTypeVars, testVars>>
IntTypesStep == part = "intTypes" /\ IntTypesNext /\ UNCHANGED <<part, strVars, numberVars, errVars, testVars>>
TestStep == part = "test" /\ TestNext /\ UNCHANGED <<part, strVars, numberVars, errVars, intTypeVars>>

ScalarsNext == StringsStep \/ NumbersStep \/ ErrorsStep \/ IntTypesStep \/ TestStep
=============================================================================

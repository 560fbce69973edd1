------------------------------ MODULE Mangling ------------------------------
(***************************************************************************)
(* The symbols of functions: how the compiler mangles the name of a        *)
(* function (symbol.bal) and how the runtime reads it back for a backtrace *)
(* (error.c).  A name is a sequence of characters.  A character takes one  *)
(* byte.                                                                   *)
(***************************************************************************)
EXTENDS Integers, Sequences

Digits == <<"0", "1", "2", "3", "4", "5", "6", "7", "8", "9">>
IsDigit(ch) == \E i \in DOMAIN Digits : Digits[i] = ch
StartsWith(s, prefix) == Len(prefix) <= Len(s) /\ SubSeq(s, 1, Len(prefix)) = prefix
Ballerina == <<"b", "a", "l", "l", "e", "r", "i", "n", "a">>

\* int:toString
DecimalText[n \in Nat] ==
    IF n < 10 THEN <<Digits[n + 1]>> ELSE DecimalText[n \div 10] \o <<Digits[(n % 10) + 1]>>

\* Mutant: leading underscores are accepted.
validImportPart_Leading(name) ==
    name # <<>> /\ name[Len(name)] # "_" /\ \A i \in 2 .. Len(name) - 1 : name[i] = "_" => name[i + 1] # "_"

\* The names that an import may have.
validImportPart(name) ==
    /\ name # <<>> /\ name[1] # "_" /\ name[Len(name)] # "_"
    /\ \A i \in 1 .. Len(name) - 1 : name[i] = "_" => name[i + 1] # "_"

-----------------------------------------------------------------------------
delimitName(name) ==
    DecimalText[Len(name)] \o (IF name # <<>> /\ IsDigit(name[1]) THEN <<"_">> ELSE <<>>) \o name

mangleOrg(org) ==
    IF StartsWith(org, Ballerina)
    THEN <<"b">> \o delimitName(SubSeq(org, 10, Len(org)))
    ELSE delimitName(org)

mangleModuleNames(names) ==
    LET from[i \in DOMAIN names] ==
            IF i < Len(names) THEN <<"m">> \o delimitName(names[i]) \o from[i + 1] ELSE delimitName(names[i])
    IN from[1]

\* symbol: [org, names, identifier, isPublic]
mangleInternalSymbol(symbol) ==
    <<"_", "B">> \o (IF symbol.isPublic THEN mangleOrg(symbol.org) \o mangleModuleNames(symbol.names)
                     ELSE <<"_">>) \o symbol.identifier

-----------------------------------------------------------------------------
\* Reading: at is the offset of the next character; the character behind the
\* end is NUL.
CharAt(s, at) == IF at <= Len(s) THEN s[at] ELSE "NUL"

\* sscanf with %ld, for what has no sign: where the number ends, and what it is.
NumberEnd(s, at) == CHOOSE e \in at .. Len(s) + 1 : ~IsDigit(CharAt(s, e)) /\ \A i \in at .. e - 1 : IsDigit(s[i])
Number(s, at, e) ==
    LET upto[i \in at - 1 .. e - 1] ==
            IF i < at THEN 0 ELSE 10 * upto[i - 1] + (CHOOSE d \in 0 .. 9 : Digits[d + 1] = s[i])
    IN upto[e - 1]

\* A name of n characters, and where it ends; a name is never the last thing.
NotRead == [ok |-> FALSE, text |-> <<>>, at |-> 1]
NameAt(s, at, n) ==
    IF n > 0 /\ at + n > Len(s) THEN NotRead ELSE [ok |-> TRUE, text |-> SubSeq(s, at, at + n - 1), at |-> at + n]

demangleCountedName(s, at) ==
    LET e == NumberEnd(s, at)
    IN IF e = at THEN NotRead
       ELSE NameAt(s, IF CharAt(s, e) = "_" THEN e + 1 ELSE e, Number(s, at, e))

\* The modules before the last one, each with a dot.
demangleModules(s, first) ==
    LET After(module, rest) == IF module.ok THEN [rest EXCEPT !.text = module.text \o <<".">> \o @] ELSE NotRead
        from[at \in 1 .. Len(s) + 1] ==
            IF CharAt(s, at) # "m" THEN [ok |-> TRUE, text |-> <<>>, at |-> at]
            ELSE After(demangleCountedName(s, at + 1), from[demangleCountedName(s, at + 1).at])
    IN from[first]

Bad(result) == [result |-> result, localName |-> <<>>, text |-> <<>>]

\* demangle from the last module, from the modules, and from the org on; text
\* is what has been written to fp, when there is one.
FromLast(s, text, last) ==
    IF ~last.ok THEN Bad("NON_BALLERINA_NAME")
    ELSE [result |-> "PUBLIC_BALLERINA_NAME", localName |-> SubSeq(s, last.at, Len(s)), text |-> text \o last.text]

FromModules(s, text, modules) ==
    IF ~modules.ok THEN Bad("NON_BALLERINA_NAME")
    ELSE FromLast(s, text \o modules.text, demangleCountedName(s, modules.at))

FromOrg(s, prefix, org) ==
    IF ~org.ok THEN Bad("BAD_BALLERINA_NAME")
    ELSE FromModules(s, prefix \o org.text \o (IF prefix \o org.text = <<>> THEN <<>> ELSE <<"/">>),
                     demangleModules(s, org.at))

Org(s, at) == IF CharAt(s, at) = "0" THEN [ok |-> TRUE, text |-> <<>>, at |-> at + 1] ELSE demangleCountedName(s, at)

demangle(s) ==
    IF ~StartsWith(s, <<"_", "B">>) THEN Bad("NON_BALLERINA_NAME")
    ELSE IF CharAt(s, 3) = "_"
    THEN [result |-> "NON_PUBLIC_BALLERINA_NAME", localName |-> SubSeq(s, 4, Len(s)), text |-> <<>>]
    ELSE IF CharAt(s, 3) = "b" THEN FromOrg(s, Ballerina, Org(s, 4))
    ELSE FromOrg(s, <<>>, Org(s, 3))

_bal_print_mangled_name(s) ==
    LET d == demangle(s)
    IN CASE d.result = "NON_PUBLIC_BALLERINA_NAME" -> d.localName
         [] d.result = "PUBLIC_BALLERINA_NAME" -> d.localName \o <<" ", "(">> \o d.text \o <<")">>
         [] OTHER -> s

-----------------------------------------------------------------------------
\* How a function should be shown: its name and, if it is public, its module.
Joined(names) ==
    LET from[i \in DOMAIN names] == names[i] \o (IF i = Len(names) THEN <<>> ELSE <<".">> \o from[i + 1])
    IN from[1]

Shown(symbol) ==
    IF ~symbol.isPublic THEN symbol.identifier
    ELSE symbol.identifier \o <<" ", "(">>
         \o (IF symbol.org = <<>> THEN <<>> ELSE symbol.org \o <<"/">>) \o Joined(symbol.names) \o <<")">>
=============================================================================

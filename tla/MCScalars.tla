----------------------------- MODULE MCScalars ------------------------------
(***************************************************************************)
(* Instances for model checking: strings on both sides of every limit of a *)
(* representation; decimals of three digits, floats of five bits, ints of  *)
(* seven bits of which four are immediate; stacks that fill the snapshot of an error and some that  *)
(* do not, and functions with all short names; ints from -3 to 3 as types; *)
(* subtypes with lists of up to four entries, with NaN or without.         *)
(***************************************************************************)
EXTENDS Scalars

\* Strings
As(n) == [i \in 1 .. n |-> 97]
MCLiterals == {As(n) : n \in {0, 3, 6, 10, 12, 21}} \cup {<<8364>>}
MCPieces == {<<0>>, <<97>>, <<233>>}

\* Numbers: decimals in thousandths, floats in halves
MCOperands == {0, 100, -250, 333, 999, 1000, -1500, 2000}
MCFloats == FiniteFloats \ {0}
MCCachedPowers == {-3, -1, 1}

\* Errors
Symbol(org, names, isPublic) == [org |-> org, names |-> names, identifier |-> <<"f">>, isPublic |-> isPublic]
C == [symbol |-> NoSymbol, line |-> 7]
Bal(symbol, line) == [symbol |-> symbol, line |-> line]
Main == Bal(Symbol(<<>>, <<<<"r">>>>, TRUE), 3)
Inner == Bal(Symbol(<<>>, <<<<"r">>>>, FALSE), 5)
ShortNames == UNION {[1 .. n -> {"m", "2", "_"}] : n \in 1 .. 2}
Orgs == ShortNames \cup {<<>>, Ballerina, Ballerina \o <<"x">>, Ballerina \o <<"2">>, Ballerina \o <<"_", "x">>}
MCSymbols == {Symbol(org, <<name>>, TRUE) : org \in Orgs, name \in ShortNames}
             \cup {Symbol(<<"m">>, <<name, last>>, TRUE) : name \in ShortNames, last \in ShortNames}
DeepStacks == {<<C, Main, C>>, <<C, C, Inner, Main>>, <<C, Inner, C, Inner, Main>>}
Executables == {"debug", "elfSymbols", "machoSymbols", "nosyms", "unreadable"}
AllPrograms == {[exe |-> e, stacks |-> DeepStacks, errors |-> 1] : e \in Executables}
               \cup {[exe |-> "debug", stacks |-> {<<C, Inner, Main>>}, errors |-> 2]}
               \cup {[exe |-> "debug", stacks |-> {<<C, Bal(symbol, 4)>>}, errors |-> 1] : symbol \in MCSymbols}
MCPrograms == AllPrograms

\* Int types
MCMin == -3

\* Type tests
MCNaN == 99
Sub(kind, list, maxs, included, charIncluded) ==
    [kind |-> kind, list |-> list, maxs |-> maxs, included |-> included, charIncluded |-> charIncluded]
Lists == {<<1>>, <<0, 2>>, <<1, 2, 4>>, <<0, 1, 3, 5>>}
Subs(tag) ==
    CASE tag = TAG_BOOLEAN -> {Sub(kind, <<>>, <<>>, TRUE, TRUE) : kind \in KindOf(tag)}
      [] tag = TAG_INT -> {Sub("int", <<0>>, <<2>>, TRUE, TRUE), Sub("int", <<-1, 3, 5>>, <<1, 3, 5>>, TRUE, TRUE)}
      [] tag = TAG_FLOAT -> {Sub("float", l, <<>>, i, TRUE) : i \in BOOLEAN, l \in Lists \cup {<<MCNaN>>, <<MCNaN, 1, 3>>}}
      [] tag = TAG_DECIMAL -> {Sub("decimal", l, <<>>, i, TRUE) : i \in BOOLEAN, l \in Lists}
      [] tag = TAG_STRING -> {Sub("string", l, <<>>, i, c) : i \in BOOLEAN, c \in BOOLEAN, l \in Lists \cup {<<>>}}
      [] OTHER -> {Sub("precomputed", l, <<>>, TRUE, TRUE) : l \in Lists \cup {<<>>}}
TestTags == {TAG_BOOLEAN, TAG_INT, TAG_FLOAT, TAG_DECIMAL, TAG_STRING, 12}
Single(tag) == {[all |-> {0}, sub |-> [t \in {tag} |-> s]] : s \in Subs(tag)}
Several(tags) == [all |-> TestTags \ tags, sub |-> [t \in tags |-> CHOOSE s \in Subs(t) : s.list # <<>> \/ t = TAG_BOOLEAN]]
AllTypes == UNION {Single(tag) : tag \in TestTags} \cup {Several(tags) : tags \in SUBSET TestTags}
MCTypes == AllTypes
MCValues ==
    {[tag |-> t, n |-> n] : t \in TestTags \ {TAG_BOOLEAN}, n \in -1 .. 6}
      \cup {[tag |-> TAG_BOOLEAN, n |-> n] : n \in 0 .. 1}
      \cup {[tag |-> TAG_FLOAT, n |-> MCNaN], [tag |-> 0, n |-> 0]}
=============================================================================

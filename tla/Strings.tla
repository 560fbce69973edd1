------------------------------ MODULE Strings -------------------------------
(***************************************************************************)
(* The representations of strings: string.c and the string functions of    *)
(* balrt.h, and the constants the compiler lays out (addStringDefn in      *)
(* scaffold.bal).  A string is immediate (7 bytes padded with 0xFF, in the *)
(* tagged pointer), medium or large (on the heap, 8-byte words behind a    *)
(* header of 4 or 16 bytes, padded with 0).  Memory that has just been     *)
(* allocated holds anything.  MediumMax stands for 0xFFFF and StringMax    *)
(* for INT64_MAX.                                                          *)
(***************************************************************************)
EXTENDS Integers, Sequences, Bitwise

CONSTANTS
    MediumMax,
    StringMax,
    Garbage,          \* bytes that memory may hold
    Literals,         \* texts of string constants: sequences of code points
    Pieces,           \* the ones that are appended
    Appends           \* bound on how often

VARIABLES
    pool,             \* two strings of the program, with the texts they stand for
    panicked

strVars == <<pool, panicked>>

\* The UTF-8 encoding of code points below 0x10000.
Encoded(c) ==
    IF c < 128 THEN <<c>>
    ELSE IF c < 2048 THEN <<192 + c \div 64, 128 + (c % 64)>>
    ELSE <<224 + c \div 4096, 128 + ((c \div 64) % 64), 128 + (c % 64)>>

UTF8[text \in Seq(Nat)] == IF text = <<>> THEN <<>> ELSE Encoded(Head(text)) \o UTF8[Tail(text)]

Repeat(byte, n) == [i \in 1 .. n |-> byte]
RoundUp(n) == ((n + 7) \div 8) * 8
HeaderSize(variant) == IF variant = "medium" THEN 4 ELSE 16
\* mediumStringSize and largeStringSize without the header
PaddedLength(variant, nBytes) == RoundUp(nBytes + HeaderSize(variant)) - HeaderSize(variant)

Least(m, n) == IF m <= n THEN m ELSE n
Sign(n) == IF n < 0 THEN -1 ELSE IF n > 0 THEN 1 ELSE 0

-----------------------------------------------------------------------------
\* isSmallString, and the first test of _bal_string_alloc
isSmallString(nBytes, nCodePoints) == nCodePoints = 1 \/ (nCodePoints = nBytes /\ nBytes <= 7)

String(variant, nBytes, nCodePoints, bytes) ==
    [variant |-> variant, nBytes |-> nBytes, nCodePoints |-> nCodePoints, bytes |-> bytes]

\* An immediate string has nowhere to keep its lengths.
Immediate(bytes) == String("immediate", 0, 0, bytes)

\* Mutant: the last 8 bytes are not cleared.
Allocated_NotCleared(variant, nBytes, nCodePoints, garbage) ==
    String(variant, nBytes, nCodePoints, Repeat(garbage, PaddedLength(variant, nBytes)))

\* The heap memory after _bal_string_alloc: the last 8 bytes are zero (the
\* header is written after that), the others are what they were.
Allocated(variant, nBytes, nCodePoints, garbage) ==
    LET n == PaddedLength(variant, nBytes)
    IN String(variant, nBytes, nCodePoints, [i \in 1 .. n |-> IF i > n - 8 THEN 0 ELSE garbage])

_bal_string_alloc(nBytes, nCodePoints, garbage) ==
    IF isSmallString(nBytes, nCodePoints) THEN Immediate(Repeat(255, 7))
    ELSE Allocated(IF nBytes <= MediumMax THEN "medium" ELSE "large", nBytes, nCodePoints, garbage)

\* memcpy to the bytes of a string
Written(str, at, bytes) ==
    [str EXCEPT !.bytes = [i \in DOMAIN @ |-> IF i - at \in DOMAIN bytes THEN bytes[i - at] ELSE @[i]]]

\* addStringDefn: a constant of the compiler
addStringDefn(text) ==
    LET bytes == UTF8[text]
        nBytes == Len(bytes)
        variant == IF nBytes <= MediumMax THEN "medium" ELSE "large"
    IN IF isSmallString(nBytes, Len(text)) THEN Immediate(bytes \o Repeat(255, 7 - nBytes))
       ELSE String(variant, nBytes, Len(text), bytes \o Repeat(0, PaddedLength(variant, nBytes) - nBytes))

-----------------------------------------------------------------------------
\* The number of leading ones of the first byte of a multi-byte character
LeadingOnes(byte) == IF byte < 224 THEN 2 ELSE IF byte < 240 THEN 3 ELSE 4

\* immediateStringLength: <<bytes, code points>>
immediateStringLength(b) ==
    IF b[1] = 255 THEN <<0, 0>>
    ELSE IF b[1] >= 128 THEN <<LeadingOnes(b[1]), 1>>
    ELSE LET n == CHOOSE n \in 1 .. 7 : b[n] # 255 /\ \A i \in n + 1 .. 7 : b[i] = 255
         IN <<n, n>>

taggedStringLength(str) ==
    IF str.variant = "immediate" THEN immediateStringLength(str.bytes) ELSE <<str.nBytes, str.nCodePoints>>

taggedStringIsChar(str) ==
    /\ str.variant = "immediate"
    /\ IF str.bytes[1] >= 128 THEN str.bytes[1] # 255 ELSE \A i \in 2 .. 7 : str.bytes[i] = 255

taggedStringBytes(str) == SubSeq(str.bytes, 1, taggedStringLength(str)[1])

-----------------------------------------------------------------------------
\* The words that are compared are those of the first string.
_bal_string_heap_eq(s1, s2) ==
    /\ s1.variant = s2.variant /\ s1.nBytes = s2.nBytes
    /\ s1.nCodePoints = s2.nCodePoints
    /\ \A i \in 1 .. PaddedLength(s1.variant, s1.nBytes) : s1.bytes[i] = s2.bytes[i]

taggedStringEqual(s1, s2) ==
    \/ s1 = s2
    \/ s1.variant # "immediate" /\ s2.variant # "immediate" /\ _bal_string_heap_eq(s1, s2)

\* memcmp on the first n bytes, and memcmp8 on as many bytes of whole words:
\* the order of two words with their bytes swapped is that of the bytes.
memcmp(b1, b2, n) ==
    LET differ == {i \in 1 .. n : b1[i] # b2[i]}
    IN IF differ = {} THEN 0
       ELSE LET i == CHOOSE i \in differ : \A j \in differ : i <= j
            IN IF b1[i] < b2[i] THEN -1 ELSE 1

\* Mutant: the padding is compared like any byte.
stringCmpImmediate_Plain(b1, b2) == memcmp(b1, b2, 7)

stringCmpImmediate(b1, b2) ==
    LET i == CHOOSE i \in 1 .. 7 : b1[i] # b2[i] /\ \A j \in 1 .. i - 1 : b1[j] = b2[j]
    IN IF b1[i] < b2[i] THEN IF b2[i] = 255 THEN 1 ELSE -1
       ELSE IF b1[i] = 255 THEN -1 ELSE 1

\* The words that the shorter string ends in are compared as a whole.
CmpWords(s1, s2, n) ==
    LET result == memcmp(s1.bytes, s2.bytes, n)
    IN IF result # 0 THEN result ELSE Sign(s1.nBytes - s2.nBytes)

\* The first 4 bytes are in the word of the header and always compared.
stringCmpMedium(s1, s2) == CmpWords(s1, s2, PaddedLength("medium", Least(s1.nBytes, s2.nBytes)))

stringCmpLarge(s1, s2) == CmpWords(s1, s2, PaddedLength("large", Least(s1.nBytes, s2.nBytes)))

stringCmpGeneric(s1, s2) ==
    LET n1 == taggedStringLength(s1)[1]
        n2 == taggedStringLength(s2)[1]
        result == memcmp(taggedStringBytes(s1), taggedStringBytes(s2), Least(n1, n2))
    IN IF result # 0 THEN result ELSE Sign(n1 - n2)

_bal_string_cmp(s1, s2) ==
    IF s1 = s2 THEN 0
    ELSE IF s1.variant # s2.variant THEN stringCmpGeneric(s1, s2)
    ELSE IF s1.variant = "immediate" THEN stringCmpImmediate(s1.bytes, s2.bytes)
    ELSE IF s1.variant = "medium" THEN stringCmpMedium(s1, s2)
    ELSE stringCmpLarge(s1, s2)

-----------------------------------------------------------------------------
\* The words that are given to hashUpdate and hashUpdatePartial.
Word(bytes) == [i \in 1 .. 8 |-> IF i <= Len(bytes) THEN bytes[i] ELSE 0]
Words(bytes, from, n) == [k \in 1 .. n |-> SubSeq(bytes, from + 8 * k - 7, from + 8 * k)]

\* The first 4 bytes are moved behind the others: or-ed into the padding of
\* the last word, and what is left of them comes after it.
mediumStringHash(str) ==
    LET len == str.nBytes
        start == SubSeq(str.bytes, 1, 4)
        nPad == Len(str.bytes) - len
        nWords == (Len(str.bytes) - 4) \div 8
        last == SubSeq(str.bytes, Len(str.bytes) - 7, Len(str.bytes))
        filled == [i \in 1 .. 8 |->
                    IF i - (8 - nPad) \in 1 .. 4 THEN last[i] | start[i - (8 - nPad)] ELSE last[i]]
    IN IF len <= 4 THEN <<Word(start)>>
       ELSE IF nPad = 0 THEN Append(Words(str.bytes, 4, nWords), Word(start))
       ELSE Words(str.bytes, 4, nWords - 1) \o <<filled>>
            \o (IF nPad < 4 THEN <<Word(SubSeq(start, nPad + 1, 4))>> ELSE <<>>)

\* The padding is a part of the last word.
largeStringHash(str) == Words(str.bytes, 0, Len(str.bytes) \div 8)

_bal_string_hash(str) ==
    CASE str.variant = "immediate" -> <<Word(taggedStringBytes(str))>>
      [] str.variant = "medium" -> mediumStringHash(str)
      [] str.variant = "large" -> largeStringHash(str)

-----------------------------------------------------------------------------
\* A constant is stored.
Literal(k, text) ==
    /\ ~panicked
    /\ pool' = [pool EXCEPT ![k] = [str |-> addStringDefn(text), text |-> text, left |-> Appends]]
    /\ UNCHANGED panicked

_bal_string_concat(k, piece, garbage) ==
    LET s1 == pool[k].str
        s2 == addStringDefn(piece)
        len1 == taggedStringLength(s1)
        len2 == taggedStringLength(s2)
        nBytes == len1[1] + len2[1]
        result == _bal_string_alloc(nBytes, len1[2] + len2[2], garbage)
    IN /\ ~panicked /\ pool[k].left > 0
       /\ IF nBytes > StringMax
          THEN panicked' = TRUE /\ UNCHANGED pool
          ELSE /\ pool' = [pool EXCEPT ![k] =
                    [str |-> Written(Written(result, 0, taggedStringBytes(s1)), len1[1], taggedStringBytes(s2)),
                     text |-> @.text \o piece, left |-> @.left - 1]]
               /\ UNCHANGED panicked

StringsInit == pool = [k \in 1 .. 2 |-> [str |-> addStringDefn(<<>>), text |-> <<>>, left |-> Appends]] /\ panicked = FALSE

StringsNext == \E k \in 1 .. 2 :
    \/ \E text \in Literals : Literal(k, text)
    \/ \E piece \in Pieces, garbage \in Garbage : _bal_string_concat(k, piece, garbage)

-----------------------------------------------------------------------------
\* The order of texts, code point by code point.
TextOrder(t1, t2) ==
    LET result == memcmp(t1, t2, Least(Len(t1), Len(t2)))
    IN IF result # 0 THEN result ELSE Sign(Len(t1) - Len(t2))

\* The words of the text with the first 4 bytes of a medium string last.
TextWords(str, text) ==
    LET bytes == UTF8[text]
        moved == IF str.variant = "medium" /\ Len(bytes) > 4
                 THEN SubSeq(bytes, 5, Len(bytes)) \o SubSeq(bytes, 1, 4) ELSE bytes
    IN IF bytes = <<>> THEN <<Word(bytes)>>
       ELSE [k \in 1 .. (RoundUp(Len(moved)) \div 8) |-> Word(SubSeq(moved, 8 * k - 7, Least(8 * k, Len(moved))))]

\* A string is its text, whether the compiler laid it out or the runtime
\* put it together in memory that held anything: == is the equality of the
\* texts, the lengths are those of the text, a single code point is known
\* by the tagged pointer, and every byte of the text and nothing else is
\* hashed.  (The compiler compares with small constants by the tagged
\* pointers, equal.bal:140, and the fields of a mapping are found by hash.)
StringIsText ==
    /\ taggedStringEqual(pool[1].str, pool[2].str) <=> pool[1].text = pool[2].text
    /\ \A k \in 1 .. 2 :
        /\ taggedStringBytes(pool[k].str) = UTF8[pool[k].text]
        /\ taggedStringLength(pool[k].str)[2] = Len(pool[k].text)
        /\ taggedStringIsChar(pool[k].str) <=> Len(pool[k].text) = 1
        /\ _bal_string_hash(pool[k].str) = TextWords(pool[k].str, pool[k].text)

\* _bal_string_cmp orders strings by code points, whatever their
\* representations and wherever the shorter one ends in its last word.
StringOrder == _bal_string_cmp(pool[1].str, pool[2].str) = TextOrder(pool[1].text, pool[2].text)
=============================================================================

------------------------------ MODULE Numbers -------------------------------
(***************************************************************************)
(* Numbers at run time: ints as tagged pointers (balrt.h), arithmetic on   *)
(* decimals (decimal.c), the conversions (convert.c) and the digits of a   *)
(* float (emyg_dtoa.c).                                                    *)
(*                                                                         *)
(* A decimal has Precision digits; its least exponent is -Places, so that  *)
(* it is an integer number of units of 10^-Places.  Decimals of one value  *)
(* that differ in their trailing zeros are not told apart.  A float has a  *)
(* significand of kDpSignificandSize bits and a hidden one; it is a number *)
(* of units of 2^-FloatPlaces, the least float.                            *)
(***************************************************************************)
EXTENDS Integers

CONSTANTS
    Precision,      \* 34
    Places,         \* 6176
    MaxShift,       \* the greatest exponent is MaxShift - Places
    IntBits,        \* 64
    Int32Bits,      \* 32
    ImmediateBits,  \* 56
    FloatPlaces,    \* 1074
    MaxFloatShift,  \* 2045: the greatest exponent of a float is this - FloatPlaces
    kDpSignificandSize,     \* 52
    kDiySignificandSize,    \* 64: the bits of a DiyFp
    CachedPowers,   \* -348, -340 .. 340: powers of ten with a DiyFp in the table
    TableDigits,    \* 9: the greatest power of ten in kPow10
    MaxDigits,      \* 19: the digits after which DigitGen aborts
    Operands,       \* decimals that are the right operand, in units
    Floats          \* finite floats other than zero, in units

VARIABLES
    number,         \* the number that is worked with: [tag, imm, class, n]
    panicCode

numberVars == <<number, panicCode>>

Abs(n) == IF n < 0 THEN -n ELSE n
Neg(n) == IF n < 0 THEN -1 ELSE 1
AtLeast0(n) == IF n < 0 THEN 0 ELSE n

\* The digits of a natural number: the least k with n < 10^k.
Length(n) == CHOOSE k \in 0 .. 12 : (k = 12 \/ n < 10 ^ k) /\ (k = 0 \/ n >= 10 ^ (k - 1))

\* Its bits: the least k with n < 2^k.
Bits(n) == CHOOSE k \in 0 .. 30 : n < 2 ^ k /\ (k = 0 \/ n >= 2 ^ (k - 1))

IsInt(n) == -(2 ^ (IntBits - 1)) <= n /\ n < 2 ^ (IntBits - 1)

-----------------------------------------------------------------------------

(* decNumber: a decQuad is a class and a number; an operation gives a      *)
(* decQuad and a status.                                                   *)

MinNormal == 10 ^ (Precision - 1)
MaxDecimal == (10 ^ Precision - 1) * 10 ^ MaxShift

decQuad(class, n) == [class |-> class, n |-> n]

\* The nearest multiple of d to n, the even one when there are two.
HalfEven(n, d) ==
    LET q == n \div d
        r == n % d
    IN IF 2 * r > d \/ (2 * r = d /\ q % 2 = 1) THEN q + 1 ELSE q

\* decFinalize: the number n / d of units, with all digits that fit.
decFinalize(n, d) ==
    LET drop == AtLeast0(Length(Abs(n) \div d) - Precision)
        unit == 10 ^ drop
        rounded == HalfEven(Abs(n), d * unit) * unit
        inexact == Abs(n) % (d * unit) # 0
        result ==
            IF rounded > MaxDecimal THEN decQuad("infinite", 0)
            ELSE IF rounded = 0 THEN decQuad(IF n < 0 THEN "negZero" ELSE "posZero", 0)
            ELSE decQuad(IF rounded < MinNormal THEN "subnormal" ELSE "normal", Neg(n) * rounded)
        status ==
            (IF rounded > MaxDecimal THEN {"Overflow"} ELSE {})
              \cup (IF inexact /\ Abs(n) < MinNormal * d THEN {"Underflow"} ELSE {})
    IN [dq |-> result, status |-> status]

Invalid(status) == [dq |-> decQuad("nan", 0), status |-> {status}]

decQuadAdd(a, b) == decFinalize(a + b, 1)

decQuadSubtract(a, b) == decFinalize(a - b, 1)

decQuadMultiply(a, b) == decFinalize(a * b, 10 ^ Places)

decQuadDivide(a, b) ==
    IF b = 0
    THEN IF a = 0 THEN Invalid("Division_undefined")
                  ELSE [dq |-> decQuad("infinite", 0), status |-> {"Division_by_zero"}]
    ELSE decFinalize(a * 10 ^ Places * Neg(b), Abs(b))

decQuadRemainder(a, b) ==
    IF b = 0 THEN Invalid(IF a = 0 THEN "Division_undefined" ELSE "Invalid_operation")
    ELSE IF Abs(a) \div Abs(b) >= 10 ^ Precision THEN Invalid("Division_impossible")
    ELSE decFinalize(Neg(a) * (Abs(a) % Abs(b)), 1)

-----------------------------------------------------------------------------

(* Tagged numbers. *)

Decimal(dq) == [tag |-> "decimal", imm |-> FALSE, class |-> dq.class, n |-> dq.n]
Zero == Decimal(decQuad("posZero", 0))
FloatNumber(class, n) == [tag |-> "float", imm |-> FALSE, class |-> class, n |-> n]
MaxFloat == (2 ^ (kDpSignificandSize + 1) - 1) * 2 ^ MaxFloatShift

\* Mutant: the bits of an immediate int are one fewer than they are taken to be.
intToTagged_Wide(n) ==
    IF -(2 ^ ImmediateBits) <= n /\ n <= 2 ^ ImmediateBits - 1
    THEN [tag |-> "int", imm |-> TRUE, class |-> "int", n |-> n % 2 ^ ImmediateBits]
    ELSE [tag |-> "int", imm |-> FALSE, class |-> "int", n |-> n]

\* A small int is in the tagged pointer, as bits; others are on the heap.
intToTagged(n) ==
    IF -(2 ^ (ImmediateBits - 1)) <= n /\ n <= 2 ^ (ImmediateBits - 1) - 1
    THEN [tag |-> "int", imm |-> TRUE, class |-> "int", n |-> n % 2 ^ ImmediateBits]
    ELSE [tag |-> "int", imm |-> FALSE, class |-> "int", n |-> n]

\* With the sign extended.
taggedToInt(p) ==
    IF p.imm /\ p.n >= 2 ^ (ImmediateBits - 1) THEN p.n - 2 ^ ImmediateBits ELSE p.n

Panic(code) == [panicCode |-> code, ptr |-> Zero]
Ptr(p) == [panicCode |-> "none", ptr |-> p]

\* Mutant: a result that is normal after rounding only is kept.
finish_NoUnderflow(r) ==
    IF r.dq.class \in {"posZero", "negZero", "subnormal"} THEN Ptr(Zero)
    ELSE IF r.status \ {"Underflow"} = {} THEN Ptr(Decimal(r.dq))
    ELSE IF "Division_by_zero" \in r.status THEN Panic("PANIC_DIVIDE_BY_ZERO")
    ELSE IF "Overflow" \in r.status THEN Panic("PANIC_ARITHMETIC_OVERFLOW")
    ELSE Panic("PANIC_INVALID_DECIMAL")

\* What becomes of the result of an operation; all status flags of the model are
\* among those that count as failure.
finish(r) ==
    IF r.dq.class \in {"posZero", "negZero", "subnormal"} THEN Ptr(Zero)
    ELSE IF r.status = {} THEN Ptr(Decimal(r.dq))
    ELSE IF "Division_by_zero" \in r.status THEN Panic("PANIC_DIVIDE_BY_ZERO")
    ELSE IF "Overflow" \in r.status THEN Panic("PANIC_ARITHMETIC_OVERFLOW")
    ELSE IF "Underflow" \in r.status THEN Ptr(Zero)
    ELSE Panic("PANIC_INVALID_DECIMAL")

_bal_decimal_add(p1, p2) == finish(decQuadAdd(p1.n, p2.n))
_bal_decimal_sub(p1, p2) == finish(decQuadSubtract(p1.n, p2.n))
_bal_decimal_mul(p1, p2) == finish(decQuadMultiply(p1.n, p2.n))
_bal_decimal_div(p1, p2) == finish(decQuadDivide(p1.n, p2.n))
_bal_decimal_rem(p1, p2) == finish(decQuadRemainder(p1.n, p2.n))

\* A zero stays as it is.
_bal_decimal_neg(p) ==
    IF p.class = "posZero" THEN p
    ELSE Decimal(decQuad(IF p.class = "negZero" THEN "posZero" ELSE p.class, -p.n))

-----------------------------------------------------------------------------

(* The digits of a positive float (Grisu2).  A DiyFp is f * 2^e.           *)

DiyFp(f, e) == [f |-> f, e |-> e]

\* The significand of a float of n units, with its hidden bit unless it is subnormal.
DiyFp_from_double(n) ==
    LET shift == AtLeast0(Bits(n) - kDpSignificandSize - 1)
    IN DiyFp(n \div 2 ^ shift, shift - FloatPlaces)

\* The upper half of the product, rounded.
DiyFp_multiply(lhs, rhs) ==
    DiyFp((lhs.f * rhs.f + 2 ^ (kDiySignificandSize - 1)) \div 2 ^ kDiySignificandSize,
          lhs.e + rhs.e + kDiySignificandSize)

\* With its highest bit set; NormalizeBoundary is the same.
Normalize(lhs) ==
    LET s == kDiySignificandSize - Bits(lhs.f) IN DiyFp(lhs.f * 2 ^ s, lhs.e - s)

\* Halfway to the floats above and below; the one below a power of two is nearer.
NormalizedBoundaries(v) ==
    LET plus == Normalize(DiyFp(2 * v.f + 1, v.e - 1))
        minus == IF v.f = 2 ^ kDpSignificandSize THEN DiyFp(4 * v.f - 1, v.e - 2)
                 ELSE DiyFp(2 * v.f - 1, v.e - 1)
    IN [plus |-> plus, minus |-> DiyFp(minus.f * 2 ^ (minus.e - plus.e), plus.e)]

\* The DiyFp of 10^c in the table, rounded.
kCachedPowers(c) ==
    LET drop == AtLeast0(Bits(10 ^ c) - kDiySignificandSize)
        s == kDiySignificandSize - 1 + Bits(10 ^ (-c) - 1)
    IN IF c >= 0 THEN Normalize(DiyFp(HalfEven(10 ^ c, 2 ^ drop), drop))
       ELSE DiyFp(HalfEven(2 ^ s, 10 ^ (-c)), -s)

\* The least power in the table that is at least 2^(-(kDiySignificandSize - 3) - e).
GetCachedPower(e) ==
    LET log == -(kDiySignificandSize - 3) - e
        Enough(c) == IF c >= 0 THEN log <= 0 \/ 10 ^ c >= 2 ^ log
                     ELSE log <= 0 /\ 10 ^ (-c) <= 2 ^ (-log)
    IN CHOOSE c \in CachedPowers : Enough(c) /\ \A b \in CachedPowers : Enough(b) => c <= b

\* How often the last digit is decremented, to come closer to the float.
GrisuRound(delta, rest, ten_kappa, wp_w) ==
    LET Closer(j) ==
            LET r == rest + j * ten_kappa
            IN r < wp_w /\ delta - r >= ten_kappa
               /\ (r + ten_kappa < wp_w \/ wp_w - r > r + ten_kappa - wp_w)
    IN CHOOSE j \in 0 .. 9 : ~ Closer(j) /\ \A i \in 0 .. j - 1 : Closer(i)

\* The digits of Mp up to the first, of weight 10^kappa, after which the rest is less
\* than delta; none when that takes too many (abort).  kPow10 is read outside of its
\* bounds for a kappa below -TableDigits: what is read is the distance of the float
\* from Mp for GrisuRound, which stops at any digit from which the rest is in delta.
DigitGen(W, Mp, delta, K) ==
    LET one == 2 ^ (-Mp.e)
        Scale(kappa) == 10 ^ AtLeast0(-kappa)
        TenKappa(kappa) == 10 ^ AtLeast0(kappa) * one
        Rest(kappa) == (Mp.f * Scale(kappa)) % TenKappa(kappa)
        Within(kappa) == Rest(kappa) < delta * Scale(kappa) \/ (kappa >= 0 /\ Rest(kappa) = delta)
        first == Length(Mp.f \div one) - 1
        stops == {kappa \in first - MaxDigits + 1 .. first : Within(kappa)}
        Decrements(kappa) ==
            IF kappa < -TableDigits
            THEN {j \in 0 .. 9 : Rest(kappa) + j * one <= delta * Scale(kappa)}
            ELSE {GrisuRound(delta * Scale(kappa), Rest(kappa), TenKappa(kappa),
                             (Mp.f - W.f) * Scale(kappa))}
        Digits(kappa) == (Mp.f * Scale(kappa)) \div TenKappa(kappa)
    IN UNION {{[digits |-> Digits(kappa) - j, exponent |-> K + kappa] : j \in Decrements(kappa)} :
                 kappa \in {k \in stops : \A l \in stops : l <= k}}

\* Mutant: the boundaries are taken to be exact.
Grisu2_Exact(n) ==
    LET v == DiyFp_from_double(n)
        w == NormalizedBoundaries(v)
        c == GetCachedPower(w.plus.e)
        Wp == DiyFp_multiply(w.plus, kCachedPowers(c))
        Wm == DiyFp_multiply(w.minus, kCachedPowers(c))
    IN DigitGen(DiyFp_multiply(Normalize(v), kCachedPowers(c)), Wp, Wp.f - Wm.f, -c)

\* Digits between the boundaries of a float, each a unit further inside as it may be
\* rounded.
Grisu2(n) ==
    LET v == DiyFp_from_double(n)
        w == NormalizedBoundaries(v)
        c == GetCachedPower(w.plus.e)
        Wp == DiyFp_multiply(w.plus, kCachedPowers(c))
        Wm == DiyFp_multiply(w.minus, kCachedPowers(c))
    IN DigitGen(DiyFp_multiply(Normalize(v), kCachedPowers(c)),
                DiyFp(Wp.f - 1, Wp.e), (Wp.f - 1) - (Wm.f + 1), -c)

-----------------------------------------------------------------------------

(* Conversions. *)

_bal_decimal_from_int(n) ==
    IF -(2 ^ (Int32Bits - 1)) <= n /\ n < 2 ^ (Int32Bits - 1)
    THEN Decimal(decQuad(IF n = 0 THEN "posZero" ELSE "normal", n * 10 ^ Places))
    ELSE Decimal(decFinalize(n * 10 ^ Places, 1).dq)

\* What decQuadFromString makes of digits * 10^exponent.
decQuadFromString(digits, exponent) ==
    LET shift == exponent + Places
    IN decFinalize(digits * 10 ^ AtLeast0(shift), 10 ^ AtLeast0(-shift)).dq

\* The results of the conversion of a float: by way of its digits, without trailing
\* zeros, and nothing is made of the status.
_bal_decimal_from_float(f) ==
    IF f.class = "nan" THEN {Panic("PANIC_INVALID_DECIMAL")}
    ELSE IF f.class = "infinite" THEN {Panic("PANIC_ARITHMETIC_OVERFLOW")}
    ELSE IF f.class \in {"posZero", "negZero"} THEN {Ptr(Zero)}
    ELSE {Ptr(Decimal(decQuadFromString(Neg(f.n) * text.digits, text.exponent))) :
             text \in Grisu2(Abs(f.n))}

\* The float that is nearest to n / d units, the one with an even significand when
\* there are two: strtod, and what C does with an int that becomes a double.
strtod(n, d) ==
    LET shift == AtLeast0(Bits(Abs(n) \div d) - kDpSignificandSize - 1)
        rounded == HalfEven(Abs(n), d * 2 ^ shift) * 2 ^ shift
    IN IF rounded > MaxFloat THEN FloatNumber("infinite", 0)
       ELSE IF rounded = 0 THEN FloatNumber(IF n < 0 THEN "negZero" ELSE "posZero", 0)
       ELSE FloatNumber("normal", Neg(n) * rounded)

_bal_decimal_to_float(p) == strtod(p.n * 2 ^ FloatPlaces, 10 ^ Places)

Overflows == [overflow |-> TRUE, value |-> 0]
Value(n) == [overflow |-> FALSE, value |-> n]

\* The quantized decimal has too many digits, or what strtol reads is not an int.
_bal_decimal_to_int(p) ==
    LET quantized == Neg(p.n) * HalfEven(Abs(p.n), 10 ^ Places)
    IN IF Abs(quantized) >= 10 ^ Precision \/ ~ IsInt(quantized) THEN Overflows ELSE Value(quantized)

\* lrint, for a float that is at least the least int and at most the greatest float
\* below 2^63.
_bal_float_to_int(f) ==
    LET below == 2 ^ (IntBits - 1) * 2 ^ FloatPlaces
    IN IF f.class \in {"nan", "infinite"} \/ f.n < -below \/ f.n >= below THEN Overflows
       ELSE Value(Neg(f.n) * HalfEven(Abs(f.n), 2 ^ FloatPlaces))

_bal_convert_to_int(p) ==
    LET res == IF p.tag = "float" THEN _bal_float_to_int(p) ELSE _bal_decimal_to_int(p)
    IN IF p.tag = "int" THEN Ptr(p)
       ELSE IF res.overflow THEN Panic("PANIC_ARITHMETIC_OVERFLOW")
       ELSE Ptr(intToTagged(res.value))

\* The results: that of a float has a digit that may depend on what kPow10 is followed by.
_bal_convert_to_decimal(p) ==
    CASE p.tag = "int" -> {Ptr(_bal_decimal_from_int(taggedToInt(p)))}
      [] p.tag = "float" -> _bal_decimal_from_float(p)
      [] OTHER -> {Ptr(p)}

_bal_convert_to_float(p) ==
    CASE p.tag = "int" -> strtod(taggedToInt(p) * 2 ^ FloatPlaces, 1)
      [] p.tag = "decimal" -> _bal_decimal_to_float(p)
      [] OTHER -> p

-----------------------------------------------------------------------------

OperandNumbers == {Decimal(decQuad(IF n = 0 THEN "posZero" ELSE "normal", n)) : n \in Operands}

FloatNumbers ==
    {FloatNumber("normal", n) : n \in Floats} \cup
    {FloatNumber(class, 0) : class \in {"posZero", "negZero", "nan", "infinite"}}

NumbersInit ==
    /\ number \in OperandNumbers \cup FloatNumbers
                  \cup {intToTagged(n) : n \in -(2 ^ (IntBits - 1)) .. 2 ^ (IntBits - 1) - 1}
    /\ panicCode = "none"

Becomes(result) ==
    /\ panicCode' = result.panicCode
    /\ number' = IF result.panicCode = "none" THEN result.ptr ELSE number

Results(p1, p2) ==
    {_bal_decimal_add(p1, p2), _bal_decimal_sub(p1, p2), _bal_decimal_mul(p1, p2),
     _bal_decimal_div(p1, p2), _bal_decimal_rem(p1, p2), Ptr(_bal_decimal_neg(p1))}

Arithmetic ==
    /\ panicCode = "none" /\ number.tag = "decimal"
    /\ \E p2 \in OperandNumbers : \E result \in Results(number, p2) : Becomes(result)

Convert ==
    /\ panicCode = "none"
    /\ \/ Becomes(_bal_convert_to_int(number))
       \/ \E result \in _bal_convert_to_decimal(number) : Becomes(result)
       \/ Becomes(Ptr(_bal_convert_to_float(number)))

NumbersNext == Arithmetic \/ Convert

-----------------------------------------------------------------------------

(* What is to come out. *)

\* A decimal is zero, without a sign, or has its full precision.
IsDecimal(p) ==
    \/ p = Zero
    \/ p.class = "normal" /\ MinNormal <= Abs(p.n) /\ Abs(p.n) <= MaxDecimal

\* The decimals next to a positive one.
Ulp(n) == 10 ^ AtLeast0(Length(n) - Precision)

\* The decimal m is the nearest one to n / d, and the even one of two.
Nearest(m, n, d) ==
    LET error == Abs(m * d - n)
        above == Abs((m + Ulp(m)) * d - n)
        under == Abs((m - Ulp(m - 1)) * d - n)
    IN /\ error <= above /\ error <= under
       /\ error = above \/ error = under => (m \div Ulp(m)) % 2 = 0

\* The result for what is exactly n / d units.
RightFor(result, n, d) ==
    IF Abs(n) < MinNormal * d THEN result = Ptr(Zero)
    ELSE IF result.panicCode # "none"
    THEN /\ result.panicCode = "PANIC_ARITHMETIC_OVERFLOW"
         /\ 2 * (Abs(n) - MaxDecimal * d) >= Ulp(MaxDecimal) * d
    ELSE /\ IsDecimal(result.ptr)
         /\ (result.ptr.n < 0) = (n < 0)
         /\ Nearest(Abs(result.ptr.n), Abs(n), d)

\* Arithmetic on decimals gives the nearest decimal to the exact result, zero when
\* that is too small to have the full precision - also when it would have it after
\* rounding - and panics when there is no result; a decimal is never NaN, infinite,
\* subnormal or a zero with a sign, after any sequence of operations (decimal.c).
DecimalsRight ==
    number.tag = "decimal" =>
        /\ IsDecimal(number) /\ IsDecimal(_bal_decimal_neg(number))
        /\ _bal_decimal_neg(number).n = -number.n
        /\ \A p2 \in OperandNumbers :
              LET a == number.n
                  b == p2.n
              IN /\ RightFor(_bal_decimal_add(number, p2), a + b, 1)
                 /\ RightFor(_bal_decimal_sub(number, p2), a - b, 1)
                 /\ RightFor(_bal_decimal_mul(number, p2), a * b, 10 ^ Places)
                 /\ IF b # 0 THEN RightFor(_bal_decimal_div(number, p2), a * 10 ^ Places * Neg(b), Abs(b))
                    ELSE _bal_decimal_div(number, p2).panicCode
                           = IF a = 0 THEN "PANIC_INVALID_DECIMAL" ELSE "PANIC_DIVIDE_BY_ZERO"
                 /\ IF b # 0 /\ Abs(a) \div Abs(b) < 10 ^ Precision
                    THEN RightFor(_bal_decimal_rem(number, p2), Neg(a) * (Abs(a) % Abs(b)), 1)
                    ELSE _bal_decimal_rem(number, p2).panicCode = "PANIC_INVALID_DECIMAL"

\* The ints within half a unit of n / d, and the even one of two.
NearestInt(i, n, d) == 2 * Abs(i * d - n) < d \/ (2 * Abs(i * d - n) = d /\ i % 2 = 0)

\* All floats, in units.
FiniteFloats ==
    LET positive == UNION {{f * 2 ^ s : f \in 1 .. 2 ^ (kDpSignificandSize + 1) - 1} : s \in 0 .. MaxFloatShift}
    IN positive \cup {-n : n \in positive} \cup {0}

\* The float f is the nearest one to n / d units, or the even one of two; it is infinite
\* from halfway to what would be the next one.
NearestFloat(f, n, d) ==
    IF f.class = "infinite" THEN 2 * (Abs(n) - MaxFloat * d) >= 2 ^ MaxFloatShift * d
    ELSE \A m \in FiniteFloats \ {f.n} :
            LET error == Abs(f.n * d - n)
                other == Abs(m * d - n)
            IN error < other \/ (error = other /\ DiyFp_from_double(Abs(f.n)).f % 2 = 0)

\* A number converts to the nearest int if there is one and to the nearest float; an
\* int comes through the tagged representation and through decimals unchanged; a float
\* has digits, whatever is read after kPow10, that make a decimal, and from that the
\* same float is read (convert.c, emyg_dtoa.c, intToTagged and taggedToInt of balrt.h).
ConversionsRight ==
    /\ number.tag = "int" =>
         LET n == taggedToInt(number)
         IN /\ IsInt(n) /\ intToTagged(n) = number
            /\ _bal_decimal_to_int(_bal_decimal_from_int(n)) = Value(n)
            /\ NearestFloat(_bal_convert_to_float(number), n * 2 ^ FloatPlaces, 1)
    /\ number.tag = "decimal" =>
         NearestFloat(_bal_convert_to_float(number), number.n * 2 ^ FloatPlaces, 10 ^ Places)
    /\ number.class \in {"normal", "posZero", "negZero"} =>
         LET result == _bal_convert_to_int(number)
             unit == IF number.tag = "float" THEN 2 ^ FloatPlaces ELSE 10 ^ Places
         IN IF result.panicCode = "none" THEN NearestInt(taggedToInt(result.ptr), number.n, unit)
            ELSE \A i \in -(2 ^ (IntBits - 1)) .. 2 ^ (IntBits - 1) - 1 : ~ NearestInt(i, number.n, unit)
    /\ number.tag = "float" =>
         /\ _bal_convert_to_decimal(number) # {}
         /\ \A result \in _bal_convert_to_decimal(number) :
              IF number.class \in {"nan", "infinite"} THEN result.panicCode # "none"
              ELSE /\ result.panicCode = "none" /\ IsDecimal(result.ptr)
                   /\ _bal_convert_to_float(result.ptr).n = number.n
=============================================================================

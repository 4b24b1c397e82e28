------------------------------ MODULE Doubles ------------------------------
(***************************************************************************)
(* The conversion of a number to floating point: the other branch of       *)
(* to_arithmetic, whose loops over the digits are those of Numbers, and    *)
(* what parse_number of load.hpp makes of a number that is no integer.     *)
(* ToSpec is to_arithmetic<T> for T of either kind.                        *)
(*                                                                         *)
(* A magnitude of the target format is a multiple of its least denormal,   *)
(* 2^(1 - Offset), and Infinity is the power of two beyond the greatest:   *)
(* for IEEE double FractionBits is 52, MaxBiased 2047 and Offset 1075.     *)
(* long double has LongPrecision bits, and here an exponent without limit. *)
(***************************************************************************)
EXTENDS Numbers

CONSTANTS
    FloatSpellings,  \* the numbers to convert to floating point
    FractionBits, MaxBiased, Offset, LongPrecision

ASSUME FloatSpellingsAssumption == \A s \in FloatSpellings : IsNumber(s)

ASSUME FormatAssumption ==
    /\ {FractionBits, MaxBiased, Offset} \subseteq Nat \ {0}
    /\ LongPrecision \in Nat /\ LongPrecision > FractionBits + 1

VARIABLES
    floating,  \* T is a floating point type
    scaled,    \* the long double: m * 2^e
    result

toVars == <<vars, floating, scaled, result>>

-----------------------------------------------------------------------------
(***************************************************************************)
(* Rounding, to the nearest and from halfway to the even number.           *)
(***************************************************************************)
HalfEven(n, d) ==
    LET q == n \div d
        r == n % d
    IN  q + IF 2 * r > d \/ (2 * r = d /\ q % 2 = 1) THEN 1 ELSE 0

\* How many places beyond the given bits n / d has, if any.
Beyond(n, d, bits) ==
    CHOOSE b \in 0..31 : n < d * 2 ^ (bits + b) /\ (b > 0 => n >= d * 2 ^ (bits + b - 1))

Infinity == 2 ^ (FractionBits + MaxBiased - 1)

\* n / d as a magnitude.
Rounded(n, d) ==
    LET b    == Beyond(n, d, FractionBits + 1)
        size == HalfEven(n, d * 2 ^ b) * 2 ^ b
    IN  IF size < Infinity THEN size ELSE Infinity

Positive(x) == IF x > 0 THEN x ELSE 0

\* m * 2^e as a magnitude.
Magnitude(m, e) == Rounded(m * 2 ^ Positive(e + Offset - 1), 2 ^ Positive(1 - Offset - e))

\* (n / d) * 2^e in the given bits, where d is at most ten.
Binary(n, d, e, bits) ==
    LET guard == LongPrecision + 4
        b     == Beyond(n * 2 ^ guard, d, bits)
    IN  [m |-> HalfEven(n * 2 ^ guard, d * 2 ^ b), e |-> IF n = 0 THEN 0 ELSE e + b - guard]

LongDouble(n, d, e) == Binary(n, d, e, LongPrecision)

Float(minus, size) == [word |-> FALSE, negative |-> minus, size |-> size]

NaN == [word |-> TRUE, negative |-> FALSE, size |-> 0]

FromInteger(n) == Float(n < 0, Magnitude(IF n < 0 THEN -n ELSE n, 0))

\* "N" is 78.
WordOf(s) == IF ByteIn(s, AfterSign(s, 0), {78}) THEN NaN ELSE Float(IsNegative(s), Infinity)

-----------------------------------------------------------------------------
(***************************************************************************)
(* to_arithmetic<T>, and its branch for floating T.                        *)
(***************************************************************************)
ToInit ==
    /\ \/ floating = FALSE /\ spelling \in Spellings
       \/ floating = TRUE /\ spelling \in FloatSpellings
    /\ Begin
    /\ scaled = [m |-> 0, e |-> 0] /\ result = Float(FALSE, 0)

ReadWord ==
    /\ floating /\ NotFinite(spelling, AfterSign(spelling, 0))
    /\ ReadSign
    /\ result' = WordOf(spelling)
    /\ UNCHANGED <<floating, scaled>>

ReadDigits ==
    /\ ~(floating /\ NotFinite(spelling, AfterSign(spelling, 0)))
    /\ Read
    /\ UNCHANGED <<floating, scaled, result>>

ConvertInteger == ~floating /\ ToInteger /\ UNCHANGED <<floating, scaled, result>>

Hexadecimal == IsHex(spelling, AfterSign(spelling, 0))

\* Fault: the magnitude is not cast before it is negated.
HexadecimalResultFault == Float(negative, Magnitude(mantissa, 0))

HexadecimalResult ==
    FromInteger(Signed(Negated(negative, Signed(mantissa, LongBits)), LongBits))

FinishHexadecimal ==
    /\ floating /\ pc = "convert" /\ Hexadecimal
    /\ \/ /\ result' = HexadecimalResult
          /\ pc' = "converted"
          /\ UNCHANGED <<i, value, signs, digits, power>>
       \/ /\ Overflows(Negated(negative, Signed(mantissa, LongBits)), LongBits)
          /\ Refuse /\ UNCHANGED result
    /\ UNCHANGED <<floating, scaled>>

ConvertMantissa ==
    /\ floating /\ pc = "convert" /\ ~Hexadecimal
    /\ scaled' = LongDouble(mantissa, 1, 0)
    /\ pc' = "scale"
    /\ UNCHANGED <<i, value, signs, digits, power, floating, result>>

TimesTen ==
    /\ floating /\ pc = "scale" /\ exponent10 > 0
    /\ scaled' = LongDouble(10 * scaled.m, 1, scaled.e)
    /\ exponent10' = exponent10 - 1
    /\ UNCHANGED <<pc, i, value, signs, mantissa, power, floating, result>>

\* Fault: the quotient is kept in the precision of the target.
OverTenFault ==
    /\ floating /\ pc = "scale" /\ exponent10 < 0
    /\ scaled' = Binary(scaled.m, 10, scaled.e, FractionBits + 1)
    /\ exponent10' = exponent10 + 1
    /\ UNCHANGED <<pc, i, value, signs, mantissa, power, floating, result>>

OverTen ==
    /\ floating /\ pc = "scale" /\ exponent10 < 0
    /\ scaled' = LongDouble(scaled.m, 10, scaled.e)
    /\ exponent10' = exponent10 + 1
    /\ UNCHANGED <<pc, i, value, signs, mantissa, power, floating, result>>

FinishDecimal ==
    /\ floating /\ pc = "scale" /\ exponent10 = 0
    /\ result' = Float(negative, Magnitude(scaled.m, scaled.e))
    /\ pc' = "converted"
    /\ UNCHANGED <<i, value, signs, digits, power, floating, scaled>>

Returned == Ended /\ UNCHANGED toVars

ToNext == \/ ReadWord \/ ReadDigits \/ ConvertInteger \/ FinishHexadecimal
          \/ ConvertMantissa \/ TimesTen \/ OverTen \/ FinishDecimal \/ Returned

ToSpec == ToInit /\ [][ToNext]_toVars

FairSpec == ToSpec /\ WF_toVars(ToNext)

-----------------------------------------------------------------------------
(***************************************************************************)
(* What loads stores, and value::to<T> gives.  from_chars rounds correctly *)
(* and reports a number that rounds to infinity, or to zero without being  *)
(* zero, as out of range.                                                  *)
(***************************************************************************)
Places10(s) == ExponentOf(s) - Len(FractionDigits(s))

\* The number that is spelled is Above(s) / Below(s) times the least denormal.
Above(s) == Spelled(AllDigits(s), 10) * 10 ^ Positive(Places10(s)) * 2 ^ (Offset - 1)
Below(s) == 10 ^ Positive(0 - Places10(s))

FromChars(s) == LET size == Rounded(Above(s), Below(s))
                IN  [size |-> size,
                     out_of_range |-> size = Infinity \/ (size = 0 /\ Above(s) # 0)]

StoredDouble(s) ==
    IF NotFinite(s, AfterSign(s, 0)) THEN WordOf(s)
    ELSE LET parsed == FromChars(s)
         IN  Float(IsNegative(s), IF parsed.out_of_range THEN Infinity ELSE parsed.size)

ToDouble(s) == LET stored == Stored(s)
               IN  IF stored.integral THEN FromInteger(stored.integer) ELSE StoredDouble(s)

-----------------------------------------------------------------------------
(***************************************************************************)
(* Properties.                                                             *)
(***************************************************************************)
Converted == floating /\ pc \in {"done", "converted"}

\* The magnitudes next to one.
After(size) == size + 2 ^ Beyond(size, 1, FractionBits + 1)
Before(size) == size - 2 ^ Beyond(size - 1, 1, FractionBits + 1)

\* The result has the sign that is spelled, and no magnitude lies strictly between
\* it and the number that is spelled.
Faithful ==
    LET n == Above(spelling)
        d == Below(spelling)
    IN  /\ result.negative = IsNegative(spelling) /\ ~result.word
        /\ result.size < Infinity => n < d * After(result.size)
        /\ d * result.size > n => n > d * Before(result.size)

\* Converted at compile time, a number whose digits are not too many is one of the two
\* the format has around it: multiplications and divisions by ten in long double, each
\* rounded, and the cast that rounds once more, into denormals and infinity as well.
\* (types.hpp:110-118)
Neighbours ==
    Converted /\ IsDecimal(spelling)
        /\ Spelled(AllDigits(spelling), 10) < 2 ^ LongBits => Faithful

\* to<double>() gives the same for both documents where nothing has to be rounded on
\* the way: whole numbers within long long's range of bits, with an exponent or not,
\* hexadecimals whether they wrap around or not, and words; an integer and a double
\* stored by loads alike.  (load.hpp:26-28, 41)
SameDouble ==
    Converted /\
    (IsDecimal(spelling) => /\ Places10(spelling) >= 0
                            /\ Above(spelling) < 2 ^ (LongBits + Offset - 1)) =>
        LET other == ToDouble(spelling)
        IN  /\ result.word = other.word /\ result.size = other.size
            /\ result.size # 0 => result.negative = other.negative

\* "Python overflows to the infinities" (load.hpp:607): loads makes a number infinite
\* when it is too large.
InfinityIsOverflow ==
    Converted /\ IsDecimal(spelling) /\ ToDouble(spelling).size = Infinity =>
        Rounded(Above(spelling), Below(spelling)) = Infinity

\* "numbers are stored as numbers ... (That is the one behavioural difference from the
\* compile-time parser ...)" (load.hpp:39-42): to<double>() is a neighbour of the number
\* at compile time as it is at run time, however many digits it has.
LongNumbersConvert == Converted /\ IsDecimal(spelling) => Faithful

=============================================================================

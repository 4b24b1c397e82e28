------------------------------ MODULE Numbers ------------------------------
(***************************************************************************)
(* The conversion of a number: compile-time documents and their views keep *)
(* the spelling and convert on demand.  to_arithmetic of types.hpp is the  *)
(* machine below, one action per digit and per scaling; its branch for     *)
(* floating point, and the specification of both, are in module Doubles.   *)
(* The runtime parser converts once, while it parses: Stored(s) is what    *)
(* parse_number of load.hpp puts in the value.                             *)
(*                                                                         *)
(*  - pc is the loop or statement of to_arithmetic, or how it ended:       *)
(*    "done" with value, "converted" by the branch for floating point, or  *)
(*    "refused" by the compiler.                                           *)
(*  - i, negative, mantissa, exponent10, exp_negative, exp_value and value *)
(*    are its locals; mantissa is also the value of the hexadecimal branch.*)
(*                                                                         *)
(* The widths are constants: LongBits of long long (64), IntBits of int    *)
(* (32), TargetBits of the signed type T asked for.  Overflow of a signed  *)
(* integer is undefined: a constant expression is refused then, a build    *)
(* that converts at run time wraps.                                        *)
(*                                                                         *)
(* An operator named ...Fault is a plausible mistake in the operator that  *)
(* follows it: some property must fail when it takes that one's place.     *)
(***************************************************************************)
EXTENDS NumberLexer

CONSTANTS
    Spellings,   \* the numbers to convert to an integer
    LongBits,
    IntBits,
    TargetBits

\* What the grammar takes for a number; an int counts its digits.
IsNumber(s) == /\ s \in Seq(Byte)
               /\ ScanNumber(s, 0) = Scanned(Len(s))
               /\ Len(s) < 2 ^ (IntBits - 1)

ASSUME SpellingsAssumption == \A s \in Spellings : IsNumber(s)
ASSUME WidthAssumption ==
    /\ LongBits \in Nat \ {0} /\ IntBits \in Nat \ {0}
    /\ TargetBits \in 1..LongBits
\* Arithmetic that the provers do not have.
ASSUME PowersAssumption ==
    /\ \A bits \in {LongBits, IntBits, TargetBits} :
          2 ^ (bits - 1) \in Nat \ {0} /\ 2 ^ bits = 2 * 2 ^ (bits - 1)
    /\ 2 ^ (TargetBits - 1) <= 2 ^ (LongBits - 1)

VARIABLES pc, spelling, i, negative, mantissa, exponent10, exp_negative,
          exp_value, value

signs  == <<spelling, negative>>
digits == <<mantissa, exponent10>>
power  == <<exp_negative, exp_value>>
vars   == <<pc, i, value, signs, digits, power>>

-----------------------------------------------------------------------------
(***************************************************************************)
(* Machine integers.                                                       *)
(***************************************************************************)
SignedInt(bits) == -(2 ^ (bits - 1)) .. (2 ^ (bits - 1) - 1)

\* static_cast to an unsigned and to a signed integer.
Unsigned(x, bits) == x % (2 ^ bits)

Signed(x, bits) == Unsigned(x + 2 ^ (bits - 1), bits) - 2 ^ (bits - 1)

\* C++ division rounds towards zero (y > 0).
Quotient(x, y) == IF x < 0 THEN -((-x) \div y) ELSE x \div y

Negated(minus, x) == IF minus THEN -x ELSE x

\* The number that a sequence of digit values spells in a base.
Spelled(d, base) ==
    LET V[k \in 0..Len(d)] == IF k = 0 THEN 0 ELSE base * V[k - 1] + d[k]
    IN  V[Len(d)]

DigitValues(s, p, q) == LET d == Slice(s, p, q) IN [k \in 1..Len(d) |-> HexVal(d[k])]

-----------------------------------------------------------------------------
(***************************************************************************)
(* Tests on the spelling, shared by both conversions: p is the offset      *)
(* behind the sign.                                                        *)
(***************************************************************************)
IsNegative(s) == ByteIn(s, 0, {Minus})

\* "I" and "N" are 73 and 78, "x" and "X" are 120 and 88.
NotFinite(s, p) == ByteIn(s, p, {73, 78})

\* Fault: every number that starts with 0 is taken for hexadecimal.
IsHexFault(s, p) == ByteIn(s, p, {Zero})

IsHex(s, p) == ByteIn(s, p, {Zero}) /\ ByteIn(s, p + 1, {88, 120})

-----------------------------------------------------------------------------
(***************************************************************************)
(* What loads stores: hexadecimal magnitudes wrap around and are cast; an  *)
(* integer that from_chars finds in range is kept as it is; all else       *)
(* becomes a double.                                                       *)
(***************************************************************************)
Integer(n) == [integral |-> TRUE, integer |-> n]
Double     == [integral |-> FALSE, integer |-> 0]

StoredHex(s, p) ==
    LET magnitude == Unsigned(Spelled(DigitValues(s, p + 2, Len(s)), 16), LongBits)
    IN  Integer(Signed(Negated(IsNegative(s), Signed(magnitude, LongBits)), LongBits))

StoredDecimal(s, p) ==
    LET n == Negated(IsNegative(s), Spelled(DigitValues(s, p, Len(s)), 10))
    IN  IF IntegerEnd(s, p) = Len(s) /\ n \in SignedInt(LongBits) THEN Integer(n)
                                                                  ELSE Double

Stored(s) ==
    LET p == AfterSign(s, 0)
    IN  IF NotFinite(s, p)  THEN Double
        ELSE IF IsHex(s, p) THEN StoredHex(s, p)
                            ELSE StoredDecimal(s, p)

\* What value::to<T> gives for a stored integer.
To(stored) == Signed(stored.integer, TargetBits)

\* number::is_integer; "." is 46, "E" and "e" are 69 and 101.
IsInteger(s) ==
    LET p == AfterSign(s, 0)
    IN  /\ ~NotFinite(s, p)
        /\ IsHex(s, p) \/ \A k \in 1..Len(s) : s[k] \notin {46, 69, 101}

-----------------------------------------------------------------------------
(***************************************************************************)
(* to_arithmetic<T>: the digits, and the branch for integral T.            *)
(***************************************************************************)
Begin ==
    /\ pc = "start"
    /\ i = 0 /\ negative = FALSE /\ value = 0
    /\ mantissa = 0 /\ exponent10 = 0
    /\ exp_negative = FALSE /\ exp_value = 0

\* Undefined in the code: the compiler refuses a constant expression.
Refuse == pc' = "refused" /\ UNCHANGED <<i, value, signs, digits, power>>

Overflows(result, bits) == result \notin SignedInt(bits)

ReadSign ==
    LET p == AfterSign(spelling, 0)
    IN  /\ pc = "start"
        /\ negative' = IsNegative(spelling)
        /\ IF NotFinite(spelling, p)  THEN pc' = "done" /\ i' = p
           ELSE IF IsHex(spelling, p) THEN pc' = "hex" /\ i' = p + 2
                                      ELSE pc' = "whole" /\ i' = p
        /\ UNCHANGED <<spelling, value, digits, power>>

\* Fault: the digits saturate instead of wrapping around.
AppendedFault(base) ==
    LET n == base * mantissa + HexVal(spelling[i + 1])
    IN  IF n < 2 ^ LongBits THEN n ELSE 2 ^ LongBits - 1

\* mantissa * base + digit, unsigned.
Appended(base) == Unsigned(base * mantissa + HexVal(spelling[i + 1]), LongBits)

HexStep ==
    /\ pc = "hex" /\ i < Len(spelling)
    /\ mantissa' = Appended(16)
    /\ i' = i + 1
    /\ UNCHANGED <<pc, signs, value, exponent10, power>>

WholeDigit ==
    /\ pc = "whole" /\ ByteIn(spelling, i, Digit)
    /\ mantissa' = Appended(10)
    /\ i' = i + 1
    /\ UNCHANGED <<pc, signs, value, exponent10, power>>

Point ==
    /\ pc = "whole" /\ ByteIn(spelling, i, {Dot})
    /\ pc' = "fraction"
    /\ i' = i + 1
    /\ UNCHANGED <<signs, value, digits, power>>

FractionDigit ==
    /\ pc = "fraction" /\ ByteIn(spelling, i, Digit)
    /\ mantissa' = Appended(10)
    /\ exponent10' = exponent10 - 1
    /\ i' = i + 1
    /\ UNCHANGED <<pc, signs, value, power>>

\* Fault: the sign of the exponent is not skipped.
OpenExponentFault ==
    /\ \/ pc = "whole" /\ ~ByteIn(spelling, i, Digit \cup {Dot})
       \/ pc = "fraction" /\ ~ByteIn(spelling, i, Digit)
    /\ ByteIn(spelling, i, {69, 101})
    /\ pc' = "exponent"
    /\ exp_negative' = ByteIn(spelling, i + 1, {Minus})
    /\ i' = i + 1
    /\ UNCHANGED <<signs, value, digits, exp_value>>

\* "e" or "E" (101, 69) and the sign behind it.
OpenExponent ==
    /\ \/ pc = "whole" /\ ~ByteIn(spelling, i, Digit \cup {Dot})
       \/ pc = "fraction" /\ ~ByteIn(spelling, i, Digit)
    /\ ByteIn(spelling, i, {69, 101})
    /\ pc' = "exponent"
    /\ exp_negative' = ByteIn(spelling, i + 1, {Minus})
    /\ i' = AfterSign(spelling, i + 1)
    /\ UNCHANGED <<signs, value, digits, exp_value>>

ExponentDigit ==
    LET n == 10 * exp_value + HexVal(spelling[i + 1])
    IN  /\ pc = "exponent" /\ i < Len(spelling)
        /\ \/ /\ exp_value' = Signed(n, IntBits)
              /\ i' = i + 1
              /\ UNCHANGED <<pc, signs, value, digits, exp_negative>>
           \/ Overflows(n, IntBits) /\ Refuse

\* Fault: the exponent replaces what the fraction has counted.
ShiftFault == Negated(exp_negative, exp_value)

\* Where the point stands behind the last digit of the mantissa.
Shift == exponent10 + Negated(exp_negative, exp_value)

CloseExponent ==
    /\ pc = "exponent" /\ i = Len(spelling)
    /\ \/ /\ exponent10' = Signed(Shift, IntBits)
          /\ pc' = "convert"
          /\ UNCHANGED <<i, value, signs, mantissa, power>>
       \/ Overflows(Shift, IntBits) /\ Refuse

\* The digits end the spelling: there is no exponent, and none for hexadecimal
\* digits, whose value is not scaled.
NoExponent ==
    /\ pc \in {"hex", "whole", "fraction"} /\ i = Len(spelling)
    /\ pc' = "convert"
    /\ UNCHANGED <<i, value, signs, digits, power>>

Convert ==
    /\ pc = "convert"
    /\ value' = Signed(mantissa, LongBits)
    /\ pc' = "scale"
    /\ UNCHANGED <<i, signs, digits, power>>

ScaleUp ==
    /\ pc = "scale" /\ exponent10 > 0
    /\ \/ /\ value' = Signed(10 * value, LongBits)
          /\ exponent10' = exponent10 - 1
          /\ UNCHANGED <<pc, i, signs, mantissa, power>>
       \/ Overflows(10 * value, LongBits) /\ Refuse

\* Fault: the count is not moved towards zero.
ScaleDownFault ==
    /\ pc = "scale" /\ exponent10 < 0
    /\ value' = Quotient(value, 10)
    /\ UNCHANGED <<pc, i, signs, digits, power>>

ScaleDown ==
    /\ pc = "scale" /\ exponent10 < 0
    /\ value' = Quotient(value, 10)
    /\ exponent10' = exponent10 + 1
    /\ UNCHANGED <<pc, i, signs, mantissa, power>>

Finish ==
    LET n == Negated(negative, value)
    IN  /\ pc = "scale" /\ exponent10 = 0
        /\ \/ /\ value' = Signed(Signed(n, LongBits), TargetBits)
              /\ pc' = "done"
              /\ UNCHANGED <<i, signs, digits, power>>
           \/ Overflows(n, LongBits) /\ Refuse

Read == \/ ReadSign \/ HexStep \/ WholeDigit \/ Point \/ FractionDigit
        \/ OpenExponent \/ ExponentDigit \/ CloseExponent \/ NoExponent

ToInteger == Convert \/ ScaleUp \/ ScaleDown \/ Finish

Ended == pc \in {"done", "converted", "refused"}

-----------------------------------------------------------------------------
(***************************************************************************)
(* What the conversion should give, from the spelling alone: its digits    *)
(* with the point moved by the exponent, cut off at the point.             *)
(***************************************************************************)
IsDecimal(s) == LET p == AfterSign(s, 0) IN ~NotFinite(s, p) /\ ~IsHex(s, p)

WholeEnd(s) == RunEnd(s, AfterSign(s, 0), Digit)

DigitsEnd(s) == FractionEnd(s, WholeEnd(s))

FractionDigits(s) == DigitValues(s, WholeEnd(s) + 1, DigitsEnd(s))

AllDigits(s) == DigitValues(s, AfterSign(s, 0), WholeEnd(s)) \o FractionDigits(s)

\* The exponent that is written, without its sign; 0 if none is.
ExponentDigits(s) ==
    Spelled(DigitValues(s, AfterSign(s, DigitsEnd(s) + 1), Len(s)), 10)

ExponentOf(s) == Negated(ByteIn(s, DigitsEnd(s) + 1, {Minus}), ExponentDigits(s))

\* The digits before the point once it is moved k places to the right.
Moved(d, k) == IF k >= 0 THEN d \o [z \in 1..k |-> 0] ELSE SubSeq(d, 1, Len(d) + k)

WholeDigits(s) == Moved(AllDigits(s), ExponentOf(s) - Len(FractionDigits(s)))

\* Digits d spell a number that a signed integer has: z of them are leading
\* zeros, and a number with more digits than bits is too large.
InRange(d, bits) ==
    \E z \in 0..Len(d) : /\ \A k \in 1..z : d[k] = 0
                         /\ Len(d) - z <= bits
                         /\ Spelled(SubSeq(d, z + 1, Len(d)), 10) \in SignedInt(bits)

Truncation(s) == Negated(IsNegative(s), Spelled(WholeDigits(s), 10))

\* T has the truncated number, and int the exponent and what it is added to.
Representable(s) ==
    /\ IsDecimal(s)
    /\ InRange(WholeDigits(s), TargetBits)
    /\ ExponentDigits(s) + Len(FractionDigits(s)) \in SignedInt(IntBits)

Truncated == /\ pc # "refused"
             /\ pc = "done" => value = Truncation(spelling)

-----------------------------------------------------------------------------
(***************************************************************************)
(* Properties.                                                             *)
(***************************************************************************)

\* The locals keep to their widths, and the offset to the spelling.
NumbersTypeOK ==
    /\ pc \in {"start", "hex", "whole", "fraction", "exponent", "convert", "scale",
               "done", "converted", "refused"}
    /\ i \in 0..Len(spelling)
    /\ negative \in BOOLEAN /\ exp_negative \in BOOLEAN
    /\ mantissa \in 0..(2 ^ LongBits - 1)
    /\ value \in SignedInt(LongBits)
    /\ exponent10 \in SignedInt(IntBits) /\ exp_value \in SignedInt(IntBits)

\* The loops over hexadecimal digits and over the exponent test for the end of the
\* text alone, and the byte behind an "e" is read without any test: it is there, and
\* what those loops take for digits are digits.  (types.hpp:59-70, 89-96)
OnlyDigits ==
    /\ pc = "hex" => \A k \in i..(Len(spelling) - 1) : spelling[k + 1] \in HexDigit
    /\ pc = "exponent" => \A k \in i..(Len(spelling) - 1) : spelling[k + 1] \in Digit
    /\ pc \in {"whole", "fraction"} /\ ByteIn(spelling, i, {69, 101}) =>
          i + 1 < Len(spelling)

\* Integral conversions truncate fractions, like a cast (README.md, to<T>), as
\* long as all the digits together fit in long long: the scaling by powers of
\* ten neither overflows nor rounds, whatever sign, fraction and exponent do.
ShortNumbersTruncate ==
    InRange(AllDigits(spelling), LongBits) /\ Representable(spelling) => Truncated

\* Both documents agree on integers (load.hpp and tests/load.cpp say so): what
\* loads keeps as an integer is one at compile time and converts to the same
\* value, wrapped around or not, and only the least long long may be refused;
\* what loads keeps as a double is no integer or has too many digits.
SameInteger ==
    LET stored == Stored(spelling)
    IN  /\ stored.integral =>
               /\ IsInteger(spelling)
               /\ pc = "done" => value = To(stored)
               /\ pc = "refused" => stored.integer = -(2 ^ (LongBits - 1))
        /\ ~stored.integral =>
               ~IsInteger(spelling) \/ ~InRange(AllDigits(spelling), LongBits)

\* to<T>() returns: the loops of to_arithmetic (types.hpp) over digits and powers
\* of ten come to an end.
ConversionReturns == <>Ended

=============================================================================

------------------------------- MODULE Digits -------------------------------
(***************************************************************************)
(* write_floating and shortest_digits of dumps.hpp: the fewest digits that *)
(* are read back as the same floating point number, and their layout.      *)
(* The format is a parameter: for IEEE double FractionBits is 52,          *)
(* MaxBiased 2047 and Offset 1075.                                         *)
(*                                                                         *)
(* numerator / denominator is what is left of the value, in units of the   *)
(* next digit; margin_high and margin_low, over the same denominator, are  *)
(* how far the next numbers' halves are.                                   *)
(***************************************************************************)
EXTENDS Bignum, Bytes

CONSTANTS
    FractionBits,
    MaxBiased,
    Offset,
    ScientificBelow, ScientificFrom  \* leading exponents: under -4, and from 16

ASSUME FormatAssumption == {FractionBits, MaxBiased, Offset} \subseteq Nat \ {0}

Doubles == [negative : BOOLEAN, biased : 0..MaxBiased, fraction : 0..((2 ^ FractionBits) - 1)]

VARIABLES
    value,        \* the bits of the number
    pc,           \* "value", "up", "down", "next", "subtract", "carry", "layout" or "done"
    numerator, denominator, margin_high, margin_low,
    digits,       \* decimal_digits::digits; the last may be ten for a while
    point,        \* the value is 0.digits x 10^point
    digit,        \* the digit that is counted
    index,        \* of the digit that may carry
    out           \* the text

vars == <<value, pc, numerator, denominator, margin_high, margin_low,
          digits, point, digit, index, out>>

bignums == <<numerator, denominator, margin_high, margin_low>>

-----------------------------------------------------------------------------
(***************************************************************************)
(* The number.                                                             *)
(***************************************************************************)
Denormal == value.biased = 0

Mantissa == IF Denormal THEN value.fraction ELSE value.fraction + 2 ^ FractionBits

Exponent2 == (IF Denormal THEN 1 ELSE value.biased) - Offset

\* Fault: the gap below a power of two counts as wide as the one above.
BoundaryIsCloserFault == FALSE

BoundaryIsCloser == value.fraction = 0 /\ value.biased > 1

Even == Mantissa % 2 = 0

Special == value.biased = MaxBiased \/ (Denormal /\ value.fraction = 0)

Sign == IF value.negative THEN <<Minus>> ELSE <<>>

SpecialText ==
    IF Denormal THEN Sign \o <<Zero, Dot, Zero>>
    ELSE IF value.fraction # 0 THEN WordNaN ELSE Sign \o WordInfinity

-----------------------------------------------------------------------------
(***************************************************************************)
(* Finding the digits.                                                     *)
(***************************************************************************)
Init ==
    /\ value \in Doubles
    /\ pc = "value"
    /\ numerator = <<>> /\ denominator = <<>> /\ margin_high = <<>> /\ margin_low = <<>>
    /\ digits = <<>> /\ point = 0 /\ digit = 0 /\ index = 0
    /\ out = <<>>

WriteSpecial ==
    /\ pc = "value" /\ Special
    /\ out' = SpecialText
    /\ pc' = "done"
    /\ UNCHANGED <<value, bignums, digits, point, digit, index>>

\* `more' is one bit for the half of the gap, two if the gap below is half as wide.
Begin ==
    LET more == IF BoundaryIsCloser THEN 2 ELSE 1
        up   == IF Exponent2 > 0 THEN Exponent2 ELSE 0
        down == IF Exponent2 < 0 THEN 0 - Exponent2 ELSE 0
    IN  /\ pc = "value" /\ ~Special
        /\ numerator' = ShiftLeft(FromNat(Mantissa), up + more)
        /\ denominator' = IF Exponent2 < 0 THEN ShiftLeft(FromNat(1), down + more)
                                           ELSE FromNat(2 * more)
        /\ margin_high' = IF Exponent2 < 0 THEN FromNat(more)
                                           ELSE ShiftLeft(FromNat(1), up + more - 1)
        /\ margin_low' = ShiftLeft(FromNat(1), up)
        /\ out' = Sign
        /\ pc' = "up"
        /\ UNCHANGED <<value, digits, point, digit, index>>

\* Fault: an upper bound that counts as inside is left out.
HighHitsFault == Compare(Add(numerator, margin_high), denominator) > 0

HighHits == LET c == Compare(Add(numerator, margin_high), denominator)
            IN  IF Even THEN c >= 0 ELSE c > 0

LowHits == LET c == Compare(numerator, margin_low)
           IN  IF Even THEN c <= 0 ELSE c < 0

ScaleUp ==
    /\ pc = "up"
    /\ HighHits
    /\ denominator' = MultiplySmall(denominator, 10)
    /\ point' = point + 1
    /\ UNCHANGED <<value, pc, numerator, margin_high, margin_low, digits, digit, index, out>>

ScaledUp == /\ pc = "up"
            /\ ~HighHits
            /\ pc' = "down"
            /\ UNCHANGED <<value, bignums, digits, point, digit, index, out>>

TooSmall == LET c == Compare(MultiplySmall(Add(numerator, margin_high), 10), denominator)
            IN  IF Even THEN c <= 0 ELSE c < 0

TenTimes == /\ numerator' = MultiplySmall(numerator, 10)
            /\ margin_high' = MultiplySmall(margin_high, 10)
            /\ margin_low' = MultiplySmall(margin_low, 10)
            /\ UNCHANGED denominator

ScaleDown == /\ pc = "down"
             /\ TooSmall
             /\ TenTimes
             /\ point' = point - 1
             /\ UNCHANGED <<value, pc, digits, digit, index, out>>

ScaledDown == /\ pc = "down"
              /\ ~TooSmall
              /\ pc' = "next"
              /\ UNCHANGED <<value, bignums, digits, point, digit, index, out>>

NextDigit == /\ pc = "next"
             /\ TenTimes
             /\ digit' = 0
             /\ pc' = "subtract"
             /\ UNCHANGED <<value, digits, point, index, out>>

Whole == Compare(numerator, denominator) >= 0

CountDigit ==
    /\ pc = "subtract"
    /\ Whole
    /\ numerator' = Subtract(numerator, denominator)
    /\ digit' = digit + 1
    /\ UNCHANGED <<value, pc, denominator, margin_high, margin_low, digits, point, index, out>>

EmitDigit == /\ pc = "subtract"
             /\ ~Whole /\ ~LowHits /\ ~HighHits
             /\ digits' = Append(digits, digit)
             /\ pc' = "next"
             /\ UNCHANGED <<value, bignums, point, digit, index, out>>

\* Fault: with both bounds hit, always up.
RoundedFault == IF HighHits THEN digit + 1 ELSE digit

\* With both bounds hit to the nearest, and from halfway to the even digit.
Rounded ==
    LET c  == Compare(MultiplySmall(numerator, 2), denominator)
        up == IF LowHits /\ HighHits THEN c > 0 \/ (c = 0 /\ digit % 2 # 0) ELSE HighHits
    IN  IF up THEN digit + 1 ELSE digit

LastDigit == /\ pc = "subtract"
             /\ ~Whole /\ (LowHits \/ HighHits)
             /\ digits' = Append(digits, Rounded)
             /\ index' = Len(digits')
             /\ pc' = "carry"
             /\ UNCHANGED <<value, bignums, point, digit, out>>

\* A ten is carried to the digit before it, or out of the digits.
Carry ==
    /\ pc = "carry"
    /\ digits[index] = 10
    /\ IF index = 1
       THEN /\ digits' = <<1>>
            /\ point' = point + 1
            /\ pc' = "layout"
            /\ UNCHANGED index
       ELSE /\ digits' = [digits EXCEPT ![index] = 0, ![index - 1] = @ + 1]
            /\ index' = index - 1
            /\ UNCHANGED <<pc, point>>
    /\ UNCHANGED <<value, bignums, digit, out>>

\* Zeros at the end go.
Carried ==
    /\ pc = "carry"
    /\ digits[index] # 10
    /\ digits' = SubSeq(digits, 1, Least({n \in 1..Len(digits) :
                                            \A i \in (n + 1)..Len(digits) : digits[i] = 0}))
    /\ pc' = "layout"
    /\ UNCHANGED <<value, bignums, point, digit, index, out>>

-----------------------------------------------------------------------------
(***************************************************************************)
(* The text.  "e" is 101.                                                  *)
(***************************************************************************)
Characters(s) == [i \in 1..Len(s) |-> Zero + s[i]]

Zeros(n) == [i \in 1..n |-> Zero]

\* Fault: the exponent counts from the digit behind the first.
LayoutTextFault ==
    LET size == IF point < 0 THEN 0 - point ELSE point
    IN  Characters(SubSeq(digits, 1, 1)) \o <<Dot>> \o Characters(Tail(digits))
          \o <<101, IF point < 0 THEN Minus ELSE Plus>> \o Decimal(size)

LayoutText ==
    LET n == Len(digits)
        leading == point - 1
        size == IF leading < 0 THEN 0 - leading ELSE leading
    IN  IF leading < 0 - ScientificBelow \/ leading >= ScientificFrom
        THEN Characters(SubSeq(digits, 1, 1))
               \o (IF n > 1 THEN <<Dot>> \o Characters(Tail(digits)) ELSE <<>>)
               \o <<101, IF leading < 0 THEN Minus ELSE Plus>>
               \o (IF size < 10 THEN <<Zero>> ELSE <<>>) \o Decimal(size)
        ELSE IF point <= 0 THEN <<Zero, Dot>> \o Zeros(0 - point) \o Characters(digits)
        ELSE IF point >= n THEN Characters(digits) \o Zeros(point - n) \o <<Dot, Zero>>
        ELSE Characters(SubSeq(digits, 1, point)) \o <<Dot>>
               \o Characters(SubSeq(digits, point + 1, n))

Layout == /\ pc = "layout"
          /\ out' = out \o LayoutText
          /\ pc' = "done"
          /\ UNCHANGED <<value, bignums, digits, point, digit, index>>

Written == pc = "done" /\ UNCHANGED vars

Next == \/ WriteSpecial \/ Begin
        \/ ScaleUp \/ ScaledUp \/ ScaleDown \/ ScaledDown
        \/ NextDigit \/ CountDigit \/ EmitDigit \/ LastDigit
        \/ Carry \/ Carried
        \/ Layout \/ Written

Spec == Init /\ [][Next]_vars /\ WF_vars(Next)

=============================================================================

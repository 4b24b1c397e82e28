------------------------------ MODULE MCDigits ------------------------------
(***************************************************************************)
(* What the digits have to be, for a small format: numbers are compared as *)
(* integers, in units of 2^-Units2 and 10^-Units10.                        *)
(***************************************************************************)
EXTENDS Digits, NumberLexer

CONSTANTS Units2, Units10

Pow(b, n) == IF n < 0 THEN 1 ELSE b ^ n

\* The number the digits before d and d itself are.
Number(s) ==
    LET number[n \in 0..Len(s)] == IF n = 0 THEN 0 ELSE 10 * number[n - 1] + s[n]
    IN  number[Len(s)]

BigValue(b) ==
    LET upto[n \in 0..Len(b)] == IF n = 0 THEN 0 ELSE upto[n - 1] + b[n] * (Base ^ (n - 1))
    IN  upto[Len(b)]

-----------------------------------------------------------------------------
(***************************************************************************)
(* Reference: the numbers of the format, as <<mantissa, exponent>>.        *)
(***************************************************************************)
MagnitudeOf(v) ==
    LET m == v.fraction + IF v.biased = 0 THEN 0 ELSE 2 ^ FractionBits
        e == (IF v.biased = 0 THEN 1 ELSE v.biased) - Offset
    IN  m * (2 ^ (e + Units2)) * (10 ^ Units10)

\* Every finite number, and as rounding sees it the infinity.
Magnitudes ==
    {[size |-> MagnitudeOf(v), even |-> v.fraction % 2 = 0] :
        v \in [biased : 0..(MaxBiased - 1), fraction : 0..((2 ^ FractionBits) - 1)]}
      \cup {[size |-> MagnitudeOf([biased |-> MaxBiased, fraction |-> 0]), even |-> TRUE]}

Distance(a, b) == IF a < b THEN b - a ELSE a - b

\* n x 10^k, rounded to the nearest and from halfway to the even number, is v.
ReadAs(n, k, v) ==
    LET size == n * (2 ^ Units2) * (10 ^ (Units10 + k))
    IN  \A w \in Magnitudes \ {v} :
            LET dv == Distance(size, v.size)
                dw == Distance(size, w.size)
            IN  dv < dw \/ (dv = dw /\ v.even)

This == [size |-> MagnitudeOf(value), even |-> value.fraction % 2 = 0]

-----------------------------------------------------------------------------
(***************************************************************************)
(* Properties.                                                             *)
(***************************************************************************)
\* No limb is ever dropped and no remainder lost, though the widest intermediate takes
\* all the limbs there are: the digits found and what is
\* left of the numerator are together the value, and the margins are half the
\* gaps, to the bit.  (shortest_digits; "1280 bits comfortably hold every
\* intermediate")
Remainder ==
    pc \in {"up", "down", "next", "subtract"} =>
        LET places == Len(digits) + IF pc = "subtract" THEN 1 ELSE 0
            found  == IF pc = "subtract" THEN 10 * Number(digits) + digit ELSE Number(digits)
            Exact(m, e, n) ==
                m * Pow(2, e) * Pow(10, places - point) * BigValue(denominator)
                    = n * Pow(2, 0 - e) * Pow(10, point - places)
        IN  /\ Exact(Mantissa, Exponent2,
                     found * BigValue(denominator) + BigValue(numerator))
            /\ Exact(1, Exponent2 - 1, BigValue(margin_high))
            /\ Exact(1, Exponent2 - (IF BoundaryIsCloser THEN 2 ELSE 1), BigValue(margin_low))

Found == pc = "layout"

\* The digits are read back as the number.  (dumps.hpp:106, "the fewest digits
\* that parse back to the same double")
RoundTrips == Found => ReadAs(Number(digits), point - Len(digits), This)

\* Fewer digits are not: neither multiple of ten times the last place around them is
\* read as the number.  (A shorter number not of this form is smaller than the first
\* digit's place, so one of this form between the two would be read back as well.)
Fewest == Found /\ Len(digits) > 1 =>
              \A n \in {0, 1} :
                  ~ReadAs((Number(digits) \div 10) + n, point - Len(digits) + 1, This)

\* Of the numbers with as many digits that are read back, none is closer, as in
\* Python's repr.
Closest ==
    Found =>
        LET k == point - Len(digits)
            Off(n) == Distance(n * (2 ^ Units2) * (10 ^ (Units10 + k)), This.size)
        IN  \A n \in {Number(digits) - 1, Number(digits) + 1} :
                ReadAs(n, k, This) => Off(Number(digits)) <= Off(n)

\* A digit rounded up to ten stands alone: were there digits before it, the number
\* with one digit fewer had been in reach.
TenAlone == \A i \in 1..Len(digits) : digits[i] \in 0..9 \/ (digits = <<10>> /\ pc = "carry")

\* The text is one number token, not an integer's, and says the same number: the sign,
\* the place of the point and the exponent are right.  (write_floating)
TextReadsBack ==
    LET Before(s, b) == SubSeq(s, 1, Least({n \in 0..Len(s) : n = Len(s) \/ s[n + 1] = b}))
        text     == IF value.negative THEN Tail(out) ELSE out
        mantissa == Before(text, 101)
        whole    == Before(mantissa, Dot)
        Values(s) == [i \in 1..Len(s) |-> s[i] - Zero]
        figures  == Values(SelectSeq(mantissa, LAMBDA c : c \in Digit))
        exponent == Values(SelectSeq(SubSeq(text, Len(mantissa) + 1, Len(text)),
                                     LAMBDA c : c \in Digit))
        signed   == IF \E i \in (Len(mantissa) + 1)..Len(text) : text[i] = Minus
                    THEN 0 - Number(exponent) ELSE Number(exponent)
    IN  pc = "done" =>
            /\ ScanNumber(out, 0) = Scanned(Len(out))
            /\ value.negative /\ out # WordNaN => Head(out) = Minus
            /\ ~Special => /\ Dot \in {text[i] : i \in 1..Len(text)} \/ exponent # <<>>
                           /\ ReadAs(Number(figures),
                                     signed - (Len(figures) - Len(whole)), This)

=============================================================================

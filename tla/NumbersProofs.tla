---------------------------- MODULE NumbersProofs ----------------------------
(***************************************************************************)
(* The conversion of a number keeps to the spelling, to its digits and to  *)
(* the widths of its locals (NumbersTypeOK and OnlyDigits of Numbers), and *)
(* to an integer it yields what it should (ShortNumbersTruncate and        *)
(* SameInteger), for every spelling the grammar takes, every width and     *)
(* either kind of T.                                                       *)
(***************************************************************************)
EXTENDS Doubles, ScanningProofs, SequenceTheorems

-----------------------------------------------------------------------------
(***************************************************************************)
(* The inductive invariant: where the parts of a decimal are, and that the *)
(* places after the point, which are counted in an int, are bytes passed.  *)
(***************************************************************************)
WholeStop(s)    == IntegerEnd(s, AfterSign(s, 0))
FractionStop(s) == FractionEnd(s, WholeStop(s))

Located ==
    /\ pc = "start" => i = 0
    /\ pc = "whole" => /\ IsDecimal(spelling)
                       /\ i \in AfterSign(spelling, 0)..WholeStop(spelling)
    /\ pc = "fraction" => /\ IsDecimal(spelling)
                          /\ ByteIn(spelling, WholeStop(spelling), {Dot})
                          /\ i \in (WholeStop(spelling) + 1)..FractionStop(spelling)

Counted ==
    /\ pc \in {"start", "hex", "whole"} => exponent10 = 0
    /\ pc = "fraction" => exponent10 <= 0 /\ -i <= exponent10

Converting ==
    IsNumber(spelling) /\ NumbersTypeOK /\ OnlyDigits /\ Located /\ Counted

-----------------------------------------------------------------------------
(***************************************************************************)
(* Machine integers.                                                       *)
(***************************************************************************)
\* Casts yield what the type has, and a narrower signed type is part of a wider.
LEMMA Casts ==
    ASSUME NEW bits \in {LongBits, IntBits, TargetBits}, NEW x \in Int
    PROVE  /\ Unsigned(x, bits) \in 0..(2 ^ bits - 1)
           /\ Signed(x, bits) \in SignedInt(bits)
           /\ SignedInt(bits) \subseteq Int
           /\ 0 \in SignedInt(bits)
           /\ SignedInt(TargetBits) \subseteq SignedInt(LongBits)
<1>1. PICK h \in Nat \ {0} : h = 2 ^ (bits - 1) /\ 2 ^ bits = 2 * h
    BY PowersAssumption
<1>2. \A y \in Int : y % (2 * h) \in 0..(2 * h - 1)
    BY <1>1
<1>3. Unsigned(x, bits) \in 0..(2 ^ bits - 1)
    BY <1>1, <1>2 DEF Unsigned
<1>4. Signed(x, bits) \in SignedInt(bits)
    <2>1. Signed(x, bits) = ((x + h) % (2 * h)) - h
        BY <1>1 DEF Signed, Unsigned
    <2>2. PICK r \in 0..(2 * h - 1) : r = (x + h) % (2 * h)
        BY <1>1, <1>2
    <2>3. SignedInt(bits) = (-h)..(h - 1)
        BY <1>1 DEF SignedInt
    <2>4. Signed(x, bits) = r - h
        BY <2>1, <2>2
    <2> QED BY <2>2, <2>3, <2>4
<1>5. SignedInt(bits) \subseteq Int /\ 0 \in SignedInt(bits)
    BY <1>1 DEF SignedInt
<1>6. SignedInt(TargetBits) \subseteq SignedInt(LongBits)
    <2>1. PICK t \in Nat, l \in Nat : t = 2 ^ (TargetBits - 1) /\ l = 2 ^ (LongBits - 1) /\ t <= l
        BY PowersAssumption
    <2> QED BY <2>1 DEF SignedInt
<1> QED BY <1>3, <1>4, <1>5, <1>6

\* A quotient has no larger magnitude.
LEMMA QuotientRange ==
    ASSUME NEW x \in SignedInt(LongBits)
    PROVE  Quotient(x, 10) \in SignedInt(LongBits)
<1>1. PICK h \in Nat \ {0} : h = 2 ^ (LongBits - 1)
    BY PowersAssumption
<1>2. SignedInt(LongBits) = (-h)..(h - 1)
    BY <1>1 DEF SignedInt
<1>3. \A y \in Nat : y \div 10 \in 0..y
    OBVIOUS
<1>4. CASE x < 0
    <2>1. -x \in Nat /\ Quotient(x, 10) = -((-x) \div 10)
        BY <1>2, <1>4 DEF Quotient
    <2>2. (-x) \div 10 \in 0..(-x)
        BY <1>3, <2>1
    <2> QED BY <1>1, <1>2, <1>4, <2>1, <2>2
<1>5. CASE ~(x < 0)
    <2>1. x \in Nat /\ Quotient(x, 10) = x \div 10
        BY <1>2, <1>5 DEF Quotient
    <2>2. x \div 10 \in 0..x
        BY <1>3, <2>1
    <2> QED BY <1>1, <1>2, <2>1, <2>2
<1> QED BY <1>4, <1>5

\* The value of a digit that is taken into the mantissa.
LEMMA AppendedType ==
    ASSUME NEW base \in {10, 16}, mantissa \in Nat, spelling[i + 1] \in HexDigit
    PROVE  Appended(base) \in 0..(2 ^ LongBits - 1)
<1>1. HexVal(spelling[i + 1]) \in Nat
    BY HexValType
<1>2. base * mantissa + HexVal(spelling[i + 1]) \in Int
    BY <1>1
<1> QED BY <1>2, Casts DEF Appended

-----------------------------------------------------------------------------
(***************************************************************************)
(* The shape of a number.                                                  *)
(***************************************************************************)
\* Outcomes of the scanner are told apart by their end and message.
LEMMA Outcomes ==
    ASSUME NEW a, NEW b, NEW message
    PROVE  /\ Scanned(a) = Scanned(b) => a = b
           /\ Rejected(a, message) = Scanned(b) => message = ""
<1>1. /\ Scanned(a).end = a /\ Scanned(b).end = b /\ Scanned(b).message = ""
      /\ Rejected(a, message).message = message
    BY DEF Scanned, Rejected
<1> QED BY <1>1

\* The sign of a number is inside it, and a byte is behind it.
LEMMA NumberNotEmpty ==
    ASSUME NEW s, IsNumber(s)
    PROVE  /\ s \in Seq(Byte) /\ Len(s) \in Nat
           /\ AfterSign(s, 0) \in Nat /\ AfterSign(s, 0) <= Len(s)
BY AfterSignRange DEF IsNumber

\* A hexadecimal number is "0x" and hexadecimal digits to its end.
LEMMA HexShape ==
    ASSUME NEW s, IsNumber(s), IsHex(s, AfterSign(s, 0))
    PROVE  /\ AfterSign(s, 0) + 2 <= Len(s)
           /\ \A k \in (AfterSign(s, 0) + 2)..(Len(s) - 1) : s[k + 1] \in HexDigit
<1>1. PICK p \in Nat : p = AfterSign(s, 0) /\ p <= Len(s)
    BY NumberNotEmpty
<1>2. s \in Seq(Byte) /\ p + 2 <= Len(s) /\ s[p + 1] = 48
    BY <1>1 DEF IsHex, ByteIn, Zero, IsNumber
<1>3. ~OccursAt(s, p, WordInfinity) /\ ~OccursAt(s, p, WordNaN)
    BY <1>2 DEF OccursAt, WordInfinity, WordNaN
<1>4. ByteIn(s, p, Digit \cup {Dot})
    BY <1>2 DEF ByteIn, Digit
<1>5. ScanNumber(s, 0) = ScanHex(s, p)
    BY <1>1, <1>3, <1>4 DEF ScanNumber, IsHex
<1>6. RunEnd(s, p + 2, HexDigit) = Len(s)
    BY <1>5, Outcomes DEF ScanHex, IsNumber
<1>7. \A k \in (p + 2)..(Len(s) - 1) : s[k + 1] \in HexDigit
    <2>1. p + 2 \in Nat
        BY <1>1
    <2>2. \A k \in (p + 2)..(RunEnd(s, p + 2, HexDigit) - 1) : s[k + 1] \in HexDigit
        BY <1>2, <2>1, RunEndFacts
    <2> QED BY <1>6, <2>2
<1> QED BY <1>1, <1>2, <1>7

\* The rest of a decimal behind its fraction: nothing, or an exponent.
LEMMA ExponentShape ==
    ASSUME NEW s \in Seq(Byte), NEW p \in Nat, p <= Len(s),
           ScanExponent(s, p) = Scanned(Len(s)), p < Len(s)
    PROVE  /\ s[p + 1] \in {69, 101}
           /\ AfterSign(s, p + 1) \in Nat
           /\ AfterSign(s, p + 1) >= p + 1
           /\ AfterSign(s, p + 1) < Len(s)
           /\ \A k \in AfterSign(s, p + 1)..(Len(s) - 1) : s[k + 1] \in Digit
<1>1. ByteIn(s, p, {69, 101})
    <2>1. SUFFICES ASSUME ~ByteIn(s, p, {69, 101}) PROVE FALSE
        OBVIOUS
    <2>2. Scanned(p) = Scanned(Len(s))
        BY <2>1 DEF ScanExponent
    <2>3. p = Len(s)
        BY <2>2, Outcomes
    <2> QED BY <2>3
<1>2. PICK d \in Nat : d = AfterSign(s, p + 1) /\ p + 1 <= d /\ d <= Len(s)
    BY AfterSignRange
<1>3. ByteIn(s, d, Digit) /\ RunEnd(s, d, Digit) = Len(s)
    BY <1>1, <1>2, Outcomes DEF ScanExponent
<1>4. \A k \in d..(Len(s) - 1) : s[k + 1] \in Digit
    BY <1>2, <1>3, RunEndFacts
<1> QED BY <1>1, <1>2, <1>3, <1>4 DEF ByteIn

\* A decimal has digits up to WholeStop, then perhaps a point and digits up to
\* FractionStop, then perhaps an exponent.
LEMMA DecimalShape ==
    ASSUME NEW s, IsNumber(s), IsDecimal(s)
    PROVE  /\ WholeStop(s) \in AfterSign(s, 0)..Len(s)
           /\ FractionStop(s) \in WholeStop(s)..Len(s)
           /\ \A k \in AfterSign(s, 0)..(WholeStop(s) - 1) : s[k + 1] \in Digit
           /\ \A k \in (WholeStop(s) + 1)..(FractionStop(s) - 1) : s[k + 1] \in Digit
           /\ ByteIn(s, WholeStop(s), {Dot}) => FractionStop(s) > WholeStop(s)
           /\ ~ByteIn(s, WholeStop(s), {Dot}) => FractionStop(s) = WholeStop(s)
           /\ ScanExponent(s, FractionStop(s)) = Scanned(Len(s))
<1> DEFINE p == AfterSign(s, 0)
           w == WholeStop(s)
           f == FractionStop(s)
<1>1. p \in Nat /\ p <= Len(s)
    BY NumberNotEmpty
<1>2. s \in Seq(Byte) /\ Len(s) \in Nat
    BY DEF IsNumber
<1>3. /\ w \in Nat /\ p <= w /\ w <= Len(s)
      /\ \A k \in p..(w - 1) : s[k + 1] \in Digit
    <2>1. CASE ByteIn(s, p, {Zero})
        BY <1>1, <1>2, <2>1 DEF WholeStop, IntegerEnd, ByteIn, Digit, Zero
    <2>2. CASE ~ByteIn(s, p, {Zero})
        <3>1. w = RunEnd(s, p, Digit)
            BY <1>1, <2>2 DEF WholeStop, IntegerEnd
        <3> QED BY <1>1, <1>2, <3>1, RunEndFacts
    <2> QED BY <2>1, <2>2
<1>4. /\ f \in Nat /\ w <= f /\ f <= Len(s)
      /\ \A k \in (w + 1)..(f - 1) : s[k + 1] \in Digit
      /\ ByteIn(s, w, {Dot}) => f > w
      /\ ~ByteIn(s, w, {Dot}) => f = w
    <2>1. CASE ByteIn(s, w, {Dot})
        <3>1. f = RunEnd(s, w + 1, Digit)
            BY <1>3, <2>1 DEF FractionStop, FractionEnd
        <3>2. w + 1 \in Nat /\ w + 1 <= Len(s)
            BY <1>2, <1>3, <2>1 DEF ByteIn
        <3>3. /\ RunEnd(s, w + 1, Digit) \in (w + 1)..Len(s)
              /\ \A k \in (w + 1)..(RunEnd(s, w + 1, Digit) - 1) : s[k + 1] \in Digit
            BY <1>2, <3>2, RunEndFacts
        <3> HIDE DEF w, f
        <3>4. f \in Nat /\ w <= f /\ f > w /\ f <= Len(s)
            BY <1>2, <1>3, <3>1, <3>3
        <3> QED BY <2>1, <3>1, <3>3, <3>4
    <2>2. CASE ~ByteIn(s, w, {Dot})
        BY <1>3, <2>2 DEF FractionStop, FractionEnd
    <2> QED BY <2>1, <2>2
<1>5. ~OccursAt(s, p, WordInfinity) /\ ~OccursAt(s, p, WordNaN)
    BY <1>1, <1>2 DEF IsDecimal, NotFinite, OccursAt, WordInfinity, WordNaN, ByteIn
<1>6. ByteIn(s, p, Digit \cup {Dot})
    BY <1>1, <1>5, Outcomes DEF IsNumber, ScanNumber
<1>7. ScanDecimal(s, p) = Scanned(Len(s))
    BY <1>1, <1>5, <1>6 DEF IsNumber, ScanNumber, IsDecimal, IsHex
<1>8. ScanExponent(s, f) = Scanned(Len(s))
    BY <1>1, <1>3, <1>4, <1>7, Outcomes
    DEF ScanDecimal, WholeStop, FractionStop
<1> HIDE DEF p, w, f
<1>9. w \in p..Len(s) /\ f \in w..Len(s)
    BY <1>1, <1>2, <1>3, <1>4
<1> QED BY <1>3, <1>4, <1>8, <1>9 DEF p, w, f

\* Wherever a loop over the digits of a decimal stands, a byte that is no digit is
\* where the shape has one; behind an "e" there is always a byte.
LEMMA WholeStops ==
    ASSUME NEW s, IsNumber(s), IsDecimal(s), NEW j \in AfterSign(s, 0)..WholeStop(s)
    PROVE  /\ j \in Nat /\ j <= Len(s)
           /\ ByteIn(s, j, Digit) => j < WholeStop(s)
           /\ ~ByteIn(s, j, Digit) => j = WholeStop(s)
           /\ ByteIn(s, j, {69, 101}) => j = WholeStop(s) /\ j = FractionStop(s)
<1> DEFINE w == WholeStop(s)
           f == FractionStop(s)
<1>1. /\ s \in Seq(Byte) /\ Len(s) \in Nat /\ AfterSign(s, 0) \in Nat
    BY NumberNotEmpty
<1>2. /\ w \in Nat /\ f \in Nat /\ w <= f /\ f <= Len(s)
      /\ \A k \in AfterSign(s, 0)..(w - 1) : s[k + 1] \in Digit
      /\ ByteIn(s, w, {Dot}) => f > w
      /\ ~ByteIn(s, w, {Dot}) => f = w
      /\ ScanExponent(s, f) = Scanned(Len(s))
    <2>1. w \in AfterSign(s, 0)..Len(s) /\ f \in w..Len(s)
        BY DecimalShape
    <2>2. /\ \A k \in AfterSign(s, 0)..(w - 1) : s[k + 1] \in Digit
          /\ ByteIn(s, w, {Dot}) => f > w
          /\ ~ByteIn(s, w, {Dot}) => f = w
          /\ ScanExponent(s, f) = Scanned(Len(s))
        BY DecimalShape
    <2> HIDE DEF w, f
    <2> QED BY <1>1, <2>1, <2>2
<1> HIDE DEF w, f
<1>3. j \in Nat /\ AfterSign(s, 0) <= j /\ j <= w
    BY <1>1, <1>2 DEF w
<1>4. ~ByteIn(s, w, Digit)
    <2>1. CASE ByteIn(s, w, {Dot})
        BY <2>1 DEF ByteIn, Digit, Dot
    <2>2. CASE ~ByteIn(s, w, {Dot}) /\ f < Len(s)
        <3>1. s[f + 1] \in {69, 101}
            BY <1>1, <1>2, <2>2, ExponentShape
        <3> QED BY <1>2, <2>2, <3>1 DEF ByteIn, Digit
    <2>3. CASE ~ByteIn(s, w, {Dot}) /\ f = Len(s)
        BY <1>2, <2>3 DEF ByteIn
    <2> QED BY <1>1, <1>2, <2>1, <2>2, <2>3
<1>5. j < w => ByteIn(s, j, Digit)
    BY <1>1, <1>2, <1>3 DEF ByteIn
<1>6. ByteIn(s, j, {69, 101}) => ~ByteIn(s, j, Digit) /\ ~ByteIn(s, j, {Dot})
    BY DEF ByteIn, Digit, Dot
<1>7. j = w \/ j < w
    BY <1>2, <1>3
<1>8. j <= Len(s)
    BY <1>1, <1>2, <1>3
<1> QED BY <1>2, <1>3, <1>4, <1>5, <1>6, <1>7, <1>8 DEF w, f

LEMMA FractionStops ==
    ASSUME NEW s, IsNumber(s), IsDecimal(s), ByteIn(s, WholeStop(s), {Dot}),
           NEW j \in (WholeStop(s) + 1)..FractionStop(s)
    PROVE  /\ j \in Nat /\ j <= Len(s)
           /\ ByteIn(s, j, Digit) => j < FractionStop(s)
           /\ ~ByteIn(s, j, Digit) => j = FractionStop(s)
<1> DEFINE w == WholeStop(s)
           f == FractionStop(s)
<1>1. /\ s \in Seq(Byte) /\ Len(s) \in Nat /\ AfterSign(s, 0) \in Nat
    BY NumberNotEmpty
<1>2. /\ w \in Nat /\ f \in Nat /\ w <= f /\ f <= Len(s)
      /\ \A k \in (w + 1)..(f - 1) : s[k + 1] \in Digit
      /\ ScanExponent(s, f) = Scanned(Len(s))
    BY <1>1, DecimalShape
<1> HIDE DEF w, f
<1>3. j \in Nat /\ w + 1 <= j /\ j <= f
    BY <1>1, <1>2 DEF w, f
<1>4. ~ByteIn(s, f, Digit)
    <2>1. CASE f < Len(s)
        <3>1. s[f + 1] \in {69, 101}
            BY <1>1, <1>2, <2>1, ExponentShape
        <3> QED BY <3>1 DEF ByteIn, Digit
    <2>2. CASE ~(f < Len(s))
        BY <2>2 DEF ByteIn
    <2> QED BY <2>1, <2>2
<1>5. j < f => ByteIn(s, j, Digit)
    BY <1>1, <1>2, <1>3 DEF ByteIn
<1>6. j = f \/ j < f
    BY <1>2, <1>3
<1>7. j <= Len(s)
    BY <1>1, <1>2, <1>3
<1> QED BY <1>3, <1>4, <1>5, <1>6, <1>7 DEF f

\* Behind the "e" at the end of the fraction are digits to the end.
LEMMA ExponentDigitsFollow ==
    ASSUME NEW s, IsNumber(s), IsDecimal(s), ByteIn(s, FractionStop(s), {69, 101})
    PROVE  LET d == AfterSign(s, FractionStop(s) + 1)
           IN  /\ FractionStop(s) \in Nat /\ FractionStop(s) + 1 < Len(s)
               /\ d \in Nat /\ d < Len(s)
               /\ \A k \in d..(Len(s) - 1) : s[k + 1] \in Digit
<1> DEFINE f == FractionStop(s)
<1>1. s \in Seq(Byte) /\ Len(s) \in Nat /\ AfterSign(s, 0) \in Nat
    BY NumberNotEmpty
<1>2. f \in Nat /\ ScanExponent(s, f) = Scanned(Len(s))
    BY <1>1, DecimalShape
<1> HIDE DEF f
<1>3. f < Len(s)
    BY DEF f, ByteIn
<1>4. f <= Len(s)
    BY <1>1, <1>2, <1>3
<1>5. /\ AfterSign(s, f + 1) \in Nat /\ AfterSign(s, f + 1) >= f + 1
      /\ AfterSign(s, f + 1) < Len(s)
      /\ \A k \in AfterSign(s, f + 1)..(Len(s) - 1) : s[k + 1] \in Digit
    BY <1>1, <1>2, <1>3, <1>4, ExponentShape
<1>6. f + 1 < Len(s)
    BY <1>1, <1>2, <1>5
<1> QED BY <1>2, <1>5, <1>6 DEF f

-----------------------------------------------------------------------------
(***************************************************************************)
(* The actions.                                                            *)
(***************************************************************************)
\* What the invariant says of numbers, as facts about integers.
LEMMA Widths ==
    ASSUME Converting
    PROVE  /\ spelling \in Seq(Byte) /\ Len(spelling) \in Nat
           /\ i \in Nat /\ i <= Len(spelling)
           /\ mantissa \in Nat /\ value \in Int /\ exponent10 \in Int /\ exp_value \in Int
<1>1. /\ SignedInt(LongBits) \subseteq Int /\ SignedInt(IntBits) \subseteq Int
    BY Casts
<1>2. PICK h \in Nat : h = 2 ^ LongBits
    BY PowersAssumption
<1> QED BY <1>1, <1>2 DEF Converting, NumbersTypeOK, IsNumber

\* A refused conversion has stopped.
LEMMA RefuseSafe ==
    ASSUME Converting, Refuse
    PROVE  Converting'
BY DEF Refuse, signs, digits, power, Converting, NumbersTypeOK, OnlyDigits, Located, Counted

\* The sign, and the choice between words, hexadecimals and decimals.
LEMMA ReadSignSafe ==
    ASSUME Converting, ReadSign
    PROVE  Converting'
<1> DEFINE p == AfterSign(spelling, 0)
<1>1. /\ IsNumber(spelling) /\ p \in Nat /\ p <= Len(spelling) /\ Len(spelling) \in Nat
    BY NumberNotEmpty DEF Converting
<1>2. /\ spelling' = spelling /\ value' = value /\ mantissa' = mantissa
      /\ exponent10' = exponent10 /\ exp_negative' = exp_negative /\ exp_value' = exp_value
      /\ exponent10 = 0
    BY DEF ReadSign, signs, digits, power, Converting, Counted
<1>3. negative' \in BOOLEAN
    BY DEF ReadSign, IsNegative, ByteIn
<1>4. CASE NotFinite(spelling, p)
    <2>1. pc' = "done" /\ i' = p
        BY <1>4 DEF ReadSign
    <2> QED BY <1>1, <1>2, <1>3, <2>1
        DEF Converting, NumbersTypeOK, OnlyDigits, Located, Counted
<1>5. CASE ~NotFinite(spelling, p) /\ IsHex(spelling, p)
    <2>1. pc' = "hex" /\ i' = p + 2
        BY <1>5 DEF ReadSign
    <2>2. /\ p + 2 <= Len(spelling)
          /\ \A k \in (p + 2)..(Len(spelling) - 1) : spelling[k + 1] \in HexDigit
        BY <1>1, <1>5, HexShape
    <2> QED BY <1>1, <1>2, <1>3, <2>1, <2>2
        DEF Converting, NumbersTypeOK, OnlyDigits, Located, Counted
<1>6. CASE ~NotFinite(spelling, p) /\ ~IsHex(spelling, p)
    <2>1. pc' = "whole" /\ i' = p
        BY <1>6 DEF ReadSign
    <2>2. IsDecimal(spelling) /\ IsDecimal(spelling)'
        BY <1>2, <1>6 DEF IsDecimal
    <2>3. p \in p..WholeStop(spelling)
        BY <1>1, <2>2, DecimalShape
    <2>4. ByteIn(spelling, p, {69, 101}) => p + 1 < Len(spelling)
        <3>1. ASSUME ByteIn(spelling, p, {69, 101})
              PROVE  p = FractionStop(spelling)
            BY <1>1, <2>2, <2>3, <3>1, WholeStops
        <3> QED BY <1>1, <2>2, <3>1, ExponentDigitsFollow
    <2> QED BY <1>1, <1>2, <1>3, <2>1, <2>2, <2>3, <2>4
        DEF Converting, NumbersTypeOK, OnlyDigits, Located, Counted
<1> QED BY <1>4, <1>5, <1>6

\* A digit is behind the offset, and is taken into the mantissa.
LEMMA HexStepSafe ==
    ASSUME Converting, HexStep
    PROVE  Converting'
<1>1. /\ i \in Nat /\ i < Len(spelling) /\ Len(spelling) \in Nat /\ mantissa \in Nat
      /\ pc = "hex"
    BY Widths DEF HexStep
<1>2. /\ spelling' = spelling /\ value' = value /\ negative' = negative /\ i' = i + 1
      /\ exponent10' = exponent10 /\ exp_negative' = exp_negative /\ exp_value' = exp_value
      /\ pc' = "hex" /\ mantissa' = Appended(16)
    BY DEF HexStep, signs, power
<1>3. \A k \in i..(Len(spelling) - 1) : spelling[k + 1] \in HexDigit
    BY <1>1 DEF Converting, OnlyDigits
<1>4. mantissa' \in 0..(2 ^ LongBits - 1)
    BY <1>1, <1>2, <1>3, AppendedType
<1>5. i' \in 0..Len(spelling)
    BY <1>1, <1>2
<1>6. \A k \in i'..(Len(spelling) - 1) : spelling[k + 1] \in HexDigit
    BY <1>1, <1>2, <1>3
<1> QED BY <1>1, <1>2, <1>4, <1>5, <1>6
    DEF Converting, NumbersTypeOK, OnlyDigits, Located, Counted

\* Where the whole digits have been read: what the shape of a decimal says there.
LEMMA InWhole ==
    ASSUME Converting, pc = "whole"
    PROVE  /\ IsNumber(spelling) /\ IsDecimal(spelling) /\ exponent10 = 0
           /\ i \in AfterSign(spelling, 0)..WholeStop(spelling)
           /\ ByteIn(spelling, i, Digit) => i < WholeStop(spelling)
           /\ ~ByteIn(spelling, i, Digit) => i = WholeStop(spelling)
           /\ ByteIn(spelling, i, {69, 101}) => i = FractionStop(spelling)
           /\ AfterSign(spelling, 0) \in Nat /\ WholeStop(spelling) \in Nat
           /\ WholeStop(spelling) <= Len(spelling)
<1>1. /\ IsNumber(spelling) /\ IsDecimal(spelling) /\ exponent10 = 0
      /\ i \in AfterSign(spelling, 0)..WholeStop(spelling)
    BY DEF Converting, Located, Counted
<1>2. WholeStop(spelling) \in AfterSign(spelling, 0)..Len(spelling)
    BY <1>1, DecimalShape
<1>3. AfterSign(spelling, 0) \in Nat /\ Len(spelling) \in Nat
    BY <1>1, NumberNotEmpty
<1> QED BY <1>1, <1>2, <1>3, WholeStops

\* An "e" that ends the whole digits has a byte behind it.
LEMMA WholeDigitSafe ==
    ASSUME Converting, WholeDigit
    PROVE  Converting'
<1>1. /\ i \in Nat /\ Len(spelling) \in Nat /\ mantissa \in Nat /\ pc = "whole"
      /\ ByteIn(spelling, i, Digit)
    BY Widths DEF WholeDigit
<1>2. /\ spelling' = spelling /\ value' = value /\ negative' = negative /\ i' = i + 1
      /\ exponent10' = exponent10 /\ exp_negative' = exp_negative /\ exp_value' = exp_value
      /\ pc' = "whole" /\ mantissa' = Appended(10)
    BY DEF WholeDigit, signs, power
<1>3. /\ IsNumber(spelling) /\ IsDecimal(spelling) /\ exponent10 = 0
      /\ i \in AfterSign(spelling, 0)..WholeStop(spelling) /\ i < WholeStop(spelling)
      /\ AfterSign(spelling, 0) \in Nat /\ WholeStop(spelling) \in Nat
      /\ WholeStop(spelling) <= Len(spelling)
    BY <1>1, InWhole
<1>4. spelling[i + 1] \in HexDigit
    BY <1>1 DEF ByteIn, HexDigit
<1>5. mantissa' \in 0..(2 ^ LongBits - 1)
    BY <1>1, <1>2, <1>4, AppendedType
<1>6. i' \in AfterSign(spelling, 0)..WholeStop(spelling) /\ i' \in 0..Len(spelling)
    BY <1>1, <1>2, <1>3
<1>7. ByteIn(spelling, i', {69, 101}) => i' + 1 < Len(spelling)
    <2>1. ASSUME ByteIn(spelling, i', {69, 101})
          PROVE  i' = FractionStop(spelling)
        BY <1>3, <1>6, <2>1, WholeStops
    <2> QED BY <1>3, <2>1, ExponentDigitsFollow
<1>8. IsDecimal(spelling')
    BY <1>2, <1>3
<1> QED BY <1>1, <1>2, <1>3, <1>5, <1>6, <1>7, <1>8
    DEF Converting, NumbersTypeOK, OnlyDigits, Located, Counted

\* An "e" that ends the fraction has a byte behind it.
LEMMA FractionOpen ==
    ASSUME NEW s, IsNumber(s), IsDecimal(s), ByteIn(s, WholeStop(s), {Dot}),
           NEW j \in (WholeStop(s) + 1)..FractionStop(s), ByteIn(s, j, {69, 101})
    PROVE  j + 1 < Len(s)
<1>1. ~ByteIn(s, j, Digit)
    BY DEF ByteIn, Digit
<1>2. j = FractionStop(s)
    BY <1>1, FractionStops
<1> QED BY <1>2, ExponentDigitsFollow

\* The point ends the whole digits; it is inside the spelling.
LEMMA PointSafe ==
    ASSUME Converting, Point
    PROVE  Converting'
<1>1. /\ i \in Nat /\ Len(spelling) \in Nat /\ pc = "whole" /\ ByteIn(spelling, i, {Dot})
    BY Widths DEF Point
<1>2. /\ spelling' = spelling /\ value' = value /\ negative' = negative /\ i' = i + 1
      /\ exponent10' = exponent10 /\ exp_negative' = exp_negative /\ exp_value' = exp_value
      /\ pc' = "fraction" /\ mantissa' = mantissa
    BY DEF Point, signs, power, digits
<1>3. ~ByteIn(spelling, i, Digit)
    BY <1>1 DEF ByteIn, Dot, Digit
<1>4. /\ IsNumber(spelling) /\ IsDecimal(spelling) /\ exponent10 = 0
      /\ i = WholeStop(spelling)
    BY <1>1, <1>3, InWhole
<1>5. FractionStop(spelling) \in i..Len(spelling) /\ FractionStop(spelling) > i
    BY <1>1, <1>4, DecimalShape
<1>6. i' \in (WholeStop(spelling) + 1)..FractionStop(spelling) /\ i' \in 0..Len(spelling)
    BY <1>1, <1>2, <1>4, <1>5
<1>7. ByteIn(spelling, i', {69, 101}) => i' + 1 < Len(spelling)
    BY <1>1, <1>4, <1>6, FractionOpen
<1>8. IsDecimal(spelling') /\ ByteIn(spelling', WholeStop(spelling'), {Dot}) /\ -i' <= 0
    BY <1>1, <1>2, <1>4
<1> QED BY <1>1, <1>2, <1>4, <1>6, <1>7, <1>8
    DEF Converting, NumbersTypeOK, OnlyDigits, Located, Counted

\* A place after the point is counted for a byte that is passed, and an int counts
\* the bytes of the spelling.
LEMMA FractionDigitSafe ==
    ASSUME Converting, FractionDigit
    PROVE  Converting'
<1>1. /\ i \in Nat /\ Len(spelling) \in Nat /\ mantissa \in Nat /\ pc = "fraction"
      /\ exponent10 \in Int /\ ByteIn(spelling, i, Digit)
    BY Widths DEF FractionDigit
<1>2. /\ spelling' = spelling /\ value' = value /\ negative' = negative /\ i' = i + 1
      /\ exponent10' = exponent10 - 1 /\ exp_negative' = exp_negative
      /\ exp_value' = exp_value /\ pc' = "fraction" /\ mantissa' = Appended(10)
    BY DEF FractionDigit, signs, power
<1>3. /\ IsNumber(spelling) /\ IsDecimal(spelling)
      /\ ByteIn(spelling, WholeStop(spelling), {Dot})
      /\ i \in (WholeStop(spelling) + 1)..FractionStop(spelling)
      /\ exponent10 <= 0 /\ -i <= exponent10
    BY <1>1 DEF Converting, Located, Counted
<1>4. i < FractionStop(spelling)
    BY <1>1, <1>3, FractionStops
<1>5. /\ WholeStop(spelling) \in AfterSign(spelling, 0)..Len(spelling)
      /\ FractionStop(spelling) \in WholeStop(spelling)..Len(spelling)
      /\ AfterSign(spelling, 0) \in Nat
    BY <1>3, DecimalShape, NumberNotEmpty
<1>6. PICK w \in Nat, f \in Nat :
          w = WholeStop(spelling) /\ f = FractionStop(spelling) /\ f <= Len(spelling)
    BY <1>1, <1>5
<1>7. i' \in (WholeStop(spelling) + 1)..FractionStop(spelling) /\ i' \in 0..Len(spelling)
    BY <1>1, <1>2, <1>3, <1>4, <1>6
<1>8. spelling[i + 1] \in HexDigit
    BY <1>1 DEF ByteIn, HexDigit
<1>9. mantissa' \in 0..(2 ^ LongBits - 1)
    BY <1>1, <1>2, <1>8, AppendedType
<1>10. exponent10' <= 0 /\ -i' <= exponent10'
    BY <1>1, <1>2, <1>3
<1>11. exponent10' \in SignedInt(IntBits)
    <2>1. PICK h \in Nat : h = 2 ^ (IntBits - 1) /\ Len(spelling) < h
        BY <1>3, PowersAssumption DEF IsNumber
    <2>2. SignedInt(IntBits) = (-h)..(h - 1)
        BY <2>1 DEF SignedInt
    <2> QED BY <1>1, <1>2, <1>7, <1>10, <2>1, <2>2
<1>12. ByteIn(spelling, i', {69, 101}) => i' + 1 < Len(spelling)
    BY <1>3, <1>7, FractionOpen
<1>13. IsDecimal(spelling') /\ ByteIn(spelling', WholeStop(spelling'), {Dot})
    BY <1>2, <1>3
<1> QED BY <1>1, <1>2, <1>3, <1>7, <1>9, <1>10, <1>11, <1>12, <1>13
    DEF Converting, NumbersTypeOK, OnlyDigits, Located, Counted

\* Behind the "e" and its sign there are digits to the end.
LEMMA OpenExponentSafe ==
    ASSUME Converting, OpenExponent
    PROVE  Converting'
<1> DEFINE f == FractionStop(spelling)
<1>1. /\ Len(spelling) \in Nat /\ IsNumber(spelling) /\ ByteIn(spelling, i, {69, 101})
      /\ pc \in {"whole", "fraction"}
    BY Widths DEF OpenExponent, Converting
<1>2. /\ spelling' = spelling /\ value' = value /\ negative' = negative
      /\ i' = AfterSign(spelling, i + 1) /\ exponent10' = exponent10
      /\ exp_value' = exp_value /\ mantissa' = mantissa /\ pc' = "exponent"
    BY DEF OpenExponent, signs, digits
<1>3. exp_negative' \in BOOLEAN
    BY DEF OpenExponent, ByteIn
<1>4. IsDecimal(spelling) /\ i = f
    <2>1. CASE pc = "whole"
        BY <1>1, <2>1, InWhole
    <2>2. CASE pc = "fraction"
        <3>1. /\ IsDecimal(spelling) /\ ByteIn(spelling, WholeStop(spelling), {Dot})
              /\ i \in (WholeStop(spelling) + 1)..FractionStop(spelling)
            BY <2>2 DEF Converting, Located
        <3>2. ~ByteIn(spelling, i, Digit)
            BY <1>1 DEF ByteIn, Digit
        <3> QED BY <1>1, <3>1, <3>2, FractionStops
    <2> QED BY <1>1, <2>1, <2>2
<1>5. /\ i' \in Nat /\ i' < Len(spelling)
      /\ \A k \in i'..(Len(spelling) - 1) : spelling[k + 1] \in Digit
    BY <1>1, <1>2, <1>4, ExponentDigitsFollow
<1>6. i' \in 0..Len(spelling)
    BY <1>1, <1>5
<1> QED BY <1>2, <1>3, <1>5, <1>6
    DEF Converting, NumbersTypeOK, OnlyDigits, Located, Counted

\* The exponent is kept in an int, or the conversion is refused.
LEMMA ExponentDigitSafe ==
    ASSUME Converting, ExponentDigit
    PROVE  Converting'
<1>1. CASE Refuse
    BY <1>1, RefuseSafe
<1>2. CASE ~Refuse
    <2> DEFINE n == 10 * exp_value + HexVal(spelling[i + 1])
    <2>1. /\ i \in Nat /\ i < Len(spelling) /\ Len(spelling) \in Nat /\ exp_value \in Int
          /\ pc = "exponent"
        BY Widths DEF ExponentDigit
    <2>2. /\ spelling' = spelling /\ value' = value /\ negative' = negative /\ i' = i + 1
          /\ exponent10' = exponent10 /\ exp_negative' = exp_negative
          /\ mantissa' = mantissa /\ pc' = "exponent" /\ exp_value' = Signed(n, IntBits)
        BY <1>2 DEF ExponentDigit, signs, digits
    <2>3. \A k \in i..(Len(spelling) - 1) : spelling[k + 1] \in Digit
        BY <2>1 DEF Converting, OnlyDigits
    <2>4. spelling[i + 1] \in HexDigit
        BY <2>1, <2>3 DEF HexDigit
    <2>5. n \in Int
        BY <2>1, <2>4, HexValType
    <2> HIDE DEF n
    <2>6. exp_value' \in SignedInt(IntBits)
        BY <2>2, <2>5, Casts
    <2>7. i' \in 0..Len(spelling)
        BY <2>1, <2>2
    <2>8. \A k \in i'..(Len(spelling) - 1) : spelling[k + 1] \in Digit
        BY <2>1, <2>2, <2>3
    <2> QED BY <2>1, <2>2, <2>6, <2>7, <2>8
        DEF Converting, NumbersTypeOK, OnlyDigits, Located, Counted
<1> QED BY <1>1, <1>2

\* The exponents are added as ints, or the conversion is refused.
LEMMA CloseExponentSafe ==
    ASSUME Converting, CloseExponent
    PROVE  Converting'
<1>1. CASE Refuse
    BY <1>1, RefuseSafe
<1>2. CASE ~Refuse
    <2>1. /\ spelling' = spelling /\ value' = value /\ negative' = negative /\ i' = i
          /\ exp_value' = exp_value /\ exp_negative' = exp_negative
          /\ mantissa' = mantissa /\ pc' = "convert" /\ exponent10' = Signed(Shift, IntBits)
        BY <1>2 DEF CloseExponent, signs, power
    <2>2. exponent10' \in SignedInt(IntBits)
        <3>1. exponent10 \in Int /\ exp_value \in Int
            BY Widths
        <3>2. Shift \in Int
            BY <3>1 DEF Shift, Negated
        <3> QED BY <2>1, <3>2, Casts
    <2> QED BY <2>1, <2>2 DEF Converting, NumbersTypeOK, OnlyDigits, Located, Counted
<1> QED BY <1>1, <1>2

\* Whoever has read the digits, the rest of the conversion is free of the spelling:
\* only the widths of what a step assigns remain to be shown.
LEMMA Rest ==
    ASSUME Converting, spelling' = spelling, i' = i, negative' = negative,
           exp_negative' = exp_negative, exp_value' = exp_value, mantissa' = mantissa,
           pc' \in {"convert", "scale", "done", "converted", "refused"},
           value' \in SignedInt(LongBits), exponent10' \in SignedInt(IntBits)
    PROVE  Converting'
BY DEF Converting, NumbersTypeOK, OnlyDigits, Located, Counted

\* A count that is not zero may move towards zero.
LEMMA CountDown ==
    ASSUME Converting
    PROVE  /\ exponent10 > 0 => exponent10 - 1 \in SignedInt(IntBits)
           /\ exponent10 < 0 => exponent10 + 1 \in SignedInt(IntBits)
<1>1. PICK h \in Nat : SignedInt(IntBits) = (-h)..(h - 1) /\ h > 0
    BY PowersAssumption DEF SignedInt
<1>2. exponent10 \in (-h)..(h - 1)
    BY <1>1 DEF Converting, NumbersTypeOK
<1> QED BY <1>1, <1>2

\* The conversion to an integral type: every assignment is a cast, or a quotient.
LEMMA ToIntegerSafe ==
    ASSUME Converting, ToInteger
    PROVE  Converting'
<1>1. /\ value \in SignedInt(LongBits) /\ exponent10 \in SignedInt(IntBits)
      /\ value \in Int /\ mantissa \in Int
    BY Widths DEF Converting, NumbersTypeOK
<1>2. CASE Refuse
    BY <1>2, RefuseSafe
<1>3. CASE Convert
    <2>1. value' \in SignedInt(LongBits)
        BY <1>1, <1>3, Casts DEF Convert
    <2> QED BY <1>1, <1>3, <2>1, Rest DEF Convert, signs, digits, power
<1>4. CASE ScaleUp /\ ~Refuse
    <2>1. 10 * value \in Int
        BY <1>1
    <2>2. value' \in SignedInt(LongBits)
        BY <1>4, <2>1, Casts DEF ScaleUp
    <2>3. exponent10' \in SignedInt(IntBits)
        BY <1>4, CountDown DEF ScaleUp
    <2>4. pc' = "scale"
        BY <1>4 DEF ScaleUp
    <2> QED BY <1>4, <2>2, <2>3, <2>4, Rest DEF ScaleUp, signs, power
<1>5. CASE ScaleDown
    <2>1. value' \in SignedInt(LongBits)
        BY <1>1, <1>5, QuotientRange DEF ScaleDown
    <2>2. exponent10' \in SignedInt(IntBits)
        BY <1>5, CountDown DEF ScaleDown
    <2>3. pc' = "scale"
        BY <1>5 DEF ScaleDown
    <2> QED BY <1>5, <2>1, <2>2, <2>3, Rest DEF ScaleDown, signs, power
<1>6. CASE Finish /\ ~Refuse
    <2> DEFINE n == Negated(negative, value)
    <2>1. n \in Int
        BY <1>1 DEF Negated
    <2> HIDE DEF n
    <2>2. value' = Signed(Signed(n, LongBits), TargetBits) /\ pc' = "done"
        BY <1>6 DEF Finish, n
    <2>3. Signed(n, LongBits) \in Int
        BY <2>1, Casts
    <2>4. value' \in SignedInt(TargetBits)
        BY <2>2, <2>3, Casts
    <2>5. value' \in SignedInt(LongBits)
        BY <2>4, <2>1, Casts
    <2> QED BY <1>1, <1>6, <2>2, <2>5, Rest DEF Finish, signs, digits, power
<1> QED BY <1>2, <1>3, <1>4, <1>5, <1>6 DEF ToInteger

\* The loops over the digits.
LEMMA ReadSafe ==
    ASSUME Converting, Read
    PROVE  Converting'
<1>1. CASE NoExponent
    <2>1. value \in SignedInt(LongBits) /\ exponent10 \in SignedInt(IntBits)
        BY DEF Converting, NumbersTypeOK
    <2> QED BY <1>1, <2>1, Rest DEF NoExponent, signs, digits, power
<1> QED BY <1>1, ReadSignSafe, HexStepSafe, WholeDigitSafe, PointSafe, FractionDigitSafe,
           OpenExponentSafe, ExponentDigitSafe, CloseExponentSafe DEF Read

\* The conversion to a floating point type: it computes in other variables, and counts
\* exponent10 down to zero as well.
LEMMA ToFloatingSafe ==
    ASSUME Converting,
           FinishHexadecimal \/ ConvertMantissa \/ TimesTen \/ OverTen \/ FinishDecimal
    PROVE  Converting'
<1>1. value \in SignedInt(LongBits) /\ exponent10 \in SignedInt(IntBits)
    BY DEF Converting, NumbersTypeOK
<1>2. CASE FinishHexadecimal
    <2>1. CASE Refuse
        BY <2>1, RefuseSafe
    <2>2. CASE ~Refuse
        BY <1>1, <1>2, <2>2, Rest DEF FinishHexadecimal, signs, digits, power
    <2> QED BY <2>1, <2>2
<1>3. CASE ConvertMantissa
    BY <1>1, <1>3, Rest DEF ConvertMantissa, signs, digits, power
<1>4. CASE TimesTen
    <2>1. exponent10' \in SignedInt(IntBits) /\ pc' = "scale"
        BY <1>4, CountDown DEF TimesTen
    <2> QED BY <1>1, <1>4, <2>1, Rest DEF TimesTen, signs, power
<1>5. CASE OverTen
    <2>1. exponent10' \in SignedInt(IntBits) /\ pc' = "scale"
        BY <1>5, CountDown DEF OverTen
    <2> QED BY <1>1, <1>5, <2>1, Rest DEF OverTen, signs, power
<1>6. CASE FinishDecimal
    BY <1>1, <1>6, Rest DEF FinishDecimal, signs, digits, power
<1> QED BY <1>2, <1>3, <1>4, <1>5, <1>6

-----------------------------------------------------------------------------
(***************************************************************************)
(* The first theorems.                                                     *)
(***************************************************************************)
LEMMA ConvertingHolds == ToSpec => []Converting
<1>1. ToInit => Converting
    <2>1. SUFFICES ASSUME ToInit PROVE Converting
        OBVIOUS
    <2>2. IsNumber(spelling)
        BY <2>1, SpellingsAssumption, FloatSpellingsAssumption DEF ToInit
    <2>3. Len(spelling) \in Nat
        BY <2>2, NumberNotEmpty
    <2>4. 0 \in SignedInt(LongBits) /\ 0 \in SignedInt(IntBits)
        BY Casts
    <2>5. 0 \in 0..(2 ^ LongBits - 1)
        <3>1. PICK h \in Nat \ {0} : 2 ^ LongBits = 2 * h
            BY PowersAssumption
        <3> QED BY <3>1
    <2>6. /\ pc = "start" /\ i = 0 /\ negative = FALSE /\ value = 0 /\ mantissa = 0
          /\ exponent10 = 0 /\ exp_negative = FALSE /\ exp_value = 0
        BY <2>1 DEF ToInit, Begin
    <2>7. i \in 0..Len(spelling)
        BY <2>3, <2>6
    <2>8. NumbersTypeOK
        BY <2>4, <2>5, <2>6, <2>7 DEF NumbersTypeOK
    <2>9. OnlyDigits /\ Located /\ Counted
        BY <2>6 DEF OnlyDigits, Located, Counted
    <2> QED BY <2>2, <2>8, <2>9 DEF Converting
<1>2. Converting /\ [ToNext]_toVars => Converting'
    <2>1. SUFFICES ASSUME Converting, [ToNext]_toVars PROVE Converting'
        OBVIOUS
    <2>2. CASE UNCHANGED toVars
        BY <2>1, <2>2 DEF toVars, vars, signs, digits, power, Converting, NumbersTypeOK,
            OnlyDigits, Located, Counted, IsDecimal
    <2>3. CASE ReadWord
        BY <2>1, <2>3, ReadSafe DEF ReadWord, Read
    <2>4. CASE ReadDigits
        BY <2>1, <2>4, ReadSafe DEF ReadDigits
    <2>5. CASE ConvertInteger
        BY <2>1, <2>5, ToIntegerSafe DEF ConvertInteger
    <2>6. CASE FinishHexadecimal \/ ConvertMantissa \/ TimesTen \/ OverTen \/ FinishDecimal
        BY <2>1, <2>6, ToFloatingSafe
    <2>7. CASE Returned
        BY <2>2, <2>7 DEF Returned
    <2> QED BY <2>1, <2>2, <2>3, <2>4, <2>5, <2>6, <2>7 DEF ToNext
<1> QED BY <1>1, <1>2, PTL DEF ToSpec

\* Whatever number is converted, to whatever type, the mantissa, the value and both
\* exponents keep to the widths of their types, and no loop runs past the end of the
\* spelling.  (types.hpp:27-128)
THEOREM ConversionWithinWidths == ToSpec => []NumbersTypeOK
<1>1. Converting => NumbersTypeOK
    BY DEF Converting
<1> QED BY <1>1, ConvertingHolds, PTL

\* Whatever number the grammar takes, the loops over hexadecimal digits and over the
\* exponent, which test for nothing but the end, find digits, and the byte behind an
\* "e" exists.  (types.hpp:59-70, 89-96)
THEOREM ConversionReadsDigits == ToSpec => []OnlyDigits
<1>1. Converting => OnlyDigits
    BY DEF Converting
<1> QED BY <1>1, ConvertingHolds, PTL

-----------------------------------------------------------------------------
(***************************************************************************)
(* Remainders and casts.                                                   *)
(***************************************************************************)
LEMMA Remainder ==
    ASSUME NEW m \in Nat \ {0}, NEW x \in Int
    PROVE  x % m \in 0..(m - 1) /\ x \div m \in Int /\ x = m * (x \div m) + (x % m)
OBVIOUS

LEMMA RemainderUnique ==
    ASSUME NEW m \in Nat \ {0}, NEW q \in Int, NEW r \in 0..(m - 1)
    PROVE  (m * q + r) % m = r
<1> DEFINE x == m * q + r
<1>1. x \in Int
    OBVIOUS
<1>2. PICK a \in Int, b \in 0..(m - 1) : b = x % m /\ x = m * a + b
    BY <1>1, Remainder
<1>3. m * (q - a) = b - r /\ q - a \in Int
    BY <1>2
<1>4. PICK c \in Int : c = q - a
    BY <1>3
<1>5. c >= 1 => m * c >= m
    OBVIOUS
<1>6. c <= -1 => m * c <= -m
    OBVIOUS
<1>7. b - r < m /\ b - r > -m
    OBVIOUS
<1>8. m * c = b - r
    BY <1>3, <1>4
<1>9. c = 0
    BY <1>5, <1>6, <1>7, <1>8
<1>10. b = r
    BY <1>8, <1>9
<1> QED BY <1>2, <1>10

LEMMA RemainderShift ==
    ASSUME NEW m \in Nat \ {0}, NEW t \in Int, NEW x \in Int
    PROVE  (x + m * t) % m = x % m
<1>1. PICK a \in Int, b \in 0..(m - 1) : b = x % m /\ x = m * a + b
    BY Remainder
<1>2. x + m * t = m * (a + t) + b /\ a + t \in Int
    BY <1>1
<1>3. (m * (a + t) + b) % m = b
    BY <1>2, RemainderUnique
<1> QED BY <1>1, <1>2, <1>3

\* A number that the type has is cast to itself; a cast to unsigned before the cast to
\* signed, or before a digit is appended, makes no difference; the least number is where
\* the numbers that are too large by one wrap around to.
LEMMA CastFacts ==
    ASSUME NEW bits \in {LongBits, IntBits, TargetBits}, NEW x \in Int
    PROVE  /\ x \in SignedInt(bits) => Signed(x, bits) = x
           /\ Signed(Unsigned(x, bits), bits) = Signed(x, bits)
           /\ \A base \in Int, y \in Int :
                 Unsigned(base * Unsigned(x, bits) + y, bits) = Unsigned(base * x + y, bits)
           /\ Signed(2 ^ (bits - 1), bits) = -(2 ^ (bits - 1))
<1>1. PICK h \in Nat \ {0}, m \in Nat \ {0} : h = 2 ^ (bits - 1) /\ m = 2 ^ bits /\ m = 2 * h
    BY PowersAssumption
<1>2. \A y : Unsigned(y, bits) = y % m /\ Signed(y, bits) = ((y + h) % m) - h
    BY <1>1 DEF Signed, Unsigned
<1>3. ASSUME x \in SignedInt(bits) PROVE Signed(x, bits) = x
    <2>1. x + h \in 0..(m - 1)
        BY <1>1, <1>3 DEF SignedInt
    <2>2. (m * 0 + (x + h)) % m = x + h
        BY <2>1, RemainderUnique
    <2> QED BY <1>2, <2>2
<1>4. PICK r \in 0..(m - 1), q \in Int : r = x % m /\ x = m * q + r
    BY Remainder
<1>5. Signed(Unsigned(x, bits), bits) = Signed(x, bits)
    <2>1. PICK u \in Int : u = r + h
        OBVIOUS
    <2>2. (u + m * q) % m = u % m
        BY RemainderShift
    <2>3. u + m * q = x + h
        BY <1>4, <2>1
    <2> QED BY <1>2, <1>4, <2>1, <2>2, <2>3
<1>6. ASSUME NEW base \in Int, NEW y \in Int
      PROVE  Unsigned(base * Unsigned(x, bits) + y, bits) = Unsigned(base * x + y, bits)
    <2>1. PICK u \in Int, v \in Int : u = base * r + y /\ v = base * q
        BY <1>4
    <2>2. (u + m * v) % m = u % m
        BY RemainderShift
    <2>3. u + m * v = base * x + y
        <3>1. base * (m * q + r) = base * (m * q) + base * r
            OBVIOUS
        <3>2. base * (m * q) = m * (base * q)
            OBVIOUS
        <3>3. PICK a \in Int, b \in Int, c \in Int :
                 a = base * r /\ b = m * (base * q) /\ c = base * x
            BY <1>4
        <3>4. c = b + a
            BY <1>4, <3>1, <3>2, <3>3
        <3>5. u = a + y /\ m * v = b
            BY <2>1, <3>3
        <3> QED BY <3>3, <3>4, <3>5
    <2> QED BY <1>2, <1>4, <2>1, <2>2, <2>3
<1>7. Signed(h, bits) = -h
    <2>1. (m * 1 + 0) % m = 0
        BY RemainderUnique
    <2>2. h + h = m * 1 + 0
        BY <1>1
    <2> QED BY <1>2, <2>1, <2>2
<1> QED BY <1>1, <1>3, <1>5, <1>6, <1>7

\* The numbers a signed integer has.
LEMMA SignedRange ==
    ASSUME NEW bits \in {LongBits, IntBits, TargetBits}, NEW x \in Nat
    PROVE  /\ x \in SignedInt(bits) => -x \in SignedInt(bits)
           /\ -x \in SignedInt(bits) =>
                 x \in SignedInt(bits) \/ (x = 2 ^ (bits - 1) /\ x \in Nat)
           /\ \A y \in Nat : y <= x /\ x \in SignedInt(bits) => y \in SignedInt(bits)
<1>1. PICK h \in Nat \ {0} : h = 2 ^ (bits - 1)
    BY PowersAssumption
<1>2. SignedInt(bits) = (-h)..(h - 1)
    BY <1>1 DEF SignedInt
<1> QED BY <1>1, <1>2

-----------------------------------------------------------------------------
(***************************************************************************)
(* What digits spell, by induction on their number.                        *)
(***************************************************************************)
\* h has the values of the prefixes of d.
Spells(h, d, base) == h[0] = 0 /\ \A k \in 1..Len(d) : h[k] = base * h[k - 1] + d[k]

LEMMA SpelledSteps ==
    ASSUME NEW d \in Seq(Nat), NEW base \in Nat
    PROVE  \E h \in [0..Len(d) -> Nat] : Spells(h, d, base) /\ Spelled(d, base) = h[Len(d)]
<1> DEFINE N == Len(d)
           Step == [k \in 1..N |-> [v \in Nat |-> base * v + d[k]]]
           Computes(f) == f = [k \in 0..N |-> IF k = 0 THEN 0 ELSE base * f[k - 1] + d[k]]
           values == CHOOSE f : Computes(f)
<1>1. N \in Nat /\ \A k \in 1..N : d[k] \in Nat
    OBVIOUS
<1>2. Step \in [1..N -> [Nat -> Nat]]
    BY <1>1
<1>3. PICK h \in [0..N -> Nat] : Iterates(h, 0, Step, N)
    <2> HIDE DEF Step, N
    <2> QED BY <1>1, <1>2, Recursion
<1>4. h[0] = 0 /\ \A k \in 1..N : h[k] = base * h[k - 1] + d[k]
    <2>1. h[0] = 0 /\ \A k \in 1..N : h[k] = Step[k][h[k - 1]]
        BY <1>3 DEF Iterates
    <2>2. ASSUME NEW k \in 1..N PROVE Step[k][h[k - 1]] = base * h[k - 1] + d[k]
        <3>1. h[k - 1] \in Nat
            BY <1>1
        <3> QED BY <3>1
    <2> HIDE DEF Step
    <2> QED BY <2>1, <2>2
<1>5. Computes(h)
    BY <1>4
<1>6. Computes(values)
    BY <1>5
<1>7. Spelled(d, base) = values[N]
    BY DEF Spelled
<1>8. values[0] = 0 /\ \A k \in 1..N : values[k] = base * values[k - 1] + d[k]
    <2> HIDE DEF values
    <2>1. values = [k \in 0..N |-> IF k = 0 THEN 0 ELSE base * values[k - 1] + d[k]]
        BY <1>6
    <2> QED BY <1>1, <2>1
<1>9. values \in [0..N -> Nat]
    <2> DEFINE S == {k \in 0..N : values[k] \in Nat}
    <2> HIDE DEF values
    <2>1. 0 \in S
        BY <1>1, <1>8
    <2>2. ASSUME NEW k \in 1..N, k - 1 \in S PROVE k \in S
        <3>1. PICK v \in Nat, x \in Nat : v = values[k - 1] /\ x = d[k]
            BY <1>1, <2>2
        <3>2. base * v + x \in Nat
            OBVIOUS
        <3> QED BY <1>8, <3>1, <3>2
    <2>3. 0..N \subseteq S
        <3> HIDE DEF S, N
        <3> QED BY <1>1, <2>1, <2>2, BoundedInduction
    <2> QED BY <1>6, <2>3
<1> HIDE DEF values
<1> QED BY <1>7, <1>8, <1>9 DEF Spells

\* There is only one way to spell.
LEMMA SpelledUnique ==
    ASSUME NEW d \in Seq(Nat), NEW base \in Nat, NEW g, Spells(g, d, base)
    PROVE  \A k \in 0..Len(d) : g[k] \in Nat /\ Spelled(d, base) = g[Len(d)]
<1>1. PICK h \in [0..Len(d) -> Nat] : Spells(h, d, base) /\ Spelled(d, base) = h[Len(d)]
    BY SpelledSteps
<1> DEFINE S == {k \in 0..Len(d) : g[k] = h[k]}
<1>2. Len(d) \in Nat
    OBVIOUS
<1>3. 0 \in S
    BY <1>1, <1>2 DEF Spells
<1>4. ASSUME NEW k \in 1..Len(d), k - 1 \in S PROVE k \in S
    BY <1>1, <1>4 DEF Spells
<1>5. 0..Len(d) \subseteq S
    <2> HIDE DEF S
    <2> QED BY <1>2, <1>3, <1>4, BoundedInduction
<1> QED BY <1>1, <1>2, <1>5

\* The value of no digits, and of a digit more.
LEMMA SpelledAppend ==
    ASSUME NEW base \in Nat
    PROVE  /\ Spelled(<<>>, base) = 0
           /\ \A d \in Seq(Nat) : Spelled(d, base) \in Nat
           /\ \A d \in Seq(Nat), x \in Nat :
                 Spelled(Append(d, x), base) = base * Spelled(d, base) + x
<1>1. ASSUME NEW d \in Seq(Nat) PROVE Spelled(d, base) \in Nat
    BY SpelledSteps
<1>2. Spelled(<<>>, base) = 0
    <2>1. PICK h : Spells(h, <<>>, base) /\ Spelled(<<>>, base) = h[Len(<<>>)]
        <3>1. <<>> \in Seq(Nat)
            OBVIOUS
        <3> QED BY <3>1, SpelledSteps
    <2> QED BY <2>1 DEF Spells
<1>3. ASSUME NEW d \in Seq(Nat), NEW x \in Nat
      PROVE  Spelled(Append(d, x), base) = base * Spelled(d, base) + x
    <2> DEFINE e == Append(d, x)
               N == Len(d)
    <2>1. /\ N \in Nat /\ e \in Seq(Nat) /\ Len(e) = N + 1
          /\ e[N + 1] = x /\ \A k \in 1..N : e[k] = d[k]
        OBVIOUS
    <2> HIDE DEF e
    <2>2. PICK h \in [0..Len(e) -> Nat] : Spells(h, e, base) /\ Spelled(e, base) = h[Len(e)]
        BY <2>1, SpelledSteps
    <2>3. Spells(h, d, base)
        BY <2>1, <2>2 DEF Spells
    <2>4. Spelled(d, base) = h[N]
        BY <2>1, <2>3, SpelledUnique
    <2>5. h[N + 1] = base * h[(N + 1) - 1] + e[N + 1] /\ (N + 1) - 1 = N
        <3>1. N + 1 \in 1..Len(e) /\ (N + 1) - 1 = N
            BY <2>1
        <3> QED BY <2>2, <3>1 DEF Spells
    <2> QED BY <2>1, <2>2, <2>4, <2>5 DEF e
<1> QED BY <1>1, <1>2, <1>3

\* Digits behind do not make it less.
LEMMA SpelledPrefix ==
    ASSUME NEW d \in Seq(Nat), NEW base \in Nat \ {0}, NEW m \in 0..Len(d)
    PROVE  /\ SubSeq(d, 1, m) \in Seq(Nat)
           /\ Spelled(SubSeq(d, 1, m), base) \in Nat
           /\ Spelled(SubSeq(d, 1, m), base) <= Spelled(d, base)
<1> DEFINE N == Len(d)
           e == SubSeq(d, 1, m)
<1>1. N \in Nat /\ m \in Nat /\ m <= N /\ \A k \in 1..N : d[k] \in Nat
    OBVIOUS
<1>2. e \in Seq(Nat) /\ Len(e) = m /\ \A k \in 1..m : e[k] = d[k]
    OBVIOUS
<1>3. PICK h \in [0..N -> Nat] : Spells(h, d, base) /\ Spelled(d, base) = h[N]
    BY SpelledSteps
<1> HIDE DEF e
<1>4. Spells(h, e, base)
    <2>1. \A k \in 1..m : k \in 1..N
        BY <1>1
    <2>2. h[0] = 0 /\ \A k \in 1..N : h[k] = base * h[k - 1] + d[k]
        BY <1>3 DEF Spells
    <2> QED BY <1>2, <2>1, <2>2 DEF Spells
<1>5. Spelled(e, base) = h[m]
    BY <1>2, <1>4, SpelledUnique
<1>6. \A k \in 0..N : h[k] \in Nat
    BY <1>3
<1> DEFINE S == {k \in 0..N : m <= k => h[m] <= h[k]}
<1>7. 0 \in S
    BY <1>1, <1>6
<1>8. ASSUME NEW k \in 1..N, k - 1 \in S PROVE k \in S
    <2>1. CASE m = k
        BY <1>1, <1>6, <2>1
    <2>2. CASE m <= k - 1
        <3>1. PICK u \in Nat, v \in Nat, x \in Nat : u = h[m] /\ v = h[k - 1] /\ x = d[k]
            <4>1. m \in 0..N /\ k - 1 \in 0..N
                BY <1>1
            <4> QED BY <1>1, <1>6, <4>1
        <3>2. u <= v
            BY <1>8, <2>2, <3>1
        <3>3. h[k] = base * v + x
            BY <1>1, <1>3, <3>1 DEF Spells
        <3>4. base * v >= v
            OBVIOUS
        <3>5. u <= base * v + x
            BY <3>2, <3>4
        <3> QED BY <3>1, <3>3, <3>5
    <2>3. CASE ~(m <= k)
        BY <2>3
    <2> QED BY <1>1, <2>1, <2>2, <2>3
<1>9. 0..N \subseteq S
    <2> HIDE DEF S, N
    <2> QED BY <1>1, <1>7, <1>8, BoundedInduction
<1>10. h[m] <= h[N]
    BY <1>1, <1>9
<1> QED BY <1>1, <1>2, <1>3, <1>5, <1>6, <1>10 DEF e

\* Leading zeros count for nothing.
LEMMA SpelledZeros ==
    ASSUME NEW d \in Seq(Nat), NEW base \in Nat, NEW z \in 0..Len(d),
           \A k \in 1..z : d[k] = 0
    PROVE  Spelled(SubSeq(d, z + 1, Len(d)), base) = Spelled(d, base)
<1> DEFINE N == Len(d)
           e == SubSeq(d, z + 1, N)
<1>1. N \in Nat /\ z \in Nat /\ z <= N
    OBVIOUS
<1>2. e \in Seq(Nat) /\ Len(e) = N - z /\ \A k \in 1..(N - z) : e[k] = d[k + z]
    OBVIOUS
<1>3. PICK h \in [0..N -> Nat] : Spells(h, d, base) /\ Spelled(d, base) = h[N]
    BY SpelledSteps
<1> DEFINE S == {k \in 0..z : h[k] = 0}
<1>4. 0 \in S
    BY <1>1, <1>3 DEF Spells
<1>5. ASSUME NEW k \in 1..z, k - 1 \in S PROVE k \in S
    <2>1. h[k] = base * h[k - 1] + d[k] /\ h[k - 1] = 0 /\ d[k] = 0
        BY <1>1, <1>3, <1>5 DEF Spells
    <2> QED BY <2>1
<1>6. h[z] = 0
    <2>1. 0..z \subseteq S
        <3> HIDE DEF S
        <3> QED BY <1>1, <1>4, <1>5, BoundedInduction
    <2> QED BY <1>1, <2>1
<1> DEFINE g == [k \in 0..(N - z) |-> h[k + z]]
<1>7. Spells(g, e, base)
    <2>1. g[0] = 0
        BY <1>1, <1>6
    <2>2. ASSUME NEW k \in 1..(N - z) PROVE g[k] = base * g[k - 1] + e[k]
        <3>1. k + z \in 1..N /\ (k - 1) + z = (k + z) - 1 /\ k - 1 \in 0..(N - z) /\ k \in 0..(N - z)
            BY <1>1
        <3>2. h[k + z] = base * h[(k + z) - 1] + d[k + z]
            BY <1>3, <3>1 DEF Spells
        <3>3. g[k] = h[k + z] /\ g[k - 1] = h[(k + z) - 1] /\ e[k] = d[k + z]
            BY <1>2, <3>1
        <3> QED BY <3>2, <3>3
    <2> HIDE DEF g, e
    <2> QED BY <1>2, <2>1, <2>2 DEF Spells
<1>8. Spelled(e, base) = g[N - z]
    <2> HIDE DEF g, e
    <2>1. N - z \in 0..Len(e)
        BY <1>1, <1>2
    <2> QED BY <1>2, <1>7, <2>1, SpelledUnique
<1>9. g[N - z] = h[N]
    BY <1>1
<1> QED BY <1>3, <1>8, <1>9

\* What is within the range of a type is a number it has.
LEMMA InRangeSpelled ==
    ASSUME NEW d \in Seq(Nat), NEW bits, InRange(d, bits)
    PROVE  Spelled(d, 10) \in SignedInt(bits)
<1>1. PICK z \in 0..Len(d) : /\ \A k \in 1..z : d[k] = 0
                             /\ Spelled(SubSeq(d, z + 1, Len(d)), 10) \in SignedInt(bits)
    BY DEF InRange
<1>2. Spelled(SubSeq(d, z + 1, Len(d)), 10) = Spelled(d, 10)
    BY <1>1, SpelledZeros
<1> QED BY <1>1, <1>2

\* The last digit is divided away.
LEMMA SpelledQuotient ==
    ASSUME NEW d \in Seq(Nat), NEW x \in 0..9
    PROVE  Spelled(Append(d, x), 10) \div 10 = Spelled(d, 10)
<1>1. PICK v \in Nat : v = Spelled(d, 10)
    BY SpelledAppend
<1>2. Spelled(Append(d, x), 10) = 10 * v + x
    <2>1. x \in Nat
        OBVIOUS
    <2> QED BY <1>1, <2>1, SpelledAppend
<1>3. (10 * v + x) \div 10 = v
    OBVIOUS
<1> QED BY <1>1, <1>2, <1>3

\* Digits with the point moved to the right: a zero more at each step.
LEMMA MovedRight ==
    ASSUME NEW d \in Seq(Nat), NEW k \in Nat
    PROVE  /\ Moved(d, 0) = d
           /\ Moved(d, k) \in Seq(Nat) /\ Len(Moved(d, k)) = Len(d) + k
           /\ \A m \in 1..Len(d) : Moved(d, k)[m] = d[m]
           /\ \A m \in (Len(d) + 1)..(Len(d) + k) : Moved(d, k)[m] = 0
           /\ Moved(d, k + 1) = Append(Moved(d, k), 0)
<1> DEFINE zeros(n) == [z \in 1..n |-> 0]
<1>1. ASSUME NEW n \in Nat
      PROVE  /\ zeros(n) \in Seq(Nat) /\ Len(zeros(n)) = n
             /\ \A m \in 1..n : zeros(n)[m] = 0
             /\ Moved(d, n) = d \o zeros(n)
    BY DEF Moved
<1> HIDE DEF zeros
<1>2. ASSUME NEW n \in Nat
      PROVE  /\ Moved(d, n) \in Seq(Nat) /\ Len(Moved(d, n)) = Len(d) + n
             /\ \A m \in 1..Len(d) : Moved(d, n)[m] = d[m]
             /\ \A m \in (Len(d) + 1)..(Len(d) + n) : Moved(d, n)[m] = 0
    <2> DEFINE u == zeros(n)
    <2>1. /\ u \in Seq(Nat) /\ Len(u) = n /\ \A m \in 1..n : u[m] = 0
          /\ Moved(d, n) = d \o u
        BY <1>1
    <2> HIDE DEF u
    <2>2. \A m \in (Len(d) + 1)..(Len(d) + n) : m - Len(d) \in 1..n /\ (d \o u)[m] = u[m - Len(d)]
        BY <2>1
    <2>3. (d \o u) \in Seq(Nat) /\ Len(d \o u) = Len(d) + n
        BY <2>1, ConcatProperties
    <2>4. \A m \in 1..Len(d) : (d \o u)[m] = d[m]
        BY <2>1
    <2> QED BY <2>1, <2>2, <2>3, <2>4
<1>3. Moved(d, 0) = d
    <2>1. /\ Moved(d, 0) \in Seq(Nat) /\ Len(Moved(d, 0)) = Len(d)
          /\ \A m \in 1..Len(d) : Moved(d, 0)[m] = d[m]
        BY <1>2
    <2> QED BY <2>1
<1>4. Moved(d, k + 1) = Append(Moved(d, k), 0)
    <2> DEFINE a == Moved(d, k + 1)
               b == Moved(d, k)
    <2>1. /\ a \in Seq(Nat) /\ Len(a) = Len(d) + (k + 1)
          /\ \A m \in 1..Len(d) : a[m] = d[m]
          /\ \A m \in (Len(d) + 1)..(Len(d) + (k + 1)) : a[m] = 0
        <3>1. k + 1 \in Nat
            OBVIOUS
        <3> QED BY <1>2, <3>1
    <2>2. /\ b \in Seq(Nat) /\ Len(b) = Len(d) + k
          /\ \A m \in 1..Len(d) : b[m] = d[m]
          /\ \A m \in (Len(d) + 1)..(Len(d) + k) : b[m] = 0
        BY <1>2
    <2> HIDE DEF a, b
    <2>3. /\ Append(b, 0) \in Seq(Nat) /\ Len(Append(b, 0)) = Len(b) + 1
          /\ Len(d) \in Nat /\ Len(a) = Len(b) + 1
        BY <2>1, <2>2
    <2>4. ASSUME NEW m \in 1..Len(a) PROVE a[m] = Append(b, 0)[m]
        <3>1. m \in 1..Len(d) \/ m \in (Len(d) + 1)..(Len(d) + k) \/ m = Len(b) + 1
            BY <2>1, <2>2, <2>3
        <3>2. CASE m = Len(b) + 1
            <4>1. m \in (Len(d) + 1)..(Len(d) + (k + 1))
                BY <2>2, <2>3, <3>2
            <4> QED BY <2>1, <2>2, <3>2, <4>1
        <3>3. CASE m \in 1..Len(d) \/ m \in (Len(d) + 1)..(Len(d) + k)
            <4>1. m \in 1..Len(b) /\ a[m] = b[m]
                BY <2>1, <2>2, <2>3, <3>3
            <4> QED BY <2>2, <4>1
        <3> QED BY <3>1, <3>2, <3>3
    <2>5. a = Append(b, 0)
        <3> DEFINE c == Append(b, 0)
        <3>1. c \in Seq(Nat) /\ Len(c) = Len(a) /\ \A m \in 1..Len(a) : a[m] = c[m]
            BY <2>3, <2>4
        <3> HIDE DEF c
        <3>2. a = c
            BY <2>1, <3>1
        <3> QED BY <3>2 DEF c
    <2> QED BY <2>5 DEF a, b
<1> QED BY <1>2, <1>3, <1>4

\* Zeros behind do not make it less.
LEMMA MovedGrows ==
    ASSUME NEW d \in Seq(Nat), NEW k \in Nat, NEW n \in Nat, k <= n
    PROVE  Spelled(Moved(d, k), 10) <= Spelled(Moved(d, n), 10)
<1> DEFINE a == Moved(d, n)
           b == Moved(d, k)
<1>1. /\ a \in Seq(Nat) /\ Len(a) = Len(d) + n
      /\ \A m \in 1..Len(d) : a[m] = d[m]
      /\ \A m \in (Len(d) + 1)..(Len(d) + n) : a[m] = 0
    BY MovedRight
<1>2. /\ b \in Seq(Nat) /\ Len(b) = Len(d) + k
      /\ \A m \in 1..Len(d) : b[m] = d[m]
      /\ \A m \in (Len(d) + 1)..(Len(d) + k) : b[m] = 0
    BY MovedRight
<1> HIDE DEF a, b
<1>3. Len(d) + k \in 0..Len(a)
    BY <1>1
<1>4. b = SubSeq(a, 1, Len(d) + k)
    <2> DEFINE c == SubSeq(a, 1, Len(d) + k)
    <2>1. c \in Seq(Nat) /\ Len(c) = Len(d) + k /\ \A m \in 1..(Len(d) + k) : c[m] = a[m]
        BY <1>1, <1>3
    <2> HIDE DEF c
    <2>2. ASSUME NEW m \in 1..(Len(d) + k) PROVE c[m] = b[m]
        <3>1. m \in 1..Len(d) \/ (/\ m \in (Len(d) + 1)..(Len(d) + k)
                                  /\ m \in (Len(d) + 1)..(Len(d) + n))
            BY <1>1
        <3> QED BY <1>1, <1>2, <2>1, <3>1
    <2>3. b = c
        BY <1>2, <2>1, <2>2
    <2> QED BY <2>3 DEF c
<1> QED BY <1>1, <1>3, <1>4, SpelledPrefix DEF a, b

\* Digits with the point moved to the left: one less at each step, until there are none.
LEMMA MovedLeft ==
    ASSUME NEW d \in Seq(0..9), NEW k \in Nat
    PROVE  /\ Moved(d, -k) \in Seq(Nat)
           /\ Spelled(Moved(d, -k), 10) <= Spelled(d, 10)
           /\ Spelled(Moved(d, -(k + 1)), 10) = Spelled(Moved(d, -k), 10) \div 10
<1> DEFINE cut(n) == SubSeq(d, 1, n)
<1>1. d \in Seq(Nat) /\ Len(d) \in Nat
    <2>1. \A m \in 1..Len(d) : d[m] \in Nat
        OBVIOUS
    <2> QED BY <2>1
<1>2. ASSUME NEW n \in Nat
      PROVE  Moved(d, -n) = cut(Len(d) - n)
    <2>1. CASE n = 0
        <3>1. Moved(d, 0) = d
            BY <1>1, MovedRight
        <3>2. d = SubSeq(d, 1, Len(d))
            OBVIOUS
        <3> QED BY <1>1, <2>1, <3>1, <3>2
    <2>2. CASE n # 0
        BY <1>1, <2>2 DEF Moved
    <2> QED BY <2>1, <2>2
<1>3. CASE k >= Len(d)
    <2>1. cut(Len(d) - k) = <<>> /\ cut(Len(d) - (k + 1)) = <<>>
        BY <1>1, <1>3
    <2>2. Moved(d, -k) = <<>> /\ Moved(d, -(k + 1)) = <<>>
        <3>1. k + 1 \in Nat
            OBVIOUS
        <3> QED BY <1>2, <2>1, <3>1
    <2>3. Spelled(<<>>, 10) = 0 /\ Spelled(d, 10) \in Nat
        BY <1>1, SpelledAppend
    <2>4. <<>> \in Seq(Nat)
        OBVIOUS
    <2>5. 0 \div 10 = 0
        OBVIOUS
    <2>6. 0 <= Spelled(d, 10)
        BY <2>3
    <2> QED BY <2>2, <2>3, <2>4, <2>5, <2>6
<1>4. CASE k < Len(d)
    <2> DEFINE n == Len(d) - k
               a == cut(n)
               b == cut(n - 1)
    <2>1. n \in 1..Len(d) /\ n - 1 \in 0..Len(d) /\ Len(d) - (k + 1) = n - 1
        BY <1>1, <1>4
    <2>2. /\ a \in Seq(Nat) /\ Len(a) = n /\ \A m \in 1..n : a[m] = d[m]
        BY <1>1, <2>1
    <2>3. /\ b \in Seq(Nat) /\ Len(b) = n - 1 /\ \A m \in 1..(n - 1) : b[m] = d[m]
        <3>1. PICK l \in 0..Len(d) : l = n - 1
            BY <2>1
        <3>2. /\ SubSeq(d, 1, l) \in Seq(Nat) /\ Len(SubSeq(d, 1, l)) = l
              /\ \A m \in 1..l : SubSeq(d, 1, l)[m] = d[m]
            BY <1>1, <3>1
        <3> QED BY <3>1, <3>2
    <2>4. Moved(d, -k) = a /\ Moved(d, -(k + 1)) = b
        <3>1. k + 1 \in Nat
            OBVIOUS
        <3> QED BY <1>2, <2>1, <3>1
    <2>5. Spelled(a, 10) <= Spelled(d, 10)
        BY <1>1, <2>1, SpelledPrefix
    <2> HIDE DEF a, b, n
    <2>6. d[n] \in 0..9
        BY <2>1
    <2>7. a = Append(b, d[n])
        <3>1. d[n] \in Nat /\ n \in Nat
            BY <2>1, <2>6
        <3>2. Append(b, d[n]) \in Seq(Nat) /\ Len(Append(b, d[n])) = n
            BY <2>3, <3>1
        <3>3. ASSUME NEW m \in 1..n PROVE a[m] = Append(b, d[n])[m]
            <4>1. m \in 1..(n - 1) \/ m = n
                BY <3>1
            <4> QED BY <2>2, <2>3, <3>1, <4>1
        <3> QED BY <2>2, <3>2, <3>3
    <2>8. Spelled(a, 10) \div 10 = Spelled(b, 10)
        BY <2>3, <2>6, <2>7, SpelledQuotient
    <2> QED BY <2>2, <2>4, <2>5, <2>8
<1> QED BY <1>1, <1>3, <1>4

-----------------------------------------------------------------------------
(***************************************************************************)
(* The digits of a number.                                                 *)
(***************************************************************************)
\* The values of a run of digits, one by one.
LEMMA DigitValuesFacts ==
    ASSUME NEW s \in Seq(Byte), NEW p \in Nat, NEW q \in Nat, q <= Len(s),
           \A k \in p..(q - 1) : s[k + 1] \in HexDigit
    PROVE  /\ DigitValues(s, p, q) \in Seq(Nat)
           /\ p <= q => /\ Len(DigitValues(s, p, q)) = q - p
                        /\ \A k \in 1..(q - p) : DigitValues(s, p, q)[k] = HexVal(s[p + k])
           /\ q <= p => DigitValues(s, p, q) = <<>>
<1> DEFINE d == Slice(s, p, q)
           v == DigitValues(s, p, q)
<1>1. CASE p <= q
    <2>1. Len(d) = q - p /\ \A k \in 1..(q - p) : d[k] = s[p + k]
        BY <1>1 DEF Slice
    <2>2. v = [k \in 1..(q - p) |-> HexVal(s[p + k])]
        BY <2>1 DEF DigitValues
    <2>3. ASSUME NEW k \in 1..(q - p) PROVE HexVal(s[p + k]) \in Nat
        <3>1. p + k - 1 \in p..(q - 1) /\ (p + k - 1) + 1 = p + k
            OBVIOUS
        <3>2. s[p + k] \in HexDigit
            BY <3>1
        <3> QED BY <3>2, HexValType
    <2> HIDE DEF v
    <2>4. v \in Seq(Nat) /\ Len(v) = q - p
        BY <1>1, <2>2, <2>3
    <2>5. q <= p => v = <<>>
        BY <1>1, <2>4
    <2> QED BY <2>2, <2>4, <2>5 DEF v
<1>2. CASE ~(p <= q)
    <2>1. d = <<>>
        BY <1>2 DEF Slice
    <2>2. v = <<>>
        BY <2>1 DEF DigitValues
    <2> QED BY <1>2, <2>2
<1> QED BY <1>1, <1>2

\* A digit more.
LEMMA DigitValuesStep ==
    ASSUME NEW s \in Seq(Byte), NEW p \in Nat, NEW q \in Nat, p <= q, q < Len(s),
           \A k \in p..q : s[k + 1] \in HexDigit
    PROVE  /\ DigitValues(s, p, q) \in Seq(Nat)
           /\ HexVal(s[q + 1]) \in Nat
           /\ DigitValues(s, p, q + 1) = Append(DigitValues(s, p, q), HexVal(s[q + 1]))
<1> DEFINE a == DigitValues(s, p, q)
           b == DigitValues(s, p, q + 1)
           x == HexVal(s[q + 1])
<1>1. q + 1 \in Nat /\ q + 1 <= Len(s) /\ (q + 1) - 1 = q /\ q \in p..q
    OBVIOUS
<1>2. \A k \in p..(q - 1) : s[k + 1] \in HexDigit
    OBVIOUS
<1>3. a \in Seq(Nat) /\ Len(a) = q - p /\ \A k \in 1..(q - p) : a[k] = HexVal(s[p + k])
    <2>1. q <= Len(s)
        OBVIOUS
    <2> QED BY <1>2, <2>1, DigitValuesFacts
<1>4. /\ b \in Seq(Nat) /\ Len(b) = (q + 1) - p
      /\ \A k \in 1..((q + 1) - p) : b[k] = HexVal(s[p + k])
    BY <1>1, DigitValuesFacts
<1>5. x \in Nat
    BY <1>1, HexValType
<1> HIDE DEF a, b, x
<1>6. /\ Append(a, x) \in Seq(Nat) /\ Len(Append(a, x)) = Len(a) + 1
      /\ Len(b) = Len(a) + 1
    <2>1. Append(a, x) \in Seq(Nat) /\ Len(Append(a, x)) = Len(a) + 1
        BY <1>3, <1>5
    <2>2. Len(b) = Len(a) + 1
        BY <1>3, <1>4
    <2> QED BY <2>1, <2>2
<1>7. ASSUME NEW k \in 1..Len(b) PROVE b[k] = Append(a, x)[k]
    <2>1. k \in 1..(q - p) \/ k = Len(a) + 1
        BY <1>3, <1>4
    <2>2. k = Len(a) + 1 => p + k = q + 1
        BY <1>3
    <2> QED BY <1>3, <1>4, <2>1, <2>2 DEF x
<1>8. b = Append(a, x)
    BY <1>4, <1>6, <1>7
<1> QED BY <1>3, <1>5, <1>8 DEF a, b, x

\* The values of some of the digits are a prefix of the values of more.
LEMMA DigitValuesPrefix ==
    ASSUME NEW s \in Seq(Byte), NEW p \in Nat, NEW q \in Nat, NEW r \in Nat,
           p <= q, q <= r, r <= Len(s), \A k \in p..(r - 1) : s[k + 1] \in HexDigit
    PROVE  Spelled(DigitValues(s, p, q), 10) <= Spelled(DigitValues(s, p, r), 10)
<1> DEFINE a == DigitValues(s, p, q)
           b == DigitValues(s, p, r)
<1>1. a \in Seq(Nat) /\ Len(a) = q - p /\ \A k \in 1..(q - p) : a[k] = HexVal(s[p + k])
    <2>1. q <= Len(s) /\ \A k \in p..(q - 1) : s[k + 1] \in HexDigit
        OBVIOUS
    <2> QED BY <2>1, DigitValuesFacts
<1>2. b \in Seq(Nat) /\ Len(b) = r - p /\ \A k \in 1..(r - p) : b[k] = HexVal(s[p + k])
    <2>1. p <= r
        OBVIOUS
    <2> QED BY <2>1, DigitValuesFacts
<1> HIDE DEF a, b
<1>3. PICK n \in 0..Len(b) : n = q - p
    BY <1>2
<1>4. a = SubSeq(b, 1, n)
    <2> DEFINE c == SubSeq(b, 1, n)
    <2>1. c \in Seq(Nat) /\ Len(c) = n /\ \A k \in 1..n : c[k] = b[k]
        BY <1>2, <1>3
    <2> HIDE DEF c
    <2>2. \A k \in 1..n : a[k] = c[k]
        BY <1>1, <1>2, <1>3, <2>1
    <2>3. a = c
        BY <1>1, <1>3, <2>1, <2>2, SeqEqual
    <2> QED BY <2>3 DEF c
<1> QED BY <1>2, <1>4, SpelledPrefix DEF a, b

\* The digits of a decimal up to offset j, which is behind the point.
DigitsTo(s, j) ==
    DigitValues(s, AfterSign(s, 0), WholeStop(s)) \o DigitValues(s, WholeStop(s) + 1, j)

\* The parts of a decimal that its conversion should give are those of its shape.
LEMMA DecimalParts ==
    ASSUME NEW s, IsNumber(s), IsDecimal(s)
    PROVE  /\ WholeEnd(s) = WholeStop(s) /\ DigitsEnd(s) = FractionStop(s)
           /\ AllDigits(s) = DigitsTo(s, FractionStop(s))
           /\ AfterSign(s, 0) \in Nat /\ WholeStop(s) \in Nat /\ FractionStop(s) \in Nat
           /\ AfterSign(s, 0) <= WholeStop(s) /\ WholeStop(s) <= FractionStop(s)
           /\ FractionStop(s) <= Len(s) /\ Len(s) \in Nat /\ s \in Seq(Byte)
           /\ \A k \in AfterSign(s, 0)..(WholeStop(s) - 1) : s[k + 1] \in Digit
           /\ \A k \in (WholeStop(s) + 1)..(FractionStop(s) - 1) : s[k + 1] \in Digit
           /\ ~ByteIn(s, WholeStop(s), Digit)
<1> DEFINE p == AfterSign(s, 0)
           w == WholeStop(s)
           f == FractionStop(s)
<1>1. s \in Seq(Byte) /\ Len(s) \in Nat /\ p \in Nat /\ p <= Len(s)
    BY NumberNotEmpty
<1>2. w \in p..Len(s) /\ f \in w..Len(s)
    BY DecimalShape
<1>3. /\ \A k \in p..(w - 1) : s[k + 1] \in Digit
      /\ \A k \in (w + 1)..(f - 1) : s[k + 1] \in Digit
    BY DecimalShape
<1>4. ~ByteIn(s, w, Digit)
    <2>1. w \in p..w
        BY <1>1, <1>2
    <2>2. ByteIn(s, w, Digit) => w < w
        BY <2>1, WholeStops
    <2> HIDE DEF w
    <2> QED BY <1>1, <1>2, <2>2
<1>5. /\ RunEnd(s, p, Digit) \in p..Len(s)
      /\ RunEnd(s, p, Digit) = Len(s) \/ s[RunEnd(s, p, Digit) + 1] \notin Digit
      /\ \A k \in p..(RunEnd(s, p, Digit) - 1) : s[k + 1] \in Digit
    BY <1>1, RunEndFacts
<1> HIDE DEF p, w, f
<1>6. PICK q \in p..Len(s) :
         /\ q = RunEnd(s, p, Digit)
         /\ q = Len(s) \/ s[q + 1] \notin Digit
         /\ \A k \in p..(q - 1) : s[k + 1] \in Digit
    BY <1>5
<1>7. q = w
    <2>1. ~(q < w)
        BY <1>1, <1>2, <1>3, <1>6
    <2>2. ~(w < q)
        <3>1. w < q => w \in p..(q - 1) /\ w < Len(s)
            BY <1>1, <1>2
        <3> QED BY <1>4, <1>6, <3>1 DEF ByteIn
    <2> QED BY <1>1, <1>2, <2>1, <2>2
<1>8. WholeEnd(s) = w
    BY <1>6, <1>7, <1>5 DEF WholeEnd, p
<1>9. DigitsEnd(s) = f
    BY <1>8 DEF DigitsEnd, w, f, FractionStop
<1>10. AllDigits(s) = DigitsTo(s, f)
    BY <1>8, <1>9 DEF AllDigits, FractionDigits, DigitsTo, w, p
<1>11. w \in Nat /\ f \in Nat /\ p <= w /\ w <= f /\ f <= Len(s)
    BY <1>1, <1>2
<1> QED BY <1>1, <1>3, <1>4, <1>8, <1>9, <1>10, <1>11 DEF p, w, f

\* Digits are hexadecimal digits below ten.
LEMMA DigitVal ==
    ASSUME NEW h \in Digit
    PROVE  h \in HexDigit /\ HexVal(h) \in 0..9 /\ HexVal(h) \in Nat
BY DEF Digit, HexDigit, HexVal

\* What is appended to the second of two sequences is appended to both together.
LEMMA ConcatAppend ==
    ASSUME NEW u \in Seq(Nat), NEW v \in Seq(Nat), NEW n \in Nat
    PROVE  u \o v \in Seq(Nat) /\ Append(u \o v, n) = u \o Append(v, n)
<1>1. u \o v \in Seq(Nat)
    BY ConcatProperties, Zenon
<1>2. Append(u \o v, n) = (u \o v) \o <<n>>
    BY <1>1, AppendIsConcat, Zenon
<1>3. Append(v, n) = v \o <<n>>
    BY AppendIsConcat, Zenon
<1>4. <<n>> \in Seq(Nat)
    OBVIOUS
<1>5. (u \o v) \o <<n>> = u \o (v \o <<n>>)
    BY <1>4, ConcatAssociative, SMTT(60)
<1> QED
    BY <1>1, <1>2, <1>3, <1>5, Zenon

\* A digit more behind the point.
LEMMA DigitsToStep ==
    ASSUME NEW s, IsNumber(s), IsDecimal(s)
    PROVE  /\ DigitsTo(s, WholeStop(s) + 1)
                = DigitValues(s, AfterSign(s, 0), WholeStop(s))
           /\ \A j \in (WholeStop(s) + 1)..(FractionStop(s) - 1) :
                 /\ DigitsTo(s, j) \in Seq(Nat) /\ HexVal(s[j + 1]) \in Nat
                 /\ DigitsTo(s, j + 1) = Append(DigitsTo(s, j), HexVal(s[j + 1]))
<1> DEFINE p == AfterSign(s, 0)
           w == WholeStop(s)
           f == FractionStop(s)
           a == DigitValues(s, p, w)
<1>1. /\ p \in Nat /\ w \in Nat /\ f \in Nat /\ p <= w /\ w <= f /\ f <= Len(s)
      /\ Len(s) \in Nat /\ s \in Seq(Byte)
      /\ \A k \in p..(w - 1) : s[k + 1] \in HexDigit
      /\ \A k \in (w + 1)..(f - 1) : s[k + 1] \in HexDigit
    BY DecimalParts, DigitVal
<1> HIDE DEF p, w, f
<1>2. a \in Seq(Nat)
    <2>1. w <= Len(s)
        BY <1>1
    <2> QED BY <1>1, <2>1, DigitValuesFacts
<1>3. DigitsTo(s, w + 1) = a
    <2>1. DigitValues(s, w + 1, w + 1) = <<>>
        BY <1>1 DEF DigitValues, Slice
    <2>2. a \o <<>> = a
        BY <1>2, ConcatEmptySeq
    <2> QED BY <2>1, <2>2 DEF DigitsTo, w, p
<1>4. ASSUME NEW j \in (w + 1)..(f - 1)
      PROVE  /\ DigitsTo(s, j) \in Seq(Nat) /\ HexVal(s[j + 1]) \in Nat
             /\ DigitsTo(s, j + 1) = Append(DigitsTo(s, j), HexVal(s[j + 1]))
    <2> DEFINE b == DigitValues(s, w + 1, j)
               x == HexVal(s[j + 1])
    <2>1. w + 1 \in Nat /\ j \in Nat /\ w + 1 <= j /\ j < Len(s)
        BY <1>1
    <2>2. \A k \in (w + 1)..j : s[k + 1] \in HexDigit
        BY <1>1
    <2>3. b \in Seq(Nat) /\ x \in Nat /\ DigitValues(s, w + 1, j + 1) = Append(b, x)
        BY <1>1, <2>1, <2>2, DigitValuesStep
    <2>4. DigitsTo(s, j) = a \o b /\ DigitsTo(s, j + 1) = a \o Append(b, x)
        BY <2>3 DEF DigitsTo, w, p
    <2>5. a \o b \in Seq(Nat) /\ Append(a \o b, x) = a \o Append(b, x)
        <3> HIDE DEF a, b, x
        <3> QED BY <1>2, <2>3, ConcatAppend, Zenon
    <2> QED BY <2>3, <2>4, <2>5
<1> QED BY <1>3, <1>4 DEF p, w, f

\* All the digits of a decimal, and of its exponent.
LEMMA DecimalDigits ==
    ASSUME NEW s, IsNumber(s), IsDecimal(s)
    PROVE  /\ AllDigits(s) \in Seq(0..9) /\ AllDigits(s) \in Seq(Nat)
           /\ FractionDigits(s) \in Seq(Nat)
           /\ FractionStop(s) = WholeStop(s) =>
                 /\ Len(FractionDigits(s)) = 0
                 /\ AllDigits(s) = DigitValues(s, AfterSign(s, 0), WholeStop(s))
           /\ FractionStop(s) > WholeStop(s) =>
                 Len(FractionDigits(s)) = FractionStop(s) - (WholeStop(s) + 1)
<1> DEFINE p == AfterSign(s, 0)
           w == WholeStop(s)
           f == FractionStop(s)
           a == DigitValues(s, p, w)
           b == DigitValues(s, w + 1, f)
<1>1. /\ p \in Nat /\ w \in Nat /\ f \in Nat /\ p <= w /\ w <= f /\ f <= Len(s)
      /\ Len(s) \in Nat /\ s \in Seq(Byte)
      /\ \A k \in p..(w - 1) : s[k + 1] \in Digit
      /\ \A k \in (w + 1)..(f - 1) : s[k + 1] \in Digit
    BY DecimalParts
<1>2. AllDigits(s) = a \o b /\ FractionDigits(s) = b
    BY DecimalParts DEF DigitsTo, FractionDigits
<1> HIDE DEF p, w, f
<1>3. w + 1 \in Nat /\ w <= Len(s)
    BY <1>1
<1>4. /\ \A k \in p..(w - 1) : s[k + 1] \in HexDigit
      /\ \A k \in (w + 1)..(f - 1) : s[k + 1] \in HexDigit
    BY <1>1, DigitVal
<1>5. /\ a \in Seq(Nat) /\ Len(a) = w - p
      /\ \A k \in 1..(w - p) : a[k] = HexVal(s[p + k])
    BY <1>1, <1>3, <1>4, DigitValuesFacts
<1>6. /\ b \in Seq(Nat)
      /\ w + 1 <= f => /\ Len(b) = f - (w + 1)
                       /\ \A k \in 1..(f - (w + 1)) : b[k] = HexVal(s[(w + 1) + k])
      /\ f <= w + 1 => b = <<>>
    BY <1>1, <1>3, <1>4, DigitValuesFacts
<1> HIDE DEF a, b
<1>7. a \in Seq(0..9)
    <2>1. ASSUME NEW k \in 1..Len(a) PROVE a[k] \in 0..9
        <3>1. PICK j \in p..(w - 1) : j + 1 = p + k
            <4>1. p + k - 1 \in p..(w - 1) /\ (p + k - 1) + 1 = p + k
                BY <1>1, <1>5
            <4> QED BY <4>1
        <3>2. s[p + k] \in Digit
            BY <1>1, <3>1
        <3> QED BY <1>5, <3>2, DigitVal
    <2> QED BY <1>5, <2>1
<1>8. b \in Seq(0..9)
    <2>1. ASSUME NEW k \in 1..Len(b) PROVE b[k] \in 0..9
        <3>1. Len(b) = f - (w + 1) /\ b[k] = HexVal(s[(w + 1) + k])
            <4>1. CASE w + 1 <= f
                BY <1>6, <4>1
            <4>2. CASE f <= w + 1
                BY <1>6, <4>2
            <4> QED BY <1>1, <4>1, <4>2
        <3>2. PICK j \in (w + 1)..(f - 1) : j + 1 = (w + 1) + k
            <4>1. w + k \in (w + 1)..(f - 1) /\ (w + k) + 1 = (w + 1) + k
                BY <1>1, <3>1
            <4> QED BY <4>1
        <3>3. s[(w + 1) + k] \in Digit
            BY <1>1, <3>2
        <3> QED BY <3>1, <3>3, DigitVal
    <2>2. Len(b) \in Nat /\ b \in [1..Len(b) -> Nat]
        BY <1>6, LenProperties
    <2>3. b \in [1..Len(b) -> 0..9]
        BY <2>1, <2>2
    <2> QED BY <2>2, <2>3
<1>9. a \o b \in Seq(0..9) /\ a \o b \in Seq(Nat)
    BY <1>5, <1>6, <1>7, <1>8, ConcatProperties
<1>10. f = w => Len(b) = 0 /\ a \o b = a
    BY <1>1, <1>5, <1>6, ConcatEmptySeq
<1>11. f > w => Len(b) = f - (w + 1)
    BY <1>1, <1>6
<1> QED BY <1>2, <1>6, <1>9, <1>10, <1>11 DEF p, w, f, a

-----------------------------------------------------------------------------
(***************************************************************************)
(* What both conversions should give.                                      *)
(***************************************************************************)
HexMantissa(s) ==
    Unsigned(Spelled(DigitValues(s, AfterSign(s, 0) + 2, Len(s)), 16), LongBits)

Mantissa(s) == Unsigned(Spelled(AllDigits(s), 10), LongBits)

ExponentStart(s) == AfterSign(s, FractionStop(s) + 1)

ExponentFits(s) == ExponentDigits(s) + Len(FractionDigits(s)) \in SignedInt(IntBits)

Places(s) == ExponentOf(s) - Len(FractionDigits(s))

Short(s) == InRange(AllDigits(s), LongBits) /\ Representable(s)

HexNumber(s) == IsHex(s, AfterSign(s, 0)) /\ ~NotFinite(s, AfterSign(s, 0))

Plain(s) == IsDecimal(s) /\ WholeStop(s) = Len(s)

\* Without an exponent the point moves by the places behind it.
LEMMA NoExponentWritten ==
    ASSUME NEW s, IsNumber(s), IsDecimal(s), FractionStop(s) = Len(s)
    PROVE  /\ ExponentDigits(s) = 0
           /\ Places(s) = -Len(FractionDigits(s))
<1>1. DigitsEnd(s) = Len(s) /\ Len(s) \in Nat /\ s \in Seq(Byte)
    BY DecimalParts
<1>2. AfterSign(s, Len(s) + 1) = Len(s) + 1 /\ ~ByteIn(s, Len(s) + 1, {Minus})
    BY <1>1 DEF AfterSign, ByteIn
<1>3. DigitValues(s, Len(s) + 1, Len(s)) = <<>>
    BY <1>1, DigitValuesFacts
<1>4. Spelled(<<>>, 10) = 0
    BY SpelledAppend
<1>5. ExponentDigits(s) = 0
    BY <1>1, <1>2, <1>3, <1>4 DEF ExponentDigits
<1>6. ExponentOf(s) = 0
    BY <1>1, <1>2, <1>5 DEF ExponentOf, Negated
<1>7. Len(FractionDigits(s)) \in Nat
    BY DecimalDigits
<1> QED BY <1>5, <1>6, <1>7 DEF Places

\* Digits alone have no exponent and no places behind the point.
LEMMA PlainFacts ==
    ASSUME NEW s, IsNumber(s), Plain(s)
    PROVE  /\ Places(s) = 0 /\ ExponentFits(s)
           /\ FractionStop(s) = Len(s)
           /\ AllDigits(s) = DigitValues(s, AfterSign(s, 0), Len(s))
<1>1. IsDecimal(s) /\ WholeStop(s) = Len(s)
    BY DEF Plain
<1>2. /\ FractionStop(s) \in Nat /\ WholeStop(s) <= FractionStop(s)
      /\ FractionStop(s) <= Len(s) /\ Len(s) \in Nat
    BY <1>1, DecimalParts
<1>3. FractionStop(s) = Len(s)
    BY <1>1, <1>2
<1>4. /\ Len(FractionDigits(s)) = 0
      /\ AllDigits(s) = DigitValues(s, AfterSign(s, 0), WholeStop(s))
    BY <1>1, <1>3, DecimalDigits
<1>5. ExponentDigits(s) = 0 /\ Places(s) = 0
    BY <1>1, <1>3, <1>4, NoExponentWritten
<1>6. 0 \in SignedInt(IntBits)
    BY Casts
<1> QED BY <1>1, <1>3, <1>4, <1>5, <1>6 DEF ExponentFits

\* A decimal that is not only digits has a point or an exponent.
LEMMA NotPlain ==
    ASSUME NEW s, IsNumber(s), IsDecimal(s), WholeStop(s) # Len(s)
    PROVE  ~IsInteger(s)
<1> DEFINE w == WholeStop(s)
<1>1. w \in Nat /\ w < Len(s) /\ Len(s) \in Nat /\ s \in Seq(Byte)
    BY DecimalParts
<1>2. s[w + 1] \in {46, 69, 101}
    <2>1. CASE ByteIn(s, w, {Dot})
        BY <2>1 DEF ByteIn, Dot
    <2>2. CASE ~ByteIn(s, w, {Dot})
        <3>1. FractionStop(s) = w /\ ScanExponent(s, FractionStop(s)) = Scanned(Len(s))
            BY <2>2, DecimalShape
        <3> HIDE DEF w
        <3>2. w <= Len(s)
            BY <1>1
        <3> QED BY <1>1, <3>1, <3>2, ExponentShape
    <2> QED BY <2>1, <2>2
<1>3. w + 1 \in 1..Len(s)
    BY <1>1
<1> QED BY <1>2, <1>3 DEF IsInteger, IsDecimal

\* Digits alone are an integer, and so is a hexadecimal.
LEMMA PlainIsInteger ==
    ASSUME NEW s, IsNumber(s), Plain(s) \/ HexNumber(s)
    PROVE  IsInteger(s)
<1>1. CASE HexNumber(s)
    BY <1>1 DEF HexNumber, IsInteger
<1>2. CASE Plain(s)
    <2>1. IsDecimal(s) /\ WholeStop(s) = Len(s)
        BY <1>2 DEF Plain
    <2>2. /\ AfterSign(s, 0) \in Nat /\ Len(s) \in Nat
          /\ \A k \in AfterSign(s, 0)..(Len(s) - 1) : s[k + 1] \in Digit
        BY <2>1, DecimalParts
    <2>3. ASSUME NEW k \in 1..Len(s) PROVE s[k] \notin {46, 69, 101}
        <3>1. CASE k - 1 \in AfterSign(s, 0)..(Len(s) - 1)
            <4>1. s[(k - 1) + 1] \in Digit /\ (k - 1) + 1 = k
                BY <2>2, <3>1
            <4> QED BY <4>1 DEF Digit
        <3>2. CASE k - 1 \notin AfterSign(s, 0)..(Len(s) - 1)
            <4>1. AfterSign(s, 0) # 0 /\ k = 1
                <5>1. k - 1 < AfterSign(s, 0)
                    BY <2>2, <3>2
                <5>2. AfterSign(s, 0) <= 1
                    BY DEF AfterSign
                <5> QED BY <2>2, <5>1, <5>2
            <4>2. ByteIn(s, 0, {Plus, Minus})
                BY <4>1 DEF AfterSign
            <4> QED BY <4>1, <4>2 DEF ByteIn, Plus, Minus
        <3> QED BY <3>1, <3>2
    <2> QED BY <2>1, <2>3 DEF IsInteger, IsDecimal
<1> QED BY <1>1, <1>2

\* Whatever is kept as an integer is the signed mantissa, negated and cast.
LEMMA StoredInteger ==
    ASSUME NEW s, IsNumber(s), Stored(s).integral
    PROVE  /\ HexNumber(s) \/ Plain(s)
           /\ HexNumber(s) => Stored(s).integer =
                 Signed(Negated(IsNegative(s), Signed(HexMantissa(s), LongBits)), LongBits)
           /\ Plain(s) => Stored(s).integer =
                 Signed(Negated(IsNegative(s), Signed(Mantissa(s), LongBits)), LongBits)
<1> DEFINE p == AfterSign(s, 0)
<1>1. ~Double.integral /\ \A n : Integer(n).integral /\ Integer(n).integer = n
    BY DEF Double, Integer
<1>2. CASE HexNumber(s)
    <2>1. Stored(s) = StoredHex(s, p)
        BY <1>2 DEF Stored, HexNumber
    <2>2. Stored(s).integer =
             Signed(Negated(IsNegative(s), Signed(HexMantissa(s), LongBits)), LongBits)
        BY <1>1, <2>1 DEF StoredHex, HexMantissa
    <2> QED BY <1>2, <2>2 DEF HexNumber, Plain, IsDecimal
<1>3. CASE ~HexNumber(s)
    <2>1. IsDecimal(s) /\ Stored(s) = StoredDecimal(s, p)
        BY <1>1, <1>3 DEF Stored, HexNumber, IsDecimal
    <2> DEFINE n == Negated(IsNegative(s), Spelled(DigitValues(s, p, Len(s)), 10))
    <2>2. IntegerEnd(s, p) = Len(s) /\ n \in SignedInt(LongBits) /\ Stored(s).integer = n
        BY <1>1, <2>1 DEF StoredDecimal
    <2>3. Plain(s)
        BY <2>1, <2>2 DEF Plain, WholeStop
    <2>4. AllDigits(s) = DigitValues(s, p, Len(s)) /\ AllDigits(s) \in Seq(Nat)
        BY <2>1, <2>3, PlainFacts, DecimalDigits
    <2>5. PICK v \in Nat : v = Spelled(AllDigits(s), 10)
        BY <2>4, SpelledAppend
    <2>6. n = Negated(IsNegative(s), v)
        BY <2>4, <2>5
    <2>7. Signed(Mantissa(s), LongBits) = Signed(v, LongBits)
        BY <2>5, CastFacts DEF Mantissa
    <2> HIDE DEF n
    <2>8. n = Signed(Negated(IsNegative(s), Signed(v, LongBits)), LongBits)
        <3>1. CASE v \in SignedInt(LongBits)
            <4>1. Signed(v, LongBits) = v /\ n \in Int
                BY <2>5, <2>6, <3>1, CastFacts DEF Negated
            <4> QED BY <2>2, <2>6, <4>1, CastFacts
        <3>2. CASE v \notin SignedInt(LongBits)
            <4>1. IsNegative(s) /\ n = -v
                BY <2>2, <2>6, <3>2 DEF Negated
            <4>2. v = 2 ^ (LongBits - 1)
                BY <2>2, <2>5, <3>2, <4>1, SignedRange
            <4>3. Signed(v, LongBits) = -v
                BY <2>5, <4>2, CastFacts
            <4>4. Negated(IsNegative(s), Signed(v, LongBits)) = v
                BY <2>5, <4>1, <4>3 DEF Negated
            <4> QED BY <4>1, <4>3, <4>4
        <3> QED BY <3>1, <3>2
    <2> QED BY <1>3, <2>2, <2>3, <2>7, <2>8
<1> QED BY <1>2, <1>3

\* Whatever is not kept as an integer is none, or has too many digits.
LEMMA StoredDoubleIsNoInteger ==
    ASSUME NEW s, IsNumber(s), ~Stored(s).integral
    PROVE  ~IsInteger(s) \/ ~InRange(AllDigits(s), LongBits)
<1> DEFINE p == AfterSign(s, 0)
<1>1. \A n : Integer(n).integral
    BY DEF Integer
<1>2. CASE NotFinite(s, p)
    BY <1>2 DEF IsInteger
<1>3. CASE ~NotFinite(s, p) /\ IsHex(s, p)
    BY <1>1, <1>3 DEF Stored, StoredHex
<1>4. CASE ~NotFinite(s, p) /\ ~IsHex(s, p)
    <2> DEFINE n == Negated(IsNegative(s), Spelled(DigitValues(s, p, Len(s)), 10))
    <2>1. IsDecimal(s) /\ ~(WholeStop(s) = Len(s) /\ n \in SignedInt(LongBits))
        BY <1>1, <1>4 DEF IsDecimal, Stored, StoredDecimal, WholeStop
    <2>2. CASE WholeStop(s) # Len(s)
        BY <2>1, <2>2, NotPlain
    <2>3. CASE WholeStop(s) = Len(s)
        <3>1. AllDigits(s) = DigitValues(s, p, Len(s)) /\ AllDigits(s) \in Seq(Nat)
            BY <2>1, <2>3, PlainFacts, DecimalDigits DEF Plain
        <3>2. PICK v \in Nat : v = Spelled(AllDigits(s), 10)
            BY <3>1, SpelledAppend
        <3>3. Negated(IsNegative(s), v) \notin SignedInt(LongBits)
            BY <2>1, <2>3, <3>1, <3>2
        <3>4. v \notin SignedInt(LongBits)
            BY <3>2, <3>3, SignedRange DEF Negated
        <3> QED BY <3>1, <3>2, <3>4, InRangeSpelled
    <2> QED BY <2>2, <2>3
<1> QED BY <1>2, <1>3, <1>4

\* Where a signed number overflows when it is negated, it is the least one.
LEMMA NegationOverflows ==
    ASSUME NEW minus \in BOOLEAN, NEW x \in SignedInt(LongBits)
    PROVE  /\ Negated(minus, x) \in Int
           /\ Negated(minus, x) \notin SignedInt(LongBits) =>
                 Signed(Negated(minus, x), LongBits) = -(2 ^ (LongBits - 1))
<1>1. PICK h \in Nat \ {0} : h = 2 ^ (LongBits - 1) /\ SignedInt(LongBits) = (-h)..(h - 1)
    BY PowersAssumption DEF SignedInt
<1>2. Negated(minus, x) \in Int
    BY <1>1 DEF Negated
<1>3. Negated(minus, x) \notin SignedInt(LongBits) => Negated(minus, x) = h
    BY <1>1 DEF Negated
<1>4. Signed(h, LongBits) = -h
    BY <1>1, CastFacts
<1> QED BY <1>1, <1>2, <1>3, <1>4

-----------------------------------------------------------------------------
(***************************************************************************)
(* The second invariant: what the locals hold is the value of the digits   *)
(* that have been passed, wrapped around, and while an integer is scaled   *)
(* the value of the digits with the point moved that far.                  *)
(***************************************************************************)
Started == /\ pc # "start" => negative = IsNegative(spelling)
           /\ pc \in {"start", "hex", "whole", "fraction"} => exp_value = 0
           /\ pc = "start" => mantissa = 0

Accumulated ==
    LET s == spelling
        p == AfterSign(s, 0)
        w == WholeStop(s)
        f == FractionStop(s)
    IN  /\ pc = "hex" =>
              /\ HexNumber(s)
              /\ i \in (p + 2)..Len(s)
              /\ mantissa = Unsigned(Spelled(DigitValues(s, p + 2, i), 16), LongBits)
        /\ pc = "whole" =>
              mantissa = Unsigned(Spelled(DigitValues(s, p, i), 10), LongBits)
        /\ pc = "fraction" =>
              /\ mantissa = Unsigned(Spelled(DigitsTo(s, i), 10), LongBits)
              /\ exponent10 = w + 1 - i
        /\ pc = "exponent" =>
              /\ IsDecimal(s) /\ ByteIn(s, f, {69, 101})
              /\ mantissa = Mantissa(s)
              /\ exponent10 = -Len(FractionDigits(s))
              /\ exp_negative = ByteIn(s, f + 1, {Minus})
              /\ i \in ExponentStart(s)..Len(s)
              /\ ExponentFits(s) =>
                    exp_value = Spelled(DigitValues(s, ExponentStart(s), i), 10)
        /\ pc = "convert" =>
              \/ HexNumber(s) /\ exponent10 = 0 /\ mantissa = HexMantissa(s)
              \/ /\ IsDecimal(s) /\ mantissa = Mantissa(s)
                 /\ ExponentFits(s) => exponent10 = Places(s)

Scaling ==
    pc = "scale" /\ ~floating =>
        /\ Stored(spelling).integral =>
              /\ exponent10 = 0
              /\ Stored(spelling).integer = Signed(Negated(negative, value), LongBits)
        /\ Short(spelling) =>
              /\ exponent10 \in 0..Places(spelling) \cup Places(spelling)..0
              /\ value = Spelled(Moved(AllDigits(spelling), Places(spelling) - exponent10), 10)

Outcome ==
    /\ Stored(spelling).integral =>
          /\ pc = "done" => value = To(Stored(spelling))
          /\ pc = "refused" => Stored(spelling).integer = -(2 ^ (LongBits - 1))
    /\ Short(spelling) => /\ pc # "refused"
                          /\ pc = "done" => value = Truncation(spelling)

Computing == Started /\ Accumulated /\ Scaling /\ Outcome

-----------------------------------------------------------------------------
\* No digits have been read.
LEMMA NoDigits ==
    ASSUME NEW s \in Seq(Byte), NEW p \in Nat, p <= Len(s), NEW base \in Nat
    PROVE  /\ DigitValues(s, p, p) = <<>> /\ Spelled(DigitValues(s, p, p), base) = 0
           /\ Unsigned(Spelled(DigitValues(s, p, p), base), LongBits) = 0
<1>1. DigitValues(s, p, p) = <<>>
    <2>1. \A k \in p..(p - 1) : s[k + 1] \in HexDigit
        OBVIOUS
    <2> QED BY <2>1, DigitValuesFacts
<1>2. PICK h \in Nat \ {0} : 2 ^ LongBits = h
    BY PowersAssumption
<1>3. Spelled(<<>>, base) = 0
    BY SpelledAppend
<1> QED BY <1>1, <1>2, <1>3 DEF Unsigned

\* The mantissa takes a digit in.
LEMMA AppendedDigit ==
    ASSUME NEW base \in {10, 16}, NEW d \in Seq(Nat), HexVal(spelling[i + 1]) \in Nat,
           mantissa = Unsigned(Spelled(d, base), LongBits)
    PROVE  Appended(base)
              = Unsigned(Spelled(Append(d, HexVal(spelling[i + 1])), base), LongBits)
<1>1. PICK x \in Nat : x = HexVal(spelling[i + 1])
    OBVIOUS
<1>2. PICK v \in Nat : v = Spelled(d, base)
    BY SpelledAppend
<1>3. Spelled(Append(d, x), base) = base * v + x
    <2>1. base \in Nat
        OBVIOUS
    <2> QED BY <1>2, <2>1, SpelledAppend
<1>4. v \in Int /\ x \in Int /\ base \in Int
    OBVIOUS
<1>5. Unsigned(base * Unsigned(v, LongBits) + x, LongBits) = Unsigned(base * v + x, LongBits)
    BY <1>4, CastFacts
<1> QED BY <1>1, <1>2, <1>3, <1>5 DEF Appended

\* A number that is refused is neither short nor kept as an integer, with one exception.
LEMMA RefuseComputes ==
    ASSUME Computing, Refuse, UNCHANGED floating, pc # "start", ~Short(spelling),
           Stored(spelling).integral => Stored(spelling).integer = -(2 ^ (LongBits - 1))
    PROVE  Computing'
<1>1. /\ pc' = "refused" /\ spelling' = spelling /\ negative' = negative
    BY DEF Refuse, signs
<1> QED BY <1>1 DEF Computing, Started, Accumulated, Scaling, Outcome

\* Words are not kept as integers and are not short.
LEMMA ReadSignComputes ==
    ASSUME Converting, Computing, ReadSign
    PROVE  Computing'
<1> DEFINE p == AfterSign(spelling, 0)
<1>1. /\ IsNumber(spelling) /\ p \in Nat /\ p <= Len(spelling) /\ Len(spelling) \in Nat
      /\ spelling \in Seq(Byte)
    BY NumberNotEmpty DEF Converting
<1>2. /\ spelling' = spelling /\ negative' = IsNegative(spelling) /\ exp_value' = 0
      /\ mantissa' = 0 /\ pc = "start"
    BY DEF ReadSign, digits, power, Computing, Started
<1>3. CASE NotFinite(spelling, p)
    <2>1. pc' = "done"
        BY <1>3 DEF ReadSign
    <2>2. ~Stored(spelling).integral
        BY <1>3 DEF Stored, Double
    <2>3. ~Short(spelling)
        BY <1>3 DEF Short, Representable, IsDecimal
    <2> QED BY <1>2, <2>1, <2>2, <2>3
        DEF Computing, Started, Accumulated, Scaling, Outcome
<1>4. CASE ~NotFinite(spelling, p) /\ IsHex(spelling, p)
    <2>1. pc' = "hex" /\ i' = p + 2
        BY <1>4 DEF ReadSign
    <2>2. p + 2 <= Len(spelling) /\ p + 2 \in Nat
        BY <1>1, <1>4, HexShape
    <2>3. i' \in (p + 2)..Len(spelling)
        BY <1>1, <2>1, <2>2
    <2>4. Unsigned(Spelled(DigitValues(spelling, p + 2, p + 2), 16), LongBits) = 0
        BY <1>1, <2>2, NoDigits
    <2>5. HexNumber(spelling)
        BY <1>4 DEF HexNumber
    <2> QED BY <1>2, <2>1, <2>3, <2>4, <2>5
        DEF Computing, Started, Accumulated, Scaling, Outcome
<1>5. CASE ~NotFinite(spelling, p) /\ ~IsHex(spelling, p)
    <2>1. pc' = "whole" /\ i' = p
        BY <1>5 DEF ReadSign
    <2>2. Unsigned(Spelled(DigitValues(spelling, p, p), 10), LongBits) = 0
        BY <1>1, NoDigits
    <2> QED BY <1>2, <2>1, <2>2
        DEF Computing, Started, Accumulated, Scaling, Outcome
<1> QED BY <1>3, <1>4, <1>5

LEMMA HexStepComputes ==
    ASSUME Converting, Computing, HexStep
    PROVE  Computing'
<1> DEFINE p == AfterSign(spelling, 0)
<1>1. /\ pc = "hex" /\ pc' = "hex" /\ spelling' = spelling /\ negative' = negative
      /\ exp_value' = exp_value /\ i' = i + 1 /\ mantissa' = Appended(16)
    BY DEF HexStep, signs, power
<1>2. /\ IsNumber(spelling) /\ p \in Nat /\ Len(spelling) \in Nat /\ spelling \in Seq(Byte)
    BY NumberNotEmpty DEF Converting
<1>3. /\ HexNumber(spelling) /\ i \in (p + 2)..Len(spelling)
      /\ mantissa = Unsigned(Spelled(DigitValues(spelling, p + 2, i), 16), LongBits)
    BY <1>1 DEF Computing, Accumulated
<1>4. i < Len(spelling)
    BY DEF HexStep
<1>5. p + 2 \in Nat /\ i \in Nat /\ p + 2 <= i
    BY <1>2, <1>3
<1>6. \A k \in (p + 2)..i : spelling[k + 1] \in HexDigit
    <2>1. \A k \in (p + 2)..(Len(spelling) - 1) : spelling[k + 1] \in HexDigit
        BY <1>2, <1>3, HexShape DEF HexNumber
    <2> QED BY <1>2, <1>4, <1>5, <2>1
<1>7. /\ DigitValues(spelling, p + 2, i) \in Seq(Nat)
      /\ HexVal(spelling[i + 1]) \in Nat
      /\ DigitValues(spelling, p + 2, i + 1)
            = Append(DigitValues(spelling, p + 2, i), HexVal(spelling[i + 1]))
    BY <1>2, <1>4, <1>5, <1>6, DigitValuesStep
<1>8. mantissa' = Unsigned(Spelled(DigitValues(spelling, p + 2, i + 1), 16), LongBits)
    BY <1>1, <1>3, <1>7, AppendedDigit
<1>9. i' \in (p + 2)..Len(spelling)
    BY <1>1, <1>2, <1>4, <1>5
<1> QED BY <1>1, <1>3, <1>8, <1>9
    DEF Computing, Started, Accumulated, Scaling, Outcome

LEMMA WholeDigitComputes ==
    ASSUME Converting, Computing, WholeDigit
    PROVE  Computing'
<1> DEFINE p == AfterSign(spelling, 0)
<1>1. /\ pc = "whole" /\ pc' = "whole" /\ spelling' = spelling /\ negative' = negative
      /\ exp_value' = exp_value /\ i' = i + 1 /\ mantissa' = Appended(10)
      /\ ByteIn(spelling, i, Digit)
    BY DEF WholeDigit, signs, power
<1>2. /\ IsNumber(spelling) /\ IsDecimal(spelling) /\ i \in p..WholeStop(spelling)
      /\ i < WholeStop(spelling)
    BY <1>1, InWhole
<1>3. /\ p \in Nat /\ WholeStop(spelling) \in Nat /\ WholeStop(spelling) <= Len(spelling)
      /\ Len(spelling) \in Nat /\ spelling \in Seq(Byte)
      /\ \A k \in p..(WholeStop(spelling) - 1) : spelling[k + 1] \in HexDigit
    <2>1. WholeStop(spelling) <= FractionStop(spelling) /\ FractionStop(spelling) <= Len(spelling)
        BY <1>2, DecimalParts
    <2>2. /\ p \in Nat /\ WholeStop(spelling) \in Nat /\ FractionStop(spelling) \in Nat
          /\ Len(spelling) \in Nat /\ spelling \in Seq(Byte)
          /\ \A k \in p..(WholeStop(spelling) - 1) : spelling[k + 1] \in HexDigit
        BY <1>2, DecimalParts, DigitVal
    <2> QED BY <2>1, <2>2
<1>4. i \in Nat /\ p <= i /\ i < Len(spelling)
    BY <1>2, <1>3
<1>5. \A k \in p..i : spelling[k + 1] \in HexDigit
    BY <1>2, <1>3, <1>4
<1>6. /\ DigitValues(spelling, p, i) \in Seq(Nat)
      /\ HexVal(spelling[i + 1]) \in Nat
      /\ DigitValues(spelling, p, i + 1)
            = Append(DigitValues(spelling, p, i), HexVal(spelling[i + 1]))
    BY <1>3, <1>4, <1>5, DigitValuesStep
<1>7. mantissa = Unsigned(Spelled(DigitValues(spelling, p, i), 10), LongBits)
    BY <1>1 DEF Computing, Accumulated
<1>8. mantissa' = Unsigned(Spelled(DigitValues(spelling, p, i + 1), 10), LongBits)
    BY <1>1, <1>6, <1>7, AppendedDigit
<1> QED BY <1>1, <1>8
    DEF Computing, Started, Accumulated, Scaling, Outcome

LEMMA PointComputes ==
    ASSUME Converting, Computing, Point
    PROVE  Computing'
<1> DEFINE p == AfterSign(spelling, 0)
<1>1. /\ pc = "whole" /\ pc' = "fraction" /\ spelling' = spelling /\ negative' = negative
      /\ exp_value' = exp_value /\ i' = i + 1 /\ mantissa' = mantissa
      /\ exponent10' = exponent10 /\ ByteIn(spelling, i, {Dot})
    BY DEF Point, signs, power, digits
<1>2. ~ByteIn(spelling, i, Digit)
    BY <1>1 DEF ByteIn, Dot, Digit
<1>3. /\ IsNumber(spelling) /\ IsDecimal(spelling) /\ i = WholeStop(spelling)
      /\ exponent10 = 0 /\ WholeStop(spelling) \in Nat
    BY <1>1, <1>2, InWhole
<1>4. mantissa = Unsigned(Spelled(DigitValues(spelling, p, i), 10), LongBits)
    BY <1>1 DEF Computing, Accumulated
<1>5. mantissa' = Unsigned(Spelled(DigitsTo(spelling, i + 1), 10), LongBits)
    BY <1>1, <1>3, <1>4, DigitsToStep
<1>6. exponent10' = WholeStop(spelling) + 1 - i'
    BY <1>1, <1>3
<1> QED BY <1>1, <1>5, <1>6
    DEF Computing, Started, Accumulated, Scaling, Outcome

\* Where the fraction has been read: what the shape of a decimal says there.
LEMMA InFraction ==
    ASSUME Converting, pc = "fraction"
    PROVE  /\ IsNumber(spelling) /\ IsDecimal(spelling)
           /\ i \in (WholeStop(spelling) + 1)..FractionStop(spelling)
           /\ ByteIn(spelling, i, Digit) => i < FractionStop(spelling)
           /\ ~ByteIn(spelling, i, Digit) => i = FractionStop(spelling)
           /\ WholeStop(spelling) \in Nat /\ FractionStop(spelling) \in Nat
           /\ FractionStop(spelling) <= Len(spelling) /\ Len(spelling) \in Nat
<1>1. /\ IsNumber(spelling) /\ IsDecimal(spelling)
      /\ ByteIn(spelling, WholeStop(spelling), {Dot})
      /\ i \in (WholeStop(spelling) + 1)..FractionStop(spelling)
    BY DEF Converting, Located
<1> QED BY <1>1, FractionStops, DecimalParts

LEMMA FractionDigitComputes ==
    ASSUME Converting, Computing, FractionDigit
    PROVE  Computing'
<1>1. /\ pc = "fraction" /\ pc' = "fraction" /\ spelling' = spelling /\ negative' = negative
      /\ exp_value' = exp_value /\ i' = i + 1 /\ mantissa' = Appended(10)
      /\ exponent10' = exponent10 - 1 /\ ByteIn(spelling, i, Digit)
    BY DEF FractionDigit, signs, power
<1>2. /\ IsNumber(spelling) /\ IsDecimal(spelling)
      /\ i \in (WholeStop(spelling) + 1)..FractionStop(spelling)
      /\ i < FractionStop(spelling)
      /\ WholeStop(spelling) \in Nat /\ FractionStop(spelling) \in Nat
    BY <1>1, InFraction
<1>3. i \in (WholeStop(spelling) + 1)..(FractionStop(spelling) - 1) /\ i \in Nat
    BY <1>2
<1>4. /\ DigitsTo(spelling, i) \in Seq(Nat) /\ HexVal(spelling[i + 1]) \in Nat
      /\ DigitsTo(spelling, i + 1) = Append(DigitsTo(spelling, i), HexVal(spelling[i + 1]))
    BY <1>2, <1>3, DigitsToStep
<1>5. /\ mantissa = Unsigned(Spelled(DigitsTo(spelling, i), 10), LongBits)
      /\ exponent10 = WholeStop(spelling) + 1 - i
    BY <1>1 DEF Computing, Accumulated
<1>6. mantissa' = Unsigned(Spelled(DigitsTo(spelling, i + 1), 10), LongBits)
    BY <1>1, <1>4, <1>5, AppendedDigit
<1>7. exponent10' = WholeStop(spelling) + 1 - i'
    BY <1>1, <1>2, <1>3, <1>5
<1> QED BY <1>1, <1>6, <1>7
    DEF Computing, Started, Accumulated, Scaling, Outcome

\* Where the digits end: the mantissa is that of all of them.
LEMMA DigitsRead ==
    ASSUME Converting, Computing, pc \in {"whole", "fraction"}, i = FractionStop(spelling)
    PROVE  /\ IsNumber(spelling) /\ IsDecimal(spelling)
           /\ mantissa = Mantissa(spelling)
           /\ exponent10 = -Len(FractionDigits(spelling))
<1> DEFINE w == WholeStop(spelling)
           f == FractionStop(spelling)
<1>1. CASE pc = "whole"
    <2>1. /\ IsNumber(spelling) /\ IsDecimal(spelling) /\ i \in AfterSign(spelling, 0)..w
          /\ exponent10 = 0
        BY <1>1, InWhole
    <2>2. w \in Nat /\ f \in Nat /\ w <= f /\ AfterSign(spelling, 0) \in Nat
        BY <2>1, DecimalParts
    <2>3. f = w
        BY <2>1, <2>2
    <2>4. /\ Len(FractionDigits(spelling)) = 0
          /\ AllDigits(spelling) = DigitValues(spelling, AfterSign(spelling, 0), i)
        BY <2>1, <2>3, DecimalDigits
    <2>5. mantissa = Unsigned(Spelled(DigitValues(spelling, AfterSign(spelling, 0), i), 10),
                              LongBits)
        BY <1>1 DEF Computing, Accumulated
    <2>6. mantissa = Mantissa(spelling)
        BY <2>4, <2>5 DEF Mantissa
    <2>7. exponent10 = -Len(FractionDigits(spelling))
        <3>1. PICK x \in Int, l \in Int :
                 x = exponent10 /\ l = Len(FractionDigits(spelling)) /\ x + l = 0
            BY <2>1, <2>4
        <3>2. x = -l
            BY <3>1
        <3> QED BY <3>1, <3>2
    <2> QED BY <2>1, <2>6, <2>7
<1>2. CASE pc = "fraction"
    <2>1. /\ IsNumber(spelling) /\ IsDecimal(spelling) /\ w \in Nat /\ f \in Nat
          /\ i \in (w + 1)..f
        BY <1>2, InFraction
    <2>2. Len(FractionDigits(spelling)) = f - (w + 1)
        BY <2>1, DecimalDigits
    <2>3. AllDigits(spelling) = DigitsTo(spelling, i)
        BY <2>1, DecimalParts
    <2>4. /\ mantissa = Unsigned(Spelled(DigitsTo(spelling, i), 10), LongBits)
          /\ exponent10 = w + 1 - i
        BY <1>2 DEF Computing, Accumulated
    <2> QED BY <2>1, <2>2, <2>3, <2>4 DEF Mantissa
<1> QED BY <1>1, <1>2

LEMMA OpenExponentComputes ==
    ASSUME Converting, Computing, OpenExponent
    PROVE  Computing'
<1> DEFINE f == FractionStop(spelling)
           d == ExponentStart(spelling)
<1>1. /\ pc \in {"whole", "fraction"} /\ pc' = "exponent" /\ spelling' = spelling
      /\ negative' = negative /\ exp_value' = exp_value /\ mantissa' = mantissa
      /\ exponent10' = exponent10 /\ i' = AfterSign(spelling, i + 1)
      /\ exp_negative' = ByteIn(spelling, i + 1, {Minus})
      /\ ByteIn(spelling, i, {69, 101})
    BY DEF OpenExponent, signs, digits
<1>2. i = f
    <2>1. ~ByteIn(spelling, i, Digit)
        BY <1>1 DEF ByteIn, Digit
    <2> QED BY <1>1, <2>1, InWhole, InFraction
<1>3. /\ IsNumber(spelling) /\ IsDecimal(spelling) /\ mantissa = Mantissa(spelling)
      /\ exponent10 = -Len(FractionDigits(spelling))
    BY <1>1, <1>2, DigitsRead
<1>4. /\ d \in Nat /\ d < Len(spelling) /\ f \in Nat
    BY <1>1, <1>2, <1>3, ExponentDigitsFollow DEF ExponentStart
<1>5. Len(spelling) \in Nat /\ spelling \in Seq(Byte)
    BY <1>3, NumberNotEmpty
<1>6. i' = d /\ i' \in d..Len(spelling)
    BY <1>1, <1>2, <1>4, <1>5 DEF ExponentStart
<1>7. exp_value = 0
    BY <1>1 DEF Computing, Started
<1>8. Spelled(DigitValues(spelling, d, d), 10) = 0
    <2> HIDE DEF d
    <2>1. d <= Len(spelling)
        BY <1>4, <1>5
    <2> QED BY <1>4, <1>5, <2>1, NoDigits
<1> QED BY <1>1, <1>2, <1>3, <1>6, <1>7, <1>8
    DEF Computing, Started, Accumulated, Scaling, Outcome

\* In the exponent: its digits go to the end, and more of them make it no less.
LEMMA InExponent ==
    ASSUME Converting, Computing, pc = "exponent"
    PROVE  LET s == spelling
               d == ExponentStart(s)
           IN  /\ IsNumber(s) /\ s \in Seq(Byte) /\ Len(s) \in Nat
               /\ IsDecimal(s) /\ mantissa = Mantissa(s)
               /\ exponent10 = -Len(FractionDigits(s)) /\ Len(FractionDigits(s)) \in Nat
               /\ d \in Nat /\ i \in Nat /\ d <= i /\ i <= Len(s)
               /\ \A k \in d..(Len(s) - 1) : s[k + 1] \in HexDigit
               /\ ExponentDigits(s) = Spelled(DigitValues(s, d, Len(s)), 10)
               /\ ExponentDigits(s) \in Nat
               /\ ExponentOf(s) = Negated(exp_negative, ExponentDigits(s))
               /\ ExponentFits(s) => exp_value = Spelled(DigitValues(s, d, i), 10)
               /\ ExponentFits(s) => ExponentDigits(s) \in SignedInt(IntBits)
               /\ ~Stored(s).integral
<1> DEFINE s == spelling
           f == FractionStop(s)
           d == ExponentStart(s)
<1>1. /\ IsDecimal(s) /\ ByteIn(s, f, {69, 101}) /\ mantissa = Mantissa(s)
      /\ exponent10 = -Len(FractionDigits(s))
      /\ exp_negative = ByteIn(s, f + 1, {Minus})
      /\ i \in d..Len(s)
      /\ ExponentFits(s) => exp_value = Spelled(DigitValues(s, d, i), 10)
    BY DEF Computing, Accumulated
<1>2. IsNumber(s) /\ s \in Seq(Byte) /\ Len(s) \in Nat
    BY NumberNotEmpty DEF Converting
<1>3. d \in Nat /\ \A k \in d..(Len(s) - 1) : s[k + 1] \in HexDigit
    BY <1>1, <1>2, ExponentDigitsFollow, DigitVal DEF ExponentStart
<1>4. DigitsEnd(s) = f /\ Len(FractionDigits(s)) \in Nat
    BY <1>1, <1>2, DecimalParts, DecimalDigits
<1>5. /\ ExponentDigits(s) = Spelled(DigitValues(s, d, Len(s)), 10)
      /\ ExponentOf(s) = Negated(exp_negative, ExponentDigits(s))
    BY <1>1, <1>4 DEF ExponentDigits, ExponentOf, ExponentStart
<1>6. ExponentDigits(s) \in Nat
    <2> HIDE DEF d
    <2>1. Len(s) <= Len(s)
        BY <1>2
    <2>2. DigitValues(s, d, Len(s)) \in Seq(Nat)
        BY <1>2, <1>3, <2>1, DigitValuesFacts
    <2> QED BY <1>5, <2>2, SpelledAppend
<1>7. ASSUME ExponentFits(s) PROVE ExponentDigits(s) \in SignedInt(IntBits)
    <2>1. PICK a \in Nat, b \in Nat : a = ExponentDigits(s) /\ b = Len(FractionDigits(s))
        BY <1>4, <1>6
    <2>2. a + b \in SignedInt(IntBits) /\ a <= a + b /\ a + b \in Nat
        BY <1>7, <2>1 DEF ExponentFits
    <2>3. a \in SignedInt(IntBits)
        BY <2>2, SignedRange
    <2> QED BY <2>1, <2>3
<1>8. ~Stored(s).integral
    <2>1. f < Len(s)
        BY <1>1 DEF ByteIn
    <2>2. Plain(s) => f = Len(s)
        BY <1>2, PlainFacts
    <2>3. ~HexNumber(s)
        BY <1>1 DEF HexNumber, IsDecimal
    <2> HIDE DEF f, s
    <2>4. ~Plain(s)
        BY <1>2, <2>1, <2>2
    <2> QED BY <1>2, <2>3, <2>4, StoredInteger
<1>9. i \in Nat /\ d <= i /\ i <= Len(s)
    <2> HIDE DEF d
    <2> QED BY <1>1, <1>2, <1>3
<1> QED BY <1>1, <1>2, <1>3, <1>4, <1>5, <1>6, <1>7, <1>8, <1>9

\* An exponent that overflows is none that int has.
LEMMA ExponentDigitComputes ==
    ASSUME Converting, Computing, ExponentDigit, UNCHANGED floating
    PROVE  Computing'
<1> DEFINE s == spelling
           d == ExponentStart(s)
           n == 10 * exp_value + HexVal(s[i + 1])
<1>1. pc = "exponent" /\ i < Len(s)
    BY DEF ExponentDigit
<1>2. /\ IsNumber(s) /\ s \in Seq(Byte) /\ Len(s) \in Nat
      /\ IsDecimal(s) /\ d \in Nat /\ i \in Nat /\ d <= i
      /\ \A k \in d..(Len(s) - 1) : s[k + 1] \in HexDigit
      /\ ExponentDigits(s) = Spelled(DigitValues(s, d, Len(s)), 10)
      /\ ExponentDigits(s) \in Nat
      /\ ExponentFits(s) => exp_value = Spelled(DigitValues(s, d, i), 10)
      /\ ExponentFits(s) => ExponentDigits(s) \in SignedInt(IntBits)
      /\ ~Stored(s).integral
    BY <1>1, InExponent
<1> HIDE DEF d, s
<1>3. ASSUME ExponentFits(s)
      PROVE  n = Spelled(DigitValues(s, d, i + 1), 10) /\ n \in SignedInt(IntBits) /\ n \in Int
    <2>1. \A k \in d..i : s[k + 1] \in HexDigit
        BY <1>1, <1>2
    <2>2. /\ DigitValues(s, d, i) \in Seq(Nat) /\ HexVal(s[i + 1]) \in Nat
          /\ DigitValues(s, d, i + 1) = Append(DigitValues(s, d, i), HexVal(s[i + 1]))
        BY <1>1, <1>2, <2>1, DigitValuesStep
    <2>3. n = Spelled(DigitValues(s, d, i + 1), 10)
        <3>1. exp_value = Spelled(DigitValues(s, d, i), 10)
            BY <1>2, <1>3
        <3>2. PICK x \in Nat, e \in Seq(Nat) : x = HexVal(s[i + 1]) /\ e = DigitValues(s, d, i)
            BY <2>2
        <3>3. Spelled(Append(e, x), 10) = 10 * Spelled(e, 10) + x
            BY SpelledAppend
        <3> QED BY <2>2, <3>1, <3>2, <3>3
    <2>4. n <= ExponentDigits(s) /\ n \in Nat
        <3>1. i + 1 \in Nat /\ d <= i + 1 /\ i + 1 <= Len(s) /\ Len(s) <= Len(s)
            BY <1>1, <1>2
        <3>2. Spelled(DigitValues(s, d, i + 1), 10) <= Spelled(DigitValues(s, d, Len(s)), 10)
            BY <1>2, <3>1, DigitValuesPrefix
        <3>3. Append(DigitValues(s, d, i), HexVal(s[i + 1])) \in Seq(Nat)
            BY <2>2
        <3>4. Spelled(DigitValues(s, d, i + 1), 10) \in Nat
            BY <2>2, <3>3, SpelledAppend
        <3> QED BY <1>2, <2>3, <3>2, <3>4
    <2> HIDE DEF n
    <2>5. n \in SignedInt(IntBits)
        BY <1>2, <1>3, <2>4, SignedRange
    <2> QED BY <2>3, <2>4, <2>5
<1> HIDE DEF n
<1>4. CASE Refuse /\ n \notin SignedInt(IntBits)
    <2>1. ~Short(s)
        BY <1>3, <1>4 DEF Short, Representable, ExponentFits
    <2> QED BY <1>1, <1>2, <1>4, <2>1, RefuseComputes DEF s
<1>5. CASE ~(Refuse /\ n \notin SignedInt(IntBits))
    <2>1. /\ exp_value' = Signed(n, IntBits) /\ i' = i + 1 /\ pc' = "exponent"
          /\ spelling' = spelling /\ negative' = negative /\ mantissa' = mantissa
          /\ exponent10' = exponent10 /\ exp_negative' = exp_negative
        BY <1>1, <1>5 DEF ExponentDigit, Overflows, signs, digits, n, s
    <2>2. ExponentFits(s) => exp_value' = Spelled(DigitValues(s, d, i + 1), 10)
        BY <1>3, <2>1, CastFacts
    <2>3. i' \in d..Len(s)
        BY <1>1, <1>2, <2>1
    <2>4. /\ ByteIn(s, FractionStop(s), {69, 101}) /\ mantissa = Mantissa(s)
          /\ exponent10 = -Len(FractionDigits(s))
          /\ exp_negative = ByteIn(s, FractionStop(s) + 1, {Minus})
        BY <1>1 DEF Computing, Accumulated, s
    <2> QED BY <1>1, <1>2, <2>1, <2>2, <2>3, <2>4
        DEF Computing, Started, Accumulated, Scaling, Outcome, s, d
<1> QED BY <1>4, <1>5

\* The exponent and the places behind the point are added as ints: a sum that overflows
\* is of numbers whose magnitudes do not fit either.
LEMMA CloseExponentComputes ==
    ASSUME Converting, Computing, CloseExponent, UNCHANGED floating
    PROVE  Computing'
<1> DEFINE s == spelling
<1>1. pc = "exponent" /\ i = Len(s)
    BY DEF CloseExponent
<1>2. /\ IsDecimal(s) /\ mantissa = Mantissa(s)
      /\ exponent10 = -Len(FractionDigits(s)) /\ Len(FractionDigits(s)) \in Nat
      /\ ExponentDigits(s) \in Nat
      /\ ExponentOf(s) = Negated(exp_negative, ExponentDigits(s))
      /\ ExponentFits(s) => exp_value = ExponentDigits(s)
      /\ ~Stored(s).integral
    BY <1>1, InExponent
<1> HIDE DEF s
<1>3. ASSUME ExponentFits(s)
      PROVE  Shift = Places(s) /\ Shift \in SignedInt(IntBits) /\ Shift \in Int
    <2>1. PICK a \in Nat, b \in Nat : a = ExponentDigits(s) /\ b = Len(FractionDigits(s))
        BY <1>2
    <2>2. Shift = -b + Negated(exp_negative, a)
        BY <1>2, <1>3, <2>1 DEF Shift
    <2>3. Places(s) = Negated(exp_negative, a) - b
        BY <1>2, <2>1 DEF Places
    <2>4. a + b \in SignedInt(IntBits)
        BY <1>3, <2>1 DEF ExponentFits
    <2>5. PICK h \in Nat : SignedInt(IntBits) = (-h)..(h - 1)
        BY PowersAssumption DEF SignedInt
    <2>6. CASE exp_negative
        <3>1. Shift = -b + -a /\ Places(s) = -a - b
            BY <2>2, <2>3, <2>6 DEF Negated
        <3> QED BY <2>1, <2>4, <2>5, <3>1
    <2>7. CASE ~exp_negative
        <3>1. Shift = -b + a /\ Places(s) = a - b
            BY <2>2, <2>3, <2>7 DEF Negated
        <3> QED BY <2>1, <2>4, <2>5, <3>1
    <2> QED BY <2>6, <2>7
<1>4. CASE Refuse /\ Shift \notin SignedInt(IntBits)
    <2>1. ~Short(s)
        BY <1>3, <1>4 DEF Short, Representable, ExponentFits
    <2> QED BY <1>1, <1>2, <1>4, <2>1, RefuseComputes DEF s
<1>5. CASE ~(Refuse /\ Shift \notin SignedInt(IntBits))
    <2>1. /\ exponent10' = Signed(Shift, IntBits) /\ pc' = "convert"
          /\ spelling' = spelling /\ negative' = negative /\ mantissa' = mantissa
        BY <1>5 DEF CloseExponent, Overflows, signs, power
    <2>2. ExponentFits(s) => exponent10' = Places(s)
        BY <1>3, <2>1, CastFacts
    <2> QED BY <1>1, <1>2, <2>1, <2>2
        DEF Computing, Started, Accumulated, Scaling, Outcome, s
<1> QED BY <1>4, <1>5

LEMMA NoExponentComputes ==
    ASSUME Converting, Computing, NoExponent
    PROVE  Computing'
<1> DEFINE s == spelling
<1>1. /\ pc \in {"hex", "whole", "fraction"} /\ i = Len(s) /\ pc' = "convert"
      /\ spelling' = spelling /\ negative' = negative /\ mantissa' = mantissa
      /\ exponent10' = exponent10
    BY DEF NoExponent, signs, digits
<1>2. CASE pc = "hex"
    <2>1. HexNumber(s) /\ mantissa = HexMantissa(s) /\ exponent10 = 0
        BY <1>1, <1>2 DEF Converting, Counted, Computing, Accumulated, HexMantissa
    <2> QED BY <1>1, <2>1 DEF Computing, Started, Accumulated, Scaling, Outcome
<1>3. CASE pc \in {"whole", "fraction"}
    <2>1. IsNumber(s) /\ IsDecimal(s) /\ i <= FractionStop(s)
        <3>1. CASE pc = "whole"
            <4>1. /\ IsNumber(s) /\ IsDecimal(s) /\ i \in AfterSign(s, 0)..WholeStop(s)
                BY <3>1, InWhole
            <4>2. /\ WholeStop(s) \in Nat /\ FractionStop(s) \in Nat
                  /\ WholeStop(s) <= FractionStop(s) /\ AfterSign(s, 0) \in Nat
                BY <4>1, DecimalParts
            <4> HIDE DEF s
            <4> QED BY <4>1, <4>2
        <3>2. CASE pc = "fraction"
            <4>1. /\ IsNumber(s) /\ IsDecimal(s) /\ i \in (WholeStop(s) + 1)..FractionStop(s)
                  /\ WholeStop(s) \in Nat /\ FractionStop(s) \in Nat
                BY <3>2, InFraction
            <4> HIDE DEF s
            <4> QED BY <4>1
        <3> QED BY <1>3, <3>1, <3>2
    <2>2. FractionStop(s) \in Nat /\ FractionStop(s) <= Len(s) /\ Len(s) \in Nat
        BY <2>1, DecimalParts
    <2>3. i = FractionStop(s) /\ FractionStop(s) = Len(s)
        <3> HIDE DEF s
        <3> QED BY <1>1, <2>1, <2>2
    <2>4. mantissa = Mantissa(s) /\ exponent10 = -Len(FractionDigits(s))
        BY <1>3, <2>3, DigitsRead
    <2>5. Places(s) = -Len(FractionDigits(s))
        BY <2>1, <2>3, NoExponentWritten
    <2> QED BY <1>1, <2>1, <2>4, <2>5
        DEF Computing, Started, Accumulated, Scaling, Outcome
<1> QED BY <1>1, <1>2, <1>3

\* What follows the digits leaves the sign and the spelling alone.
LEMMA RestComputes ==
    ASSUME Computing, spelling' = spelling, negative' = negative, pc # "start",
           pc' \in {"scale", "done", "converted"}, Scaling', Outcome'
    PROVE  Computing'
BY DEF Computing, Started, Accumulated

\* An integer is the mantissa, cast; one whose digits fit is what the digits spell.
LEMMA ConvertComputes ==
    ASSUME Converting, Computing, Convert, UNCHANGED floating
    PROVE  Computing'
<1> DEFINE s == spelling
<1>1. /\ pc = "convert" /\ pc' = "scale" /\ spelling' = spelling /\ negative' = negative
      /\ exponent10' = exponent10 /\ value' = Signed(mantissa, LongBits)
    BY DEF Convert, signs, digits
<1>2. IsNumber(s) /\ negative = IsNegative(s)
    BY <1>1 DEF Converting, Computing, Started
<1>3. \/ HexNumber(s) /\ exponent10 = 0 /\ mantissa = HexMantissa(s)
      \/ /\ IsDecimal(s) /\ mantissa = Mantissa(s)
         /\ ExponentFits(s) => exponent10 = Places(s)
    BY <1>1 DEF Computing, Accumulated
<1>4. HexNumber(s) => ~IsDecimal(s) /\ ~Short(s) /\ ~Plain(s)
    BY DEF HexNumber, IsDecimal, Short, Representable, Plain
<1>5. ASSUME Stored(s).integral
      PROVE  exponent10 = 0 /\ Stored(s).integer = Signed(Negated(negative, value'), LongBits)
    <2>1. CASE HexNumber(s)
        BY <1>1, <1>2, <1>3, <1>4, <1>5, <2>1, StoredInteger
    <2>2. CASE Plain(s)
        <3>1. Places(s) = 0 /\ ExponentFits(s)
            BY <1>2, <2>2, PlainFacts
        <3> QED BY <1>1, <1>2, <1>3, <1>4, <1>5, <2>2, <3>1, StoredInteger
    <2> QED BY <1>2, <1>5, <2>1, <2>2, StoredInteger
<1>6. ASSUME Short(s)
      PROVE  /\ exponent10 \in 0..Places(s) \cup Places(s)..0
             /\ value' = Spelled(Moved(AllDigits(s), Places(s) - exponent10), 10)
    <2>1. IsDecimal(s) /\ mantissa = Mantissa(s) /\ exponent10 = Places(s)
        BY <1>3, <1>4, <1>6 DEF Short, Representable, ExponentFits
    <2>2. AllDigits(s) \in Seq(Nat)
        BY <1>2, <2>1, DecimalDigits
    <2>3. PICK v \in Nat : v = Spelled(AllDigits(s), 10)
        BY <2>2, SpelledAppend
    <2>4. v \in SignedInt(LongBits)
        BY <1>6, <2>2, <2>3, InRangeSpelled DEF Short
    <2>5. value' = v
        BY <1>1, <2>1, <2>3, <2>4, CastFacts DEF Mantissa
    <2>6. exponent10 \in Int
        BY Widths
    <2>7. Places(s) - exponent10 = 0 /\ exponent10 \in 0..Places(s) \cup Places(s)..0
        BY <2>1, <2>6
    <2>8. Moved(AllDigits(s), 0) = AllDigits(s)
        BY <2>2, MovedRight
    <2> QED BY <2>3, <2>5, <2>7, <2>8
<1>7. Scaling'
    BY <1>1, <1>5, <1>6 DEF Scaling
<1> QED BY <1>1, <1>7, RestComputes DEF Outcome

\* What a short number becomes on the way: never more than the whole digits or than
\* all of them.
LEMMA ScalingShort ==
    ASSUME Converting, Computing, pc = "scale", ~floating, Short(spelling)
    PROVE  LET s == spelling
               d == AllDigits(s)
           IN  /\ d \in Seq(0..9) /\ d \in Seq(Nat)
               /\ Places(s) \in Int /\ exponent10 \in Int
               /\ exponent10 \in 0..Places(s) \cup Places(s)..0
               /\ value = Spelled(Moved(d, Places(s) - exponent10), 10)
               /\ WholeDigits(s) = Moved(d, Places(s))
               /\ Spelled(WholeDigits(s), 10) \in Nat
               /\ Spelled(WholeDigits(s), 10) \in SignedInt(TargetBits)
               /\ Spelled(WholeDigits(s), 10) \in SignedInt(LongBits)
<1> DEFINE s == spelling
           d == AllDigits(s)
<1>1. /\ exponent10 \in 0..Places(s) \cup Places(s)..0
      /\ value = Spelled(Moved(d, Places(s) - exponent10), 10)
    BY DEF Computing, Scaling
<1>2. IsNumber(s) /\ IsDecimal(s) /\ InRange(WholeDigits(s), TargetBits) /\ exponent10 \in Int
    BY Widths DEF Converting, Short, Representable
<1>3. d \in Seq(0..9) /\ d \in Seq(Nat) /\ Len(FractionDigits(s)) \in Nat
    BY <1>2, DecimalDigits
<1>4. ExponentDigits(s) \in Nat
    <2> DEFINE e == AfterSign(s, FractionStop(s) + 1)
    <2>1. /\ DigitsEnd(s) = FractionStop(s) /\ s \in Seq(Byte) /\ Len(s) \in Nat
          /\ FractionStop(s) \in Nat /\ FractionStop(s) <= Len(s)
          /\ ScanExponent(s, FractionStop(s)) = Scanned(Len(s))
        BY <1>2, DecimalParts, DecimalShape
    <2>2. CASE FractionStop(s) = Len(s)
        <3>1. ExponentDigits(s) = 0
            BY <1>2, <2>2, NoExponentWritten
        <3> QED BY <3>1
    <2>3. CASE FractionStop(s) < Len(s)
        <3>1. e \in Nat /\ e < Len(s) /\ \A k \in e..(Len(s) - 1) : s[k + 1] \in HexDigit
            BY <2>1, <2>3, ExponentShape, DigitVal
        <3> HIDE DEF e
        <3>2. Len(s) <= Len(s)
            BY <2>1
        <3>3. DigitValues(s, e, Len(s)) \in Seq(Nat)
            BY <2>1, <3>1, <3>2, DigitValuesFacts
        <3>4. ExponentDigits(s) = Spelled(DigitValues(s, e, Len(s)), 10)
            BY <2>1 DEF ExponentDigits, e
        <3> QED BY <3>3, <3>4, SpelledAppend
    <2> QED BY <2>1, <2>2, <2>3
<1>5. Places(s) \in Int
    BY <1>3, <1>4 DEF Places, ExponentOf, Negated
<1>6. WholeDigits(s) = Moved(d, Places(s))
    BY DEF WholeDigits, Places
<1>7. WholeDigits(s) \in Seq(Nat)
    <2>1. CASE Places(s) >= 0
        BY <1>3, <1>5, <1>6, <2>1, MovedRight
    <2>2. CASE Places(s) < 0
        <3>1. PICK k \in Nat : Places(s) = -k
            <4>1. -Places(s) \in Nat /\ Places(s) = -(-Places(s))
                BY <1>5, <2>2
            <4> QED BY <4>1
        <3> QED BY <1>3, <1>6, <3>1, MovedLeft
    <2> QED BY <1>5, <2>1, <2>2
<1>8. Spelled(WholeDigits(s), 10) \in SignedInt(TargetBits)
    BY <1>2, <1>7, InRangeSpelled
<1>9. Spelled(WholeDigits(s), 10) \in Nat
    BY <1>7, SpelledAppend
<1>10. Spelled(WholeDigits(s), 10) \in SignedInt(LongBits)
    BY <1>8, <1>9, Casts
<1> QED BY <1>1, <1>2, <1>3, <1>5, <1>6, <1>8, <1>9, <1>10

\* A zero more, as long as there are to be more.
LEMMA ScaleUpComputes ==
    ASSUME Converting, Computing, ScaleUp, UNCHANGED floating, ~floating
    PROVE  Computing'
<1> DEFINE s == spelling
           d == AllDigits(s)
<1>1. pc = "scale" /\ exponent10 > 0
    BY DEF ScaleUp
<1>2. ~Stored(s).integral
    BY <1>1 DEF Computing, Scaling
<1>3. ASSUME Short(s)
      PROVE  /\ 10 * value \in SignedInt(LongBits) /\ 10 * value \in Int
             /\ exponent10 - 1 \in 0..Places(s) \cup Places(s)..0
             /\ 10 * value = Spelled(Moved(d, Places(s) - (exponent10 - 1)), 10)
    <2>1. /\ d \in Seq(Nat) /\ Places(s) \in Int /\ exponent10 \in Int
          /\ exponent10 \in 0..Places(s) \cup Places(s)..0
          /\ value = Spelled(Moved(d, Places(s) - exponent10), 10)
          /\ WholeDigits(s) = Moved(d, Places(s))
          /\ Spelled(WholeDigits(s), 10) \in Nat
          /\ Spelled(WholeDigits(s), 10) \in SignedInt(LongBits)
        BY <1>1, <1>3, ScalingShort
    <2> HIDE DEF d, s
    <2>2. PICK k \in Nat, n \in Nat :
             /\ k = Places(s) - exponent10 /\ n = Places(s) /\ k + 1 <= n
             /\ Places(s) - (exponent10 - 1) = k + 1
             /\ exponent10 - 1 \in 0..Places(s)
        BY <1>1, <2>1
    <2>3. Moved(d, k) \in Seq(Nat) /\ Moved(d, k + 1) = Append(Moved(d, k), 0)
        BY <2>1, MovedRight
    <2>4. PICK v \in Nat : v = value
        BY <2>1, <2>2, <2>3, SpelledAppend
    <2>5. Spelled(Moved(d, k + 1), 10) = 10 * v
        <3>1. PICK m \in Seq(Nat) : m = Moved(d, k)
            BY <2>3
        <3>2. Spelled(Append(m, 0), 10) = 10 * Spelled(m, 10) + 0
            BY SpelledAppend
        <3>3. Spelled(m, 10) = v
            BY <2>1, <2>2, <2>4, <3>1
        <3>4. Spelled(Append(m, 0), 10) = 10 * v
            BY <3>2, <3>3
        <3> QED BY <2>3, <3>1, <3>4
    <2>6. 10 * v <= Spelled(WholeDigits(s), 10)
        <3>1. k + 1 \in Nat
            OBVIOUS
        <3> QED BY <2>1, <2>2, <2>5, <3>1, MovedGrows
    <2>7. 10 * v \in SignedInt(LongBits)
        <3>1. 10 * v \in Nat
            OBVIOUS
        <3> QED BY <2>1, <2>6, <3>1, SignedRange
    <2> QED BY <2>2, <2>4, <2>5, <2>7
<1> HIDE DEF d, s
<1>4. CASE Refuse /\ Overflows(10 * value, LongBits)
    <2>1. ~Short(s)
        BY <1>3, <1>4 DEF Overflows
    <2> QED BY <1>1, <1>2, <1>4, <2>1, RefuseComputes DEF s
<1>5. CASE ~(Refuse /\ Overflows(10 * value, LongBits))
    <2>1. /\ value' = Signed(10 * value, LongBits) /\ exponent10' = exponent10 - 1
          /\ pc' = "scale" /\ spelling' = spelling /\ negative' = negative
        BY <1>1, <1>5 DEF ScaleUp, signs
    <2>2. Short(s) => value' = 10 * value
        BY <1>3, <2>1, CastFacts
    <2>3. Scaling'
        BY <1>2, <1>3, <2>1, <2>2 DEF Scaling, s, d
    <2> QED BY <1>1, <2>1, <2>3, RestComputes DEF Outcome
<1> QED BY <1>4, <1>5

\* The last digit is cut off.
LEMMA ScaleDownComputes ==
    ASSUME Converting, Computing, ScaleDown, UNCHANGED floating, ~floating
    PROVE  Computing'
<1> DEFINE s == spelling
           d == AllDigits(s)
<1>1. /\ pc = "scale" /\ exponent10 < 0 /\ value' = Quotient(value, 10)
      /\ exponent10' = exponent10 + 1
      /\ pc' = "scale" /\ spelling' = spelling /\ negative' = negative
    BY DEF ScaleDown, signs
<1>2. ~Stored(s).integral
    BY <1>1 DEF Computing, Scaling
<1>3. ASSUME Short(s)
      PROVE  /\ exponent10 + 1 \in 0..Places(s) \cup Places(s)..0
             /\ value' = Spelled(Moved(d, Places(s) - (exponent10 + 1)), 10)
    <2>1. /\ d \in Seq(0..9) /\ Places(s) \in Int /\ exponent10 \in Int
          /\ exponent10 \in 0..Places(s) \cup Places(s)..0
          /\ value = Spelled(Moved(d, Places(s) - exponent10), 10)
        BY <1>1, <1>3, ScalingShort
    <2> HIDE DEF d, s
    <2>2. PICK k \in Nat :
             /\ Places(s) - exponent10 = -k
             /\ Places(s) - (exponent10 + 1) = -(k + 1)
             /\ exponent10 + 1 \in Places(s)..0
        <3>1. exponent10 - Places(s) \in Nat /\ exponent10 + 1 \in Places(s)..0
            BY <1>1, <2>1
        <3>2. PICK k \in Nat : k = exponent10 - Places(s)
            BY <3>1
        <3>3. Places(s) - exponent10 = -k /\ Places(s) - (exponent10 + 1) = -(k + 1)
            BY <2>1, <3>2
        <3> QED BY <3>1, <3>3
    <2>3. /\ Moved(d, -k) \in Seq(Nat)
          /\ Spelled(Moved(d, -(k + 1)), 10) = Spelled(Moved(d, -k), 10) \div 10
        BY <2>1, MovedLeft
    <2>4. value \in Nat
        BY <2>1, <2>2, <2>3, SpelledAppend
    <2>5. value' = value \div 10
        BY <1>1, <2>4 DEF Quotient
    <2> QED BY <2>1, <2>2, <2>3, <2>5
<1>4. Scaling'
    BY <1>1, <1>2, <1>3 DEF Scaling
<1> QED BY <1>1, <1>4, RestComputes DEF Outcome

\* The sign is put back, and the number is cast to the type asked for.
LEMMA FinishComputes ==
    ASSUME Converting, Computing, Finish, UNCHANGED floating, ~floating
    PROVE  Computing'
<1> DEFINE s == spelling
           n == Negated(negative, value)
<1>1. pc = "scale" /\ exponent10 = 0
    BY DEF Finish
<1>2. /\ negative = IsNegative(s) /\ negative \in BOOLEAN /\ value \in SignedInt(LongBits)
    BY <1>1 DEF Computing, Started, Converting, NumbersTypeOK
<1>3. n \in Int /\ (n \notin SignedInt(LongBits) =>
                       Signed(n, LongBits) = -(2 ^ (LongBits - 1)))
    BY <1>2, NegationOverflows
<1>4. Stored(s).integral => Stored(s).integer = Signed(n, LongBits)
    BY <1>1 DEF Computing, Scaling
<1>5. ASSUME Short(s)
      PROVE  n = Truncation(s) /\ n \in SignedInt(TargetBits) /\ n \in SignedInt(LongBits)
    <2>1. /\ Places(s) \in Int
          /\ value = Spelled(Moved(AllDigits(s), Places(s) - exponent10), 10)
          /\ WholeDigits(s) = Moved(AllDigits(s), Places(s))
          /\ Spelled(WholeDigits(s), 10) \in Nat
          /\ Spelled(WholeDigits(s), 10) \in SignedInt(TargetBits)
        BY <1>1, <1>5, ScalingShort
    <2>2. Places(s) - exponent10 = Places(s)
        BY <1>1, <2>1
    <2>3. PICK v \in Nat : v = value /\ v = Spelled(WholeDigits(s), 10)
        BY <2>1, <2>2
    <2>4. n = Truncation(s)
        BY <1>2, <2>3 DEF Truncation
    <2>5. n \in SignedInt(TargetBits)
        BY <1>2, <2>1, <2>3, SignedRange DEF Negated
    <2> HIDE DEF n
    <2> QED BY <2>4, <2>5, Casts
<1> HIDE DEF n
<1>6. CASE Refuse /\ n \notin SignedInt(LongBits)
    <2>1. ~Short(s)
        BY <1>5, <1>6
    <2> QED BY <1>1, <1>3, <1>4, <1>6, <2>1, RefuseComputes
<1>7. CASE ~(Refuse /\ n \notin SignedInt(LongBits))
    <2>1. /\ value' = Signed(Signed(n, LongBits), TargetBits) /\ pc' = "done"
          /\ spelling' = spelling /\ negative' = negative
        BY <1>7 DEF Finish, Overflows, signs, n
    <2>2. Short(s) => value' = Truncation(s)
        BY <1>3, <1>5, <2>1, CastFacts
    <2>3. Stored(s).integral => value' = To(Stored(s))
        BY <1>4, <2>1 DEF To
    <2>4. Scaling' /\ Outcome'
        BY <2>1, <2>2, <2>3 DEF Scaling, Outcome
    <2> QED BY <1>1, <2>1, <2>4, RestComputes
<1> QED BY <1>6, <1>7

\* The branch for floating point touches none of the locals the invariant is about,
\* and refuses a hexadecimal only for the least number.
LEMMA ToFloatingComputes ==
    ASSUME Converting, Computing,
           FinishHexadecimal \/ ConvertMantissa \/ TimesTen \/ OverTen \/ FinishDecimal
    PROVE  Computing'
<1>1. floating /\ floating' = floating /\ spelling' = spelling /\ negative' = negative
      /\ pc \in {"convert", "scale"}
    BY DEF FinishHexadecimal, ConvertMantissa, TimesTen, OverTen, FinishDecimal,
           Refuse, signs
<1>2. CASE pc' \in {"scale", "converted"}
    BY <1>1, <1>2, RestComputes DEF Scaling, Outcome
<1>3. CASE FinishHexadecimal /\ pc' \notin {"scale", "converted"}
    <2> DEFINE s == spelling
               n == Negated(negative, Signed(mantissa, LongBits))
    <2>1. /\ Refuse /\ n \notin SignedInt(LongBits) /\ pc = "convert"
          /\ IsHex(s, AfterSign(s, 0))
        BY <1>3 DEF FinishHexadecimal, Overflows, Hexadecimal
    <2>2. HexNumber(s) /\ mantissa = HexMantissa(s) /\ ~Short(s)
        BY <2>1 DEF Computing, Accumulated, HexNumber, IsDecimal, Short, Representable
    <2>3. /\ IsNumber(s) /\ negative = IsNegative(s) /\ negative \in BOOLEAN
          /\ mantissa \in Int
        BY <2>1, Widths DEF Converting, NumbersTypeOK, Computing, Started
    <2>4. Signed(mantissa, LongBits) \in SignedInt(LongBits)
        BY <2>3, Casts
    <2>5. Signed(n, LongBits) = -(2 ^ (LongBits - 1))
        BY <2>1, <2>3, <2>4, NegationOverflows
    <2>6. Stored(s).integral => Stored(s).integer = -(2 ^ (LongBits - 1))
        BY <2>2, <2>3, <2>5, StoredInteger
    <2> QED BY <1>1, <2>1, <2>2, <2>6, RefuseComputes
<1>4. FinishHexadecimal \/ pc' \in {"scale", "converted"}
    BY DEF ConvertMantissa, TimesTen, OverTen, FinishDecimal
<1> QED BY <1>2, <1>3, <1>4

-----------------------------------------------------------------------------
LEMMA ReadComputes ==
    ASSUME Converting, Computing, Read, UNCHANGED floating
    PROVE  Computing'
BY ReadSignComputes, HexStepComputes, WholeDigitComputes, PointComputes,
   FractionDigitComputes, OpenExponentComputes, ExponentDigitComputes,
   CloseExponentComputes, NoExponentComputes DEF Read

LEMMA ComputingHolds == ToSpec => []Computing
<1>1. ToInit => Computing
    BY DEF ToInit, Begin, Computing, Started, Accumulated, Scaling, Outcome
<1>2. Converting /\ Computing /\ [ToNext]_toVars => Computing'
    <2>1. SUFFICES ASSUME Converting, Computing, [ToNext]_toVars PROVE Computing'
        OBVIOUS
    <2>2. CASE UNCHANGED toVars
        BY <2>1, <2>2 DEF toVars, vars, signs, digits, power, Computing, Started,
            Accumulated, Scaling, Outcome
    <2>3. CASE ReadWord
        BY <2>1, <2>3, ReadSignComputes DEF ReadWord
    <2>4. CASE ReadDigits
        BY <2>1, <2>4, ReadComputes DEF ReadDigits
    <2>5. CASE ConvertInteger
        BY <2>1, <2>5, ConvertComputes, ScaleUpComputes, ScaleDownComputes, FinishComputes
        DEF ConvertInteger, ToInteger
    <2>6. CASE FinishHexadecimal \/ ConvertMantissa \/ TimesTen \/ OverTen \/ FinishDecimal
        BY <2>1, <2>6, ToFloatingComputes
    <2>7. CASE Returned
        BY <2>2, <2>7 DEF Returned
    <2> QED BY <2>1, <2>2, <2>3, <2>4, <2>5, <2>6, <2>7 DEF ToNext
<1> QED BY <1>1, <1>2, ConvertingHolds, PTL DEF ToSpec

\* Whatever number is converted to whatever integral type: if all its digits together
\* fit in long long, the type has the truncated number, and int the exponent, then the
\* conversion is not refused and yields the digits with the point moved by the exponent,
\* cut off at the point.  (types.hpp:27-128)
THEOREM ConversionTruncates == ToSpec => []ShortNumbersTruncate
<1>1. Computing => ShortNumbersTruncate
    BY DEF Computing, Outcome, ShortNumbersTruncate, Short, Truncated
<1> QED BY <1>1, ComputingHolds, PTL

\* Whatever number both parsers take: what loads keeps as an integer, whether it wraps
\* around or not, is what the compile-time document converts to, for every signed type,
\* and what loads makes a double of is no integer or has too many digits.
\* (load.hpp:607-667, types.hpp:27-128)
THEOREM DocumentsAgreeOnIntegers == ToSpec => []SameInteger
<1>1. Converting /\ Computing => SameInteger
    <2>1. SUFFICES ASSUME Converting, Computing PROVE SameInteger
        OBVIOUS
    <2>2. IsNumber(spelling)
        BY <2>1 DEF Converting
    <2>3. Stored(spelling).integral => IsInteger(spelling)
        BY <2>2, StoredInteger, PlainIsInteger
    <2>4. ~Stored(spelling).integral =>
             ~IsInteger(spelling) \/ ~InRange(AllDigits(spelling), LongBits)
        BY <2>2, StoredDoubleIsNoInteger
    <2> QED BY <2>1, <2>3, <2>4 DEF Computing, Outcome, SameInteger
<1> QED BY <1>1, ConvertingHolds, ComputingHolds, PTL

=============================================================================

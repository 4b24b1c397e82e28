---------------------------- MODULE NumberLexer ----------------------------
(***************************************************************************)
(* How runtime_parser::parse_number (load.hpp) decides where a number      *)
(* ends.  The function is a straight line of tests and loops with no call  *)
(* out, so it is modelled as an operator: ScanNumber(s, p) is the outcome  *)
(* of parse_number on text s at offset p.  A document holds the spelling   *)
(* of a number; what its conversion yields is modelled in Numbers.         *)
(***************************************************************************)
EXTENDS Bytes

\* parse_number leaves the position at end; it returned true if there is no
\* message.
Scanned(end)           == [end |-> end, message |-> ""]
Rejected(end, message) == [end |-> end, message |-> message]

AfterSign(s, p) == IF ByteIn(s, p, {Plus, Minus}) THEN p + 1 ELSE p

\* p is the offset of the "0" of "0x".
ScanHex(s, p) ==
    LET end == RunEnd(s, p + 2, HexDigit)
    IN  IF end = p + 2 THEN Rejected(end, "a hex number needs a digit")
                       ELSE Scanned(end)

\* p is the offset after the digits: "e" or "E" (101, 69) opens an exponent.
ScanExponent(s, p) ==
    LET digits == AfterSign(s, p + 1)
    IN  IF ~ByteIn(s, p, {69, 101})     THEN Scanned(p)
        ELSE IF ByteIn(s, digits, Digit) THEN Scanned(RunEnd(s, digits, Digit))
        ELSE Rejected(digits, "an exponent needs a digit")

\* Fault: leading zeros are digits like any other.
IntegerEndFault(s, p) == RunEnd(s, p, Digit)

\* No leading zeros: an integer part that starts with 0 is that 0 alone.
IntegerEnd(s, p) == IF ByteIn(s, p, {Zero}) THEN p + 1 ELSE RunEnd(s, p, Digit)

FractionEnd(s, p) == IF ByteIn(s, p, {Dot}) THEN RunEnd(s, p + 1, Digit) ELSE p

\* "5." and ".5" are numbers, a "." alone is not.
ScanDecimal(s, p) ==
    LET int  == IntegerEnd(s, p)
        frac == FractionEnd(s, int)
    IN  IF int = p /\ frac <= p + 1 THEN Rejected(frac, "a number needs a digit")
                                    ELSE ScanExponent(s, frac)

\* "x" and "X" are 120 and 88.
ScanNumber(s, p) ==
    LET q == AfterSign(s, p)
    IN  IF OccursAt(s, q, WordInfinity) THEN Scanned(q + Len(WordInfinity))
        ELSE IF OccursAt(s, q, WordNaN) THEN Scanned(q + Len(WordNaN))
        ELSE IF ~ByteIn(s, q, Digit \cup {Dot})
             THEN Rejected(q, "a number needs a digit")
        ELSE IF ByteIn(s, q, {Zero}) /\ ByteIn(s, q + 1, {88, 120})
             THEN ScanHex(s, q)
        ELSE ScanDecimal(s, q)

=============================================================================

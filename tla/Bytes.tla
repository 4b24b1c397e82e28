------------------------------- MODULE Bytes -------------------------------
(***************************************************************************)
(* Texts are sequences of bytes, and offsets into them are zero-based as   *)
(* in the code: the byte at offset p of text s is s[p + 1].  This module   *)
(* names the bytes the parsers compare with, the classes of bytes they     *)
(* test, the scanning loops they share, the UTF-8 encoder that load.hpp    *)
(* (append_utf8) and bind.hpp (put_code_point) both contain, and decimals. *)
(* An operator named ...Fault is a plausible mistake in the operator that  *)
(* follows it, kept to see that a property fails when it takes its place.  *)
(***************************************************************************)
EXTENDS Integers, Sequences

Byte == 0..255

(***************************************************************************)
(* The bytes with a role of their own.                                     *)
(***************************************************************************)
LF         == 10
CR         == 13
Quote      == 34
Apostrophe == 39
Asterisk   == 42
Plus       == 43
Comma      == 44
Minus      == 45
Dot        == 46
Slash      == 47
Zero       == 48
Colon      == 58
LBracket   == 91
BSlash     == 92
RBracket   == 93
LBrace     == 123
RBrace     == 125

Space       == {9, 10, 11, 12, 13, 32}
LineEnd     == {LF, CR}
Digit       == 48..57
HexDigit    == Digit \cup (65..70) \cup (97..102)
IdStart     == (65..90) \cup (97..122) \cup {36, 95}
IdContinue  == IdStart \cup Digit

(***************************************************************************)
(* Words: the multibyte whitespace (NBSP, LS, PS, BOM) and the literals.   *)
(***************************************************************************)
NBSP == <<194, 160>>
LS   == <<226, 128, 168>>
PS   == <<226, 128, 169>>
BOM  == <<239, 187, 191>>

WordTrue     == <<116, 114, 117, 101>>
WordFalse    == <<102, 97, 108, 115, 101>>
WordNull     == <<110, 117, 108, 108>>
WordNaN      == <<78, 97, 78>>
WordInfinity == <<73, 110, 102, 105, 110, 105, 116, 121>>

(***************************************************************************)
(* Scanning.                                                               *)
(***************************************************************************)

\* The byte at offset p exists and is in S.
ByteIn(s, p, S) == p < Len(s) /\ s[p + 1] \in S

\* Fault: the comparison forgets that the text may end inside the word.
OccursAtFault(s, p, w) == \A k \in 1..Len(w) : p + k <= Len(s) => s[p + k] = w[k]

\* s.substr(p, w.size()) == w, where substr stops at the end of the text.
OccursAt(s, p, w) == /\ p + Len(w) <= Len(s)
                     /\ \A k \in 1..Len(w) : s[p + k] = w[k]

\* Where the loop `while (!at_end() && peek() in S) ++position` stops.
RunEnd(s, p, S) ==
    CHOOSE q \in p..Len(s) : /\ q = Len(s) \/ s[q + 1] \notin S
                             /\ \A k \in p..(q - 1) : s[k + 1] \in S

\* The bytes of s in the half-open range of offsets [p, q).
Slice(s, p, q) == SubSeq(s, p + 1, q)

(***************************************************************************)
(* Hexadecimal digits and code points.                                     *)
(***************************************************************************)
HexVal(h) == CASE h \in Digit   -> h - 48
               [] h \in 97..102 -> h - 87
               [] h \in 65..70  -> h - 55

\* The value of the n hexadecimal digits at offset p.
Hex2(s, p) == 16 * HexVal(s[p + 1]) + HexVal(s[p + 2])
Hex4(s, p) == 256 * Hex2(s, p) + Hex2(s, p + 2)

HighSurrogate == 55296..56319
LowSurrogate  == 56320..57343

SurrogatePair(high, low) == 65536 + 1024 * (high - 55296) + (low - 56320)

\* Fault: the six bits are not masked.
SixBitsFault(x) == 128 + x

\* The UTF-8 encoding of a code point: 192, 224 and 240 mark the first byte and
\* 128 the others, which carry six bits each.
SixBits(x) == 128 + (x % 64)

\* Fault: the last range but one begins one code point too late.
Utf8Fault(cp) ==
    IF cp < 128 THEN <<cp>>
    ELSE IF cp <= 2048 THEN <<192 + cp \div 64, SixBits(cp)>>
    ELSE IF cp < 65536
         THEN <<224 + cp \div 4096, SixBits(cp \div 64), SixBits(cp)>>
    ELSE <<240 + cp \div 262144, SixBits(cp \div 4096), SixBits(cp \div 64),
           SixBits(cp)>>

Utf8(cp) ==
    IF cp < 128 THEN <<cp>>
    ELSE IF cp < 2048 THEN <<192 + cp \div 64, SixBits(cp)>>
    ELSE IF cp < 65536
         THEN <<224 + cp \div 4096, SixBits(cp \div 64), SixBits(cp)>>
    ELSE <<240 + cp \div 262144, SixBits(cp \div 4096), SixBits(cp \div 64),
           SixBits(cp)>>

(***************************************************************************)
(* UTF-8 as RFC 3629 has it, to compare with: which bytes may follow which *)
(* first byte (section 4), and the code point a character stands for.      *)
(***************************************************************************)
Continuing == 128..191

IsCharacter(w) ==
    \/ Len(w) = 1 /\ w[1] \in 0..127
    \/ Len(w) = 2 /\ w[1] \in 194..223 /\ w[2] \in Continuing
    \/ /\ Len(w) = 3 /\ w[1] \in 224..239 /\ {w[2], w[3]} \subseteq Continuing
       /\ w[1] = 224 => w[2] >= 160
       /\ w[1] = 237 => w[2] < 160
    \/ /\ Len(w) = 4 /\ w[1] \in 240..244 /\ {w[2], w[3], w[4]} \subseteq Continuing
       /\ w[1] = 240 => w[2] >= 144
       /\ w[1] = 244 => w[2] < 144

CodeOf(w) ==
    CASE Len(w) = 1 -> w[1]
      [] Len(w) = 2 -> 64 * (w[1] - 192) + (w[2] - 128)
      [] Len(w) = 3 -> 4096 * (w[1] - 224) + 64 * (w[2] - 128) + (w[3] - 128)
      [] Len(w) = 4 -> 262144 * (w[1] - 240) + 4096 * (w[2] - 128)
                         + 64 * (w[3] - 128) + (w[4] - 128)

(***************************************************************************)
(* The digits of a natural number, as write_integer finds them.            *)
(***************************************************************************)
Decimal(n) ==
    LET digits[m \in 0..n] ==
            (IF m < 10 THEN <<>> ELSE digits[m \div 10]) \o <<Zero + (m % 10)>>
    IN  digits[n]

=============================================================================

-------------------------- MODULE ParserAgreement --------------------------
(***************************************************************************)
(* The two parsers of the library side by side: loads(text) at run time,   *)
(* and the grammar and binder that parse<text> runs at compile time.       *)
(* tests/load.cpp asks that they accept the same texts, reject the same    *)
(* texts and decode escapes alike.                                         *)
(***************************************************************************)
EXTENDS RuntimeParser, Json5Grammar

\* Both accept or both reject, except for texts nested deeper than the limit
\* that only the runtime parser has.
SameVerdict ==
    Done => LET result == Reference(text)
            IN  pc = "accepted" <=> /\ Accepts(result)
                                    /\ result.deepest <= MaxNesting

\* What both accept is the same document: same structure, same decoded keys
\* and strings, same spelling of the numbers, in the same order.
SameDocument ==
    pc = "accepted" =>
        LET result == Reference(text)
        IN  Accepts(result) => out = result.out

-----------------------------------------------------------------------------
\* A string of one escape: \x and two digits, \u and four, or two \u that are
\* the halves of a code point.
OneEscape(s) ==
    LET Is(p, letter) == s[p + 1] = BSlash /\ s[p + 2] = letter
    IN  /\ Len(s) \in {6, 8, 14}
        /\ s[1] = Quote /\ s[Len(s)] = Quote
        /\ Len(s) = 6  => Is(1, 120)
        /\ Len(s) # 6  => Is(1, 117)
        /\ Len(s) = 14 => Is(7, 117) /\ Hex4(s, 3) \in HighSurrogate

EscapedPoint(s) ==
    CASE Len(s) = 6  -> Hex2(s, 3)
      [] Len(s) = 8  -> Hex4(s, 3)
      [] Len(s) = 14 -> 65536 + 1024 * (Hex4(s, 3) % 1024) + (Hex4(s, 9) % 1024)

\* An escape leaves in the string the one UTF-8 encoding of the code point that its
\* digits name: never a longer form, a surrogate, or the bytes of a neighbour.
\* (append_utf8, put_code_point, parse_string)
EscapesEncoded ==
    pc = "accepted" /\ OneEscape(text) =>
        /\ IsCharacter(out[1].bytes)
        /\ CodeOf(out[1].bytes) = EscapedPoint(text)

=============================================================================

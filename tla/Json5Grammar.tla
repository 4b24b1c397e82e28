---------------------------- MODULE Json5Grammar ----------------------------
(***************************************************************************)
(* The other parser of the library: the compile-time path that parse,      *)
(* is_valid and loads<> take.  grammar.hpp holds a grammar (terminals as   *)
(* regular expressions, rules over them) that the external ctlark engine   *)
(* runs, and bind.hpp turns the parse tree into a document, decoding the   *)
(* strings on the way.  Everything here is an operator: Reference(s) is    *)
(* what that path makes of text s.                                         *)
(*                                                                         *)
(* A regular expression is modelled by what the engine's simulation of its *)
(* automaton computes: from a set I of offsets, the set of the offsets at  *)
(* which a match that starts in I may end.                                 *)
(***************************************************************************)
EXTENDS Bytes

Greatest(S) == CHOOSE x \in S : \A y \in S : y <= x

-----------------------------------------------------------------------------
(***************************************************************************)
(* Regular expressions.                                                    *)
(***************************************************************************)
\* [S]
Class(s, I, S) == {i + 1 : i \in {j \in I : ByteIn(s, j, S)}}

\* A fixed word.
Word(s, I, w) == {i + Len(w) : i \in {j \in I : OccursAt(s, j, w)}}

\* (Item)*
Star(s, I, Item(_)) ==
    LET reach[n \in 0..Len(s)] ==
            IF n = 0 THEN I
            ELSE LET before == reach[n - 1] IN before \cup Item(before)
    IN  IF I = {} THEN {} ELSE reach[Len(s)]

\* [S]+
Some(s, I, S) == Class(s, Star(s, I, LAMBDA J : Class(s, J, S)), S)

\* [S]*
Many(s, I, S) == I \cup Some(s, I, S)

\* [+-]?
Signed(s, I) == I \cup Class(s, I, {Plus, Minus})

-----------------------------------------------------------------------------
(***************************************************************************)
(* The terminals.  In the escapes, "u" is 117 and "x" is 120.              *)
(***************************************************************************)
EscapeEnds(s, I) ==
    LET escape == Class(s, I, {BSlash})
        Hex(J) == Class(s, J, HexDigit)
    IN  Hex(Hex(Hex(Hex(Class(s, escape, {117})))))
          \cup Hex(Hex(Class(s, escape, {120})))
          \cup Word(s, escape, <<CR, LF>>)
          \cup Class(s, escape, Byte \ ((49..57) \cup {117, 120}))

QuotedEnds(s, p, q) ==
    LET Item(I) == Class(s, I, Byte \ {q, BSlash, LF, CR}) \cup EscapeEnds(s, I)
    IN  Class(s, Star(s, Class(s, {p}, {q}), Item), {q})

NumberEnds(s, p) ==
    LET sign     == Signed(s, {p})
        zero     == Class(s, sign, {Zero})
        int      == zero \cup Many(s, Class(s, sign, 49..57), Digit)
        decimal  == int \cup Many(s, Class(s, int, {Dot}), Digit)
                        \cup Some(s, Class(s, sign, {Dot}), Digit)
        exponent == Signed(s, Class(s, decimal, {69, 101}))
    IN  decimal \cup Some(s, exponent, Digit)
                \cup Some(s, Class(s, zero, {88, 120}), HexDigit)
                \cup Word(s, sign, WordInfinity)
                \cup Word(s, sign, WordNaN)

BlockCommentEnds(s, p) ==
    LET Item(I) == Class(s, I, Byte \ {Asterisk}) \cup
                   Class(s, Some(s, I, {Asterisk}), Byte \ {Asterisk, Slash})
        body    == Star(s, Word(s, {p}, <<Slash, Asterisk>>), Item)
    IN  Class(s, Some(s, body, {Asterisk}), {Slash})

SpaceEnds(s, p) ==
    LET Item(I) == UNION {Class(s, I, Space), Word(s, I, NBSP), Word(s, I, BOM),
                          Word(s, I, LS), Word(s, I, PS)}
    IN  Star(s, {p}, Item)

Ignored == {"space", "line comment", "block comment"}

\* The offsets at which a match of terminal t at p may end.
TerminalEnds(t, s, p) ==
    CASE t = "STRING" -> QuotedEnds(s, p, Quote) \cup QuotedEnds(s, p, Apostrophe)
      [] t = "NUMBER" -> NumberEnds(s, p)
      [] t = "IDENT"  -> Many(s, Class(s, {p}, IdStart), IdContinue)
      [] t = "true"   -> Word(s, {p}, WordTrue)
      [] t = "false"  -> Word(s, {p}, WordFalse)
      [] t = "null"   -> Word(s, {p}, WordNull)
      [] t = "{"      -> Class(s, {p}, {LBrace})
      [] t = "}"      -> Class(s, {p}, {RBrace})
      [] t = "["      -> Class(s, {p}, {LBracket})
      [] t = "]"      -> Class(s, {p}, {RBracket})
      [] t = ","      -> Class(s, {p}, {Comma})
      [] t = ":"      -> Class(s, {p}, {Colon})
      [] t = "space"  -> SpaceEnds(s, p)
      [] t = "line comment"  ->
            Many(s, Word(s, {p}, <<Slash, Slash>>), Byte \ LineEnd)
      [] t = "block comment" -> BlockCommentEnds(s, p)

\* The contextual lexer: the matches of the terminals that the rules allow here
\* and of the ignored ones, of which it takes the longest.
Matches(s, p, expected) ==
    {m \in UNION {{[terminal |-> t, end |-> e] : e \in TerminalEnds(t, s, p)} :
                     t \in expected \cup Ignored} : m.end > p}

Longest(matches) == CHOOSE m \in matches : \A n \in matches : n.end <= m.end

-----------------------------------------------------------------------------
(***************************************************************************)
(* decode_string of bind.hpp: raw is a STRING token with its quotes, the   *)
(* index i is zero-based, and end is the index of the closing quote.       *)
(***************************************************************************)
Piece(ok, bytes, next) == [ok |-> ok, bytes |-> bytes, next |-> next]

UnicodePiece(raw, i, end) ==
    LET unit == Hex4(raw, i + 2)
        low  == IF i + 12 <= end /\ OccursAt(raw, i + 6, <<BSlash, 117>>)
                THEN Hex4(raw, i + 8) ELSE 0
    IN  IF unit \in HighSurrogate
        THEN IF low \in LowSurrogate
             THEN Piece(TRUE, Utf8(SurrogatePair(unit, low)), i + 12)
             ELSE Piece(FALSE, <<>>, end)
        ELSE IF unit \in LowSurrogate THEN Piece(FALSE, <<>>, end)
        ELSE Piece(TRUE, Utf8(unit), i + 6)

SelfPiece(e) == CASE e = 98  -> 8      \* \b
                  [] e = 102 -> 12     \* \f
                  [] e = 110 -> 10     \* \n
                  [] e = 114 -> 13     \* \r
                  [] e = 116 -> 9      \* \t
                  [] e = 118 -> 11     \* \v
                  [] e = 48  -> 0      \* \0
                  [] OTHER   -> e

EscapePiece(raw, i, end) ==
    LET e == raw[i + 2]
    IN  IF e = 117 THEN UnicodePiece(raw, i, end)
        ELSE IF e = 120 THEN Piece(TRUE, Utf8(Hex2(raw, i + 2)), i + 4)
        ELSE IF e = LF THEN Piece(TRUE, <<>>, i + 2)
        ELSE IF e = CR
             THEN Piece(TRUE, <<>>, IF i + 2 < end /\ raw[i + 3] = LF
                                    THEN i + 3 ELSE i + 2)
        ELSE IF i + 3 < end /\ (OccursAt(raw, i + 1, LS) \/ OccursAt(raw, i + 1, PS))
             THEN Piece(TRUE, <<>>, i + 4)
        ELSE Piece(TRUE, <<SelfPiece(e)>>, i + 2)

\* The loop's state is a piece too: the bytes so far and the next index.
DecodeString(raw) ==
    LET end == Len(raw) - 1
        loop[n \in 0..end] ==
            IF n = 0 THEN Piece(TRUE, <<>>, 1)
            ELSE LET done  == loop[n - 1]
                     i     == done.next
                     piece == IF raw[i + 1] = BSlash THEN EscapePiece(raw, i, end)
                              ELSE Piece(TRUE, <<raw[i + 1]>>, i + 1)
                 IN  IF i >= end THEN done
                     ELSE Piece(done.ok /\ piece.ok, done.bytes \o piece.bytes, piece.next)
    IN  loop[end]

-----------------------------------------------------------------------------
(***************************************************************************)
(* The rules, as the automaton over tokens that they describe.  A state    *)
(* says what may follow; open holds the objects and arrays that are not    *)
(* closed, outermost first, deepest the greatest number of containers      *)
(* around a value.                                                         *)
(***************************************************************************)
ValueTerminals == {"{", "[", "STRING", "NUMBER", "true", "false", "null"}

Expected == [value   |-> ValueTerminals,
             item    |-> ValueTerminals \cup {"]"},
             pair    |-> {"STRING", "IDENT", "}"},
             colon   |-> {":"},
             object  |-> {",", "}"},
             array   |-> {",", "]"},
             nothing |-> {}]

Start == [status |-> "reading", pos |-> 0, phase |-> "value", open |-> <<>>,
          out |-> <<>>, bound |-> TRUE, deepest |-> 0]

\* What follows a complete value inside the containers `open`.
Follow(open) == IF open = <<>> THEN "nothing" ELSE open[Len(open)]

Ev(kind, bytes) == [kind |-> kind, bytes |-> bytes]

\* The event a token stands for; a STRING is decoded.
TokenEvent(terminal, raw, phase) ==
    CASE terminal = "STRING" ->
            Ev(IF phase = "pair" THEN "key" ELSE "string", DecodeString(raw).bytes)
      [] terminal = "IDENT"  -> Ev("key", raw)
      [] terminal = "NUMBER" -> Ev("number", raw)
      [] OTHER               -> Ev(terminal, <<>>)

Terminals == Ignored \cup UNION {Expected[phase] : phase \in DOMAIN Expected}

\* What becomes of the parts of state st when the next token is a t, spelled raw.
OpenAfter(st, t) == CASE t = "{" -> Append(st.open, "object")
                      [] t = "[" -> Append(st.open, "array")
                      [] t \in {"}", "]"} -> SubSeq(st.open, 1, Len(st.open) - 1)
                      [] OTHER -> st.open

PhaseAfter(st, t) == CASE t = "{" -> "pair"
                       [] t = "[" -> "item"
                       [] t = ":" -> "value"
                       [] t = "," -> IF st.phase = "object" THEN "pair" ELSE "item"
                       [] st.phase = "pair" /\ t \in {"STRING", "IDENT"} -> "colon"
                       [] OTHER -> Follow(OpenAfter(st, t))

OutAfter(st, t, raw) == IF t \in {",", ":"} THEN st.out
                        ELSE Append(st.out, TokenEvent(t, raw, st.phase))

BoundAfter(st, t, raw) == st.bound /\ (t = "STRING" => DecodeString(raw).ok)

DeepestAfter(st, t) == IF st.phase # "pair" /\ t \in ValueTerminals
                       THEN Greatest({st.deepest, Len(st.open)}) ELSE st.deepest

\* What becomes of state st, for each token the lexer may return there.
Shift(s, st) ==
    [token \in [terminal : Terminals, end : 0..Len(s)] |->
        LET t   == token.terminal
            raw == Slice(s, st.pos, token.end)
        IN  IF t \in Ignored THEN [st EXCEPT !.pos = token.end]
            ELSE [st EXCEPT !.pos     = token.end,
                            !.open    = OpenAfter(st, t),
                            !.phase   = PhaseAfter(st, t),
                            !.out     = OutAfter(st, t, raw),
                            !.bound   = BoundAfter(st, t, raw),
                            !.deepest = DeepestAfter(st, t)]]

\* One token or one ignored match, or the verdict.
Step(s, st) ==
    LET matches == Matches(s, st.pos, Expected[st.phase])
    IN  IF st.pos = Len(s)
        THEN [st EXCEPT !.status = IF st.phase = "nothing" THEN "valid" ELSE "invalid"]
        ELSE IF matches = {} THEN [st EXCEPT !.status = "invalid"]
        ELSE Shift(s, st)[Longest(matches)]

\* Every token takes a byte, so the verdict is there after Len(s) + 1 steps.
Reference(s) ==
    LET run[n \in 0..(Len(s) + 1)] ==
            IF n = 0 THEN Start
            ELSE LET st == run[n - 1]
                 IN  IF st.status = "reading" THEN Step(s, st) ELSE st
    IN  run[Len(s) + 1]

\* parse<> yields a document.
Accepts(result) == result.status = "valid" /\ result.bound

=============================================================================

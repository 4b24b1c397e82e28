------------------------- MODULE MCParserAgreement -------------------------
(***************************************************************************)
(* Texts for TLC: concatenations of a few fragments, and documents in      *)
(* which one fragment is removed, added or replaced.                       *)
(***************************************************************************)
EXTENDS ParserAgreement
LOCAL INSTANCE SequencesExt

\* All concatenations of at most n of the fragments.
Concatenations(fragments, n) ==
    LET upto[k \in 0..n] ==
            IF k = 0 THEN {<<>>}
            ELSE LET shorter == upto[k - 1]
                 IN  {<<>>} \cup {t \o f : t \in shorter, f \in fragments}
    IN  upto[n]

\* The document (a sequence of fragments) and what one edit makes of it.
Edited(document, fragments) ==
    {FlattenSeq(q) : q \in
        {document}
          \cup {RemoveAt(document, i) : i \in 1..Len(document)}
          \cup {ReplaceAt(document, i, f) : i \in 1..Len(document), f \in fragments}
          \cup {InsertAt(document, i, f) : i \in 1..Len(document), f \in fragments}}

Around(before, texts, behind) == {before \o t \o behind : t \in texts}

-----------------------------------------------------------------------------
(***************************************************************************)
(* The structure of documents: containers, separators, an identifier that  *)
(* is also a literal, a string, a number and, in edits, a space.           *)
(***************************************************************************)
O == <<LBrace>>
C == <<RBrace>>
A == <<LBracket>>
B == <<RBracket>>
M == <<Comma>>
P == <<Colon>>
S == <<Apostrophe, 97, Apostrophe>>
N == <<Zero>>

Structural == {O, C, A, B, M, P, S, N, WordNull}

\* {'a':0,null:[0,'a',],} , [{},[0],{'a':null},] , [[[]]] and {'a':{'a':{}}}
EditedDocuments ==
    {<<O, S, P, N, M, WordNull, P, A, N, M, S, M, B, M, C>>,
     <<A, O, C, M, A, N, B, M, O, S, P, WordNull, C, M, B>>,
     <<A, A, A, B, B, B>>,
     <<O, S, P, O, S, P, O, C, C, C>>}

\* The containers of at most two of the values, with and without a trailing
\* comma.
Containing(values) ==
    {O \o C, A \o B}
      \cup UNION {{A \o v \o B, A \o v \o M \o B, O \o S \o P \o v \o C,
                  O \o WordNull \o P \o v \o M \o C} : v \in values}
      \cup UNION {{A \o v \o M \o w \o B, O \o S \o P \o v \o M \o S \o P \o w \o C} :
                 v \in values, w \in values}

\* Valid but for the nesting, which is between 0 and 3.
NestedDocuments ==
    LET one == Containing({N})
        two == Containing({N} \cup one)
    IN  two \cup Around(A, two, B) \cup Around(O \o S \o P, two, C)

StructureTexts(n) ==
    Concatenations(Structural, n) \cup NestedDocuments
      \cup UNION {Edited(d, Structural \cup {<<32>>}) : d \in EditedDocuments}

-----------------------------------------------------------------------------
(***************************************************************************)
(* Strings, as values, as keys and cut short: quotes, line ends,           *)
(* continuations, the escapes and their digits, whole and halved surrogate *)
(* pairs, and bytes of multibyte characters.  The last lines are u, x, 0,  *)
(* 3, n, e9, D834 and dD1E, and the escapes \u, \uD834 and \udD1E.         *)
(***************************************************************************)
StringFragments ==
    {<<BSlash>>, <<Quote>>, <<Apostrophe>>, <<LF>>, <<CR>>, LS, <<226, 128>>,
     <<117>>, <<120>>, <<48>>, <<51>>, <<110>>, <<101, 57>>,
     <<68, 56, 51, 52>>, <<100, 68, 49, 69>>, <<BSlash, 117>>,
     <<BSlash, 117, 68, 56, 51, 52>>, <<BSlash, 117, 100, 68, 49, 69>>}

StringTexts(n) ==
    LET shorter == Concatenations(StringFragments, n - 1)
    IN  Around(<<Quote>>, Concatenations(StringFragments, n), <<Quote>>)
          \cup Around(<<Quote>>, shorter, <<>>)
          \cup Around(<<LBrace, Apostrophe>>, shorter,
                      <<Apostrophe, Colon, Zero, RBrace>>)

\* Escapes of the code points on both sides of where UTF-8 takes a byte more, and
\* around the surrogates; and of surrogates, whole and halved.
BorderUnits == {0, 127, 128, 255, 2047, 2048, 55295, 55296, 56319, 56320, 57343, 57344, 65535}

HexQuad(unit) == LET Nibble(n) == (unit \div (16 ^ (4 - n))) % 16
                 IN  [n \in 1..4 |-> IF Nibble(n) < 10 THEN 48 + Nibble(n)
                                                      ELSE 55 + Nibble(n)]

BorderTexts ==
    LET escape(unit) == <<BSlash, 117>> \o HexQuad(unit)
    IN  Around(<<Quote>>, {escape(u) : u \in BorderUnits}
                            \cup {escape(u) \o escape(v) : u, v \in BorderUnits}, <<Quote>>)
          \cup Around(<<Quote, BSlash, 120>>,
                      {SubSeq(HexQuad(u), 3, 4) : u \in BorderUnits \cap Byte}, <<Quote>>)

\* "\X41" and its neighbours: X is 88.
CapitalXTexts ==
    Around(<<Quote, BSlash, 88>>, Concatenations({<<52>>, <<49>>, <<122>>}, 4),
           <<Quote>>)

-----------------------------------------------------------------------------
(***************************************************************************)
(* Numbers, alone and in an array: signs, the point, digits, the exponent, *)
(* the hexadecimal prefix and a hexadecimal digit, Infinity and NaN.       *)
(* Whitespace and comments, around a value and between a key and its       *)
(* colon: whole and cut multibyte spaces, and the bytes of comments.       *)
(***************************************************************************)
DigitFragments  == {<<Minus>>, <<Dot>>, <<Zero>>, <<49>>, <<101>>, <<120>>, <<70>>}
NumberFragments == DigitFragments \cup {<<Plus>>, WordInfinity, WordNaN}

CommentFragments == {<<Slash>>, <<Asterisk>>, <<LF>>, <<CR>>, <<12>>, <<97>>, NBSP,
                     <<194>>, PS, <<226, 128>>, BOM, <<239, 187>>}

LexicalTexts(n) ==
    LET numbers  == Concatenations(NumberFragments, n - 1)
        comments == Concatenations(CommentFragments, n - 1)
                      \cup Concatenations({<<Slash>>, <<Asterisk>>, <<LF>>}, n + 1)
    IN  numbers \cup Concatenations(DigitFragments, n) \cup Around(A, numbers, B)
          \cup Around(<<>>, comments, N) \cup Around(N, comments, <<>>)
          \cup Around(<<LBrace, 97>>, comments, <<Colon, Zero, RBrace>>)

-----------------------------------------------------------------------------
AllTexts == StructureTexts(4) \cup StringTexts(3) \cup BorderTexts \cup LexicalTexts(4)

=============================================================================

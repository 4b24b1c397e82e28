------------------------ MODULE RuntimeParserProofs ------------------------
(***************************************************************************)
(* Theorems about module RuntimeParser, for every set of texts and every   *)
(* limit on the nesting: types, bounds and nesting; every step progresses; *)
(* the place in the code agrees with the document (PlaceAgrees), so that   *)
(* the parser implements module Document (WritesDocuments); and it accepts *)
(* the texts that the compile-time grammar and the binder accept, with the *)
(* same document (SameVerdict and SameDocument of module ParserAgreement), *)
(* unless it meets the escape that it alone rejects.                       *)
(***************************************************************************)
EXTENDS ParserAgreement, GrammarProofs

\* The inductive invariant of the first theorems: the type of the state, the
\* bounds of the position and the bound of the recursion.
Sound == TypeOK /\ InBounds /\ NestingBounded

-----------------------------------------------------------------------------
(***************************************************************************)
(* What the building blocks of the actions preserve.                       *)
(***************************************************************************)
\* fail keeps the invariant if the parser stands in the text.
LEMMA FailSound ==
    ASSUME Sound, NEW p \in Nat, p <= Len(text), NEW message, FailAt(p, message)
    PROVE  Sound'
BY DEF Sound, TypeOK, InBounds, NestingBounded, FailAt, Labels, Places

\* An iteration of skip_whitespace keeps the invariant.
LEMMA SkipSound ==
    ASSUME Sound, At("skip"), NEW p \in Nat, p <= Len(text), Skip(p)
    PROVE  Sound'
BY DEF Sound, TypeOK, InBounds, NestingBounded, Skip, At, Labels, Places

\* A decoded escape keeps the invariant.
LEMMA DecodedSound ==
    ASSUME Sound, At("escape"), NEW p \in Nat, p <= Len(text),
           NEW bytes \in Seq(Byte), Decoded(p, bytes)
    PROVE  Sound'
BY DEF Sound, TypeOK, InBounds, NestingBounded, Decoded, At, Labels, Places

\* An appended event is an event.
LEMMA AppendEvent ==
    ASSUME out \in Seq(Event), NEW kind \in EventKind, NEW bytes \in Seq(Byte)
    PROVE  Append(out, Leaf(kind, bytes)) \in Seq(Event)
BY DEF Leaf, Event

\* A mark is an event without text.
LEMMA MarkIsLeaf ==
    ASSUME NEW kind
    PROVE  Mark(kind) = Leaf(kind, <<>>) /\ <<>> \in Seq(Byte)
BY DEF Mark, Leaf

\* Opening and closing a container write an event.
LEMMA AppendMark ==
    ASSUME out \in Seq(Event), NEW container
    PROVE  /\ Append(out, OpenMark(container)) \in Seq(Event)
           /\ Append(out, CloseMark(container)) \in Seq(Event)
<1>1. \A kind \in EventKind : Append(out, Mark(kind)) \in Seq(Event)
  BY AppendEvent, MarkIsLeaf
<1>2. {"{", "}", "[", "]"} \subseteq EventKind
  BY DEF EventKind
<1> QED
  BY <1>1, <1>2 DEF OpenMark, CloseMark

\* The literals are words and their names are kinds of events.
LEMMA LiteralFacts ==
    ASSUME NEW l \in DOMAIN Literals
    PROVE  Len(Literals[l]) \in Nat \ {0} /\ l \in EventKind
<1>1. DOMAIN Literals = {"true", "false", "null"}
  BY DEF Literals
<1>2. CASE l = "true"
  <2>1. Literals[l] = <<116, 114, 117, 101>>
    BY <1>2 DEF Literals, WordTrue
  <2> QED
    BY <1>2, <2>1 DEF EventKind
<1>3. CASE l = "false"
  <2>1. Literals[l] = <<102, 97, 108, 115, 101>>
    BY <1>3 DEF Literals, WordFalse
  <2> QED
    BY <1>3, <2>1 DEF EventKind
<1>4. CASE l = "null"
  <2>1. Literals[l] = <<110, 117, 108, 108>>
    BY <1>4 DEF Literals, WordNull
  <2> QED
    BY <1>4, <2>1 DEF EventKind
<1> QED
  BY <1>1, <1>2, <1>3, <1>4

\* Leaving a container leaves a shorter sequence of containers.
LEMMA PopType ==
    ASSUME NEW s \in Seq(Container)
    PROVE  Pop(s) \in Seq(Container) /\ Len(Pop(s)) <= Len(s)
BY DEF Pop

\* Where a value's caller goes on is a place.
LEMMA AfterValueType ==
    ASSUME NEW s
    PROVE  AfterValue(s) \in {"delimiter", "end"}
BY DEF AfterValue

-----------------------------------------------------------------------------
(***************************************************************************)
(* The actions, in the order of RuntimeParser.                             *)
(***************************************************************************)
\* skip_whitespace keeps the invariant.
LEMMA WhitespaceSound ==
    ASSUME Sound, Whitespace
    PROVE  Sound'
<1>1. text \in Seq(Byte) /\ position \in Nat /\ position <= Len(text)
  BY DEF Sound, TypeOK, InBounds
<1>2. CASE SkipSpace
  <2>1. position + 1 <= Len(text) /\ At("skip") /\ Skip(position + 1)
    BY <1>1, <1>2 DEF SkipSpace, Next1, ByteIn
  <2> QED
    BY <1>1, <2>1, SkipSound
<1>3. CASE SkipMultibyte
  <2>1. PICK word \in {NBSP, LS, PS, BOM} : Has(word) /\ Skip(position + Len(word))
    BY <1>3 DEF SkipMultibyte
  <2>2. Len(word) \in Nat
    BY DEF NBSP, LS, PS, BOM
  <2>3. position + Len(word) \in Nat /\ position + Len(word) <= Len(text)
    BY <1>1, <2>1, <2>2 DEF Has, OccursAt
  <2> QED
    BY <1>3, <2>1, <2>3, SkipSound DEF SkipMultibyte
<1>4. CASE SkipLineComment
  <2>1. position + 2 <= Len(text)
    BY <1>1, <1>4 DEF SkipLineComment, Has, OccursAt
  <2>2. /\ RunEnd(text, position + 2, Byte \ LineEnd) \in Nat
        /\ RunEnd(text, position + 2, Byte \ LineEnd) <= Len(text)
    BY <1>1, <2>1, RunEndRange
  <2> QED
    BY <1>4, <2>2, SkipSound DEF SkipLineComment
<1>5. CASE SkipBlockComment
  <2>1. PICK p \in CommentEnds : Skip(p + 2)
    BY <1>5 DEF SkipBlockComment
  <2>2. p + 2 \in Nat /\ p + 2 <= Len(text)
    BY <1>1 DEF CommentEnds, OccursAt
  <2> QED
    BY <1>5, <2>1, <2>2, SkipSound DEF SkipBlockComment
<1>6. CASE UnterminatedComment
  <2>1. position + 2 \in Nat /\ position + 2 <= Len(text)
    <3>1. position + 2 <= Len(text)
      BY <1>1, <1>6 DEF UnterminatedComment, Has, OccursAt
    <3> QED
      BY <1>1, <3>1
  <2>2. CASE position + 2 = Len(text)
    <3>1. FailAt(position + 2, "unterminated block comment")
      BY <1>6, <2>2 DEF UnterminatedComment
    <3> QED
      BY <2>1, <3>1, FailSound
  <2>3. CASE position + 2 # Len(text)
    <3>1. FailAt(Len(text) - 1, "unterminated block comment")
      BY <1>6, <2>3 DEF UnterminatedComment
    <3>2. Len(text) - 1 \in Nat /\ Len(text) - 1 <= Len(text)
      BY <1>1, <2>1
    <3> QED
      BY <3>1, <3>2, FailSound
  <2> QED
    BY <2>2, <2>3
<1>7. CASE LoneSlash
  BY <1>1, <1>7, FailSound DEF LoneSlash, Fail
<1>8. CASE SkipDone
  BY <1>8 DEF SkipDone, At, Sound, TypeOK, InBounds, NestingBounded, Labels, Places
<1> QED
  BY <1>2, <1>3, <1>4, <1>5, <1>6, <1>7, <1>8 DEF Whitespace

\* A complete scalar keeps the invariant.
LEMMA ScalarSound ==
    ASSUME Sound, NEW p \in Nat, p <= Len(text),
           NEW kind \in EventKind, NEW bytes \in Seq(Byte),
           Scalar(p, Leaf(kind, bytes))
    PROVE  Sound'
<1>1. out' \in Seq(Event)
  BY AppendEvent DEF Sound, TypeOK, Scalar
<1>2. after' \in Places
  BY AfterValueType DEF Scalar, SkipTo, Places
<1> QED
  BY <1>1, <1>2 DEF Sound, TypeOK, InBounds, NestingBounded, Scalar, SkipTo, Labels

\* parse_value keeps the invariant.
LEMMA ValueSound ==
    ASSUME Sound, Value
    PROVE  Sound'
<1>1. text \in Seq(Byte) /\ position \in Nat /\ position <= Len(text)
  BY DEF Sound, TypeOK, InBounds
<1>2. CASE NestingTooDeep
  BY <1>1, <1>2, FailSound DEF NestingTooDeep, Fail
<1>3. CASE NoValue
  BY <1>1, <1>3, FailSound DEF NoValue, Fail
<1>4. ASSUME NEW container \in Container, Open(container)
      PROVE  Sound'
  <2>1. position + 1 \in Nat /\ position + 1 <= Len(text)
    BY <1>1, <1>4 DEF Open, Next1, ByteIn
  <2>2. out' \in Seq(Event)
    BY <1>4, AppendMark DEF Open, Sound, TypeOK
  <2>3. stack' \in Seq(Container) /\ Len(stack') <= MaxNesting + 1
    BY <1>4, NestingAssumption DEF Open, Entering, Sound, TypeOK
  <2>4. FirstItem(container) \in Places
    BY DEF FirstItem, Places
  <2> QED
    BY <1>4, <2>1, <2>2, <2>3, <2>4
    DEF Open, SkipTo, Sound, TypeOK, InBounds, NestingBounded, Labels
<1>5. CASE ValueString
  <2>1. position + 1 \in Nat /\ position + 1 <= Len(text)
    BY <1>1, <1>5 DEF ValueString, OpenString, Next1, ByteIn
  <2>2. AfterValue(stack) \in Places
    BY AfterValueType DEF Places
  <2> QED
    BY <1>5, <2>1, <2>2
    DEF ValueString, OpenString, Entering, Next1, ByteIn,
        Sound, TypeOK, InBounds, NestingBounded, Labels
<1>6. ASSUME NEW l \in DOMAIN Literals, Literal(l)
      PROVE  Sound'
  <2>1. CASE Has(Literals[l]) /\ Scalar(position + Len(Literals[l]), Mark(l))
    <3>1. Len(Literals[l]) \in Nat /\ l \in EventKind
      BY LiteralFacts
    <3>2. /\ position + Len(Literals[l]) \in Nat
          /\ position + Len(Literals[l]) <= Len(text)
      BY <1>1, <2>1, <3>1 DEF Has, OccursAt
    <3>3. Scalar(position + Len(Literals[l]), Leaf(l, <<>>))
      BY <2>1, MarkIsLeaf
    <3> QED
      BY <3>1, <3>2, <3>3, MarkIsLeaf, ScalarSound
  <2>2. CASE Fail("unrecognized literal")
    BY <1>1, <2>2, FailSound DEF Fail
  <2> QED
    BY <1>6, <2>1, <2>2 DEF Literal
<1>7. CASE Number
  <2> DEFINE scan == ScanNumber(text, position)
  <2>1. Fits(text, scan, position, position + 1)
    BY <1>1, ScanNumberFits
  <2>2. scan.end \in Nat /\ scan.end <= Len(text)
    BY <2>1 DEF Fits
  <2>3. CASE Scalar(scan.end, Leaf("number", Slice(text, position, scan.end)))
    <3>1. Slice(text, position, scan.end) \in Seq(Byte) /\ "number" \in EventKind
      BY <1>1, <2>2, SliceType DEF EventKind
    <3> QED
      BY <2>2, <2>3, <3>1, ScalarSound
  <2>4. CASE FailAt(scan.end, scan.message)
    BY <2>2, <2>4, FailSound
  <2> QED
    BY <1>7, <2>3, <2>4 DEF Number
<1> QED
  BY <1>2, <1>3, <1>4, <1>5, <1>6, <1>7 DEF Value

\* Room for n bytes is a position in the text.
LEMMA RoomFits ==
    ASSUME NEW p \in Nat, NEW n \in Nat, Room(p, n)
    PROVE  p + n \in Nat /\ p + n <= Len(text)
BY DEF Room

\* \uHHHH: the positions and the code points of every outcome.
LEMMA NoHex4Sound ==
    ASSUME Sound, NEW p \in Nat, p <= Len(text), NoHex4(p)
    PROVE  Sound'
BY FailSound DEF NoHex4

\* The second half of a surrogate pair keeps the invariant.
LEMMA SecondSurrogateSound ==
    ASSUME Sound, At("escape"), NEW high \in HighSurrogate,
           NEW p \in Nat, p <= Len(text), SecondSurrogate(high, p)
    PROVE  Sound'
<1>1. text \in Seq(Byte) /\ Len(text) \in Nat
  BY DEF Sound, TypeOK
<1>2. CASE FailAt(p, "lone high surrogate")
  BY <1>2, FailSound
<1>3. CASE OccursAt(text, p, <<BSlash, 117>>) /\ NoHex4(p + 2)
  <2>1. p + 2 \in Nat /\ p + 2 <= Len(text)
    BY <1>1, <1>3 DEF OccursAt
  <2> QED
    BY <1>3, <2>1, NoHex4Sound
<1>4. CASE /\ Room(p + 2, 4) /\ HexAt(p + 2, 4)
           /\ LET low == Hex4(text, p + 2)
              IN  \/ low \notin LowSurrogate /\ FailAt(p + 6, "invalid low surrogate")
                  \/ /\ low \in LowSurrogate
                     /\ Decoded(p + 6, Utf8(SurrogatePair(high, low)))
  <2>1. p + 6 \in Nat /\ p + 6 <= Len(text)
    <3>1. Room(p + 2, 4)
      BY <1>4
    <3>2. p + 2 \in Nat
      OBVIOUS
    <3>3. (p + 2) + 4 \in Nat /\ (p + 2) + 4 <= Len(text)
      BY <3>1, <3>2, RoomFits
    <3> QED
      BY <3>3
  <2>2. CASE FailAt(p + 6, "invalid low surrogate")
    BY <2>1, <2>2, FailSound
  <2>3. ASSUME NEW low \in LowSurrogate,
               Decoded(p + 6, Utf8(SurrogatePair(high, low)))
        PROVE  Sound'
    <3>1. SurrogatePair(high, low) \in Nat /\ SurrogatePair(high, low) < 1114112
      BY SurrogatePairType
    <3>2. Utf8(SurrogatePair(high, low)) \in Seq(Byte)
      BY <3>1, Utf8Type
    <3> QED
      BY <2>1, <2>3, <3>2, DecodedSound
  <2> QED
    BY <1>4, <2>2, <2>3
<1> QED
  BY <1>2, <1>3, <1>4 DEF SecondSurrogate

\* \uHHHH keeps the invariant.
LEMMA FourDigitsSound ==
    ASSUME Sound, At("escape"), NEW p \in Nat, p <= Len(text), FourDigits(p)
    PROVE  Sound'
<1>1. text \in Seq(Byte) /\ Len(text) \in Nat
  BY DEF Sound, TypeOK
<1>2. CASE NoHex4(p)
  BY <1>2, NoHex4Sound
<1>3. ASSUME Room(p, 4), HexAt(p, 4),
             NEW unit, unit = Hex4(text, p),
             \/ unit \in HighSurrogate /\ SecondSurrogate(unit, p + 4)
             \/ unit \in LowSurrogate /\ FailAt(p + 4, "lone low surrogate")
             \/ /\ unit \notin HighSurrogate \cup LowSurrogate
                /\ Decoded(p + 4, Utf8(unit))
      PROVE  Sound'
  <2>1. p + 4 \in Nat /\ p + 4 <= Len(text)
    BY <1>3, RoomFits
  <2>2. unit \in Nat /\ unit < 65536
    <3>1. \A k \in 1..4 : text[p + k] \in HexDigit
      BY <1>3 DEF HexAt
    <3>2. Hex4(text, p) \in Nat /\ Hex4(text, p) < 65536
      BY <3>1, Hex4Type
    <3>3. unit = Hex4(text, p)
      BY <1>3
    <3> QED
      BY <3>2, <3>3
  <2>3. CASE unit \in HighSurrogate /\ SecondSurrogate(unit, p + 4)
    BY <2>1, <2>3, SecondSurrogateSound
  <2>4. CASE FailAt(p + 4, "lone low surrogate")
    BY <2>1, <2>4, FailSound
  <2>5. CASE Decoded(p + 4, Utf8(unit))
    <3>1. unit < 1114112
      BY <2>2
    <3>2. Utf8(unit) \in Seq(Byte)
      BY <2>2, <3>1, Utf8Type
    <3> QED
      BY <2>1, <2>5, <3>2, DecodedSound
  <2> QED
    BY <1>3, <2>3, <2>4, <2>5
<1> QED
  BY <1>2, <1>3, FourDigits(p) DEF FourDigits

\* \xHH: the same.
LEMMA TwoDigitsSound ==
    ASSUME Sound, At("escape"), NEW p \in Nat, p <= Len(text), TwoDigits(p)
    PROVE  Sound'
<1>1. text \in Seq(Byte) /\ Len(text) \in Nat
  BY DEF Sound, TypeOK
<1>2. CASE FailAt(p, "truncated \\x escape")
  BY <1>2, FailSound
<1>3. CASE FailAt(p, "invalid \\x escape digit")
  BY <1>3, FailSound
<1>4. CASE Room(p, 2) /\ HexAt(p, 2) /\ Decoded(p + 2, Utf8(Hex2(text, p)))
  <2>1. p + 2 \in Nat /\ p + 2 <= Len(text)
    BY <1>4, RoomFits
  <2>2. text[p + 1] \in HexDigit /\ text[p + 2] \in HexDigit
    BY <1>4 DEF HexAt
  <2>3. Hex2(text, p) \in Nat /\ Hex2(text, p) < 256
    BY <2>2, Hex2Type
  <2>4. Utf8(Hex2(text, p)) \in Seq(Byte)
    <3>1. Hex2(text, p) < 1114112
      BY <2>3
    <3> QED
      BY <2>3, <3>1, Utf8Type
  <2> QED
    BY <1>4, <2>1, <2>4, DecodedSound
<1> QED
  BY <1>2, <1>3, <1>4 DEF TwoDigits

\* The bytes a single-character escape stands for are bytes.
LEMMA SimpleEscapeType ==
    ASSUME NEW c \in DOMAIN SimpleEscape
    PROVE  <<SimpleEscape[c]>> \in Seq(Byte)
<1>1. SimpleEscape[c] \in {0, 8, 9, 10, 11, 12, 13}
  BY DEF SimpleEscape, Zero
<1>2. SimpleEscape[c] \in Byte
  BY <1>1, ByteBound
<1> QED
  BY <1>2

\* parse_string keeps the invariant.
LEMMA StringSound ==
    ASSUME Sound, String
    PROVE  Sound'
<1>1. text \in Seq(Byte) /\ position \in Nat /\ position <= Len(text)
  BY DEF Sound, TypeOK, InBounds
<1>2. \A S : Next1(S) => /\ position + 1 \in Nat /\ position + 1 <= Len(text)
                         /\ text[position + 1] \in S
  BY <1>1 DEF Next1, ByteIn
<1>3. ASSUME NEW message, Fail(message) PROVE Sound'
  BY <1>1, <1>3, FailSound DEF Fail
<1>4. CASE UnterminatedString
  BY <1>3, <1>4 DEF UnterminatedString
<1>5. CASE CloseString
  <2>1. out' \in Seq(Event)
    BY <1>5, AppendEvent DEF CloseString, Sound, TypeOK, EventKind
  <2> QED
    BY <1>2, <1>5, <2>1
    DEF CloseString, SkipTo, Sound, TypeOK, InBounds, NestingBounded, Labels
<1>6. CASE RawTerminator
  BY <1>3, <1>6 DEF RawTerminator
<1>7. CASE StringByte
  <2>1. position + 1 <= Len(text) /\ text[position + 1] \in Byte
    BY <1>2, <1>7 DEF StringByte
  <2>2. buf' \in Seq(Byte)
    BY <1>7, <2>1 DEF StringByte, Sound, TypeOK
  <2> QED
    BY <1>1, <1>7, <2>1, <2>2
    DEF StringByte, At, Sound, TypeOK, InBounds, NestingBounded, Labels
<1>8. CASE Backslash
  <2>1. position + 1 <= Len(text)
    BY <1>2, <1>8 DEF Backslash
  <2> QED
    BY <1>1, <1>8, <2>1
    DEF Backslash, At, Sound, TypeOK, InBounds, NestingBounded, Labels
<1>9. CASE TruncatedEscape
  BY <1>3, <1>9 DEF TruncatedEscape
<1>10. CASE EscapeSimple
  <2>1. /\ position + 1 \in Nat /\ position + 1 <= Len(text)
        /\ text[position + 1] \in DOMAIN SimpleEscape
    BY <1>2, <1>10 DEF EscapeSimple
  <2>2. <<SimpleEscape[text[position + 1]]>> \in Seq(Byte)
    BY <2>1, SimpleEscapeType
  <2> QED
    BY <1>10, <2>1, <2>2, DecodedSound DEF EscapeSimple
<1>11. CASE Continuation
  <2>1. PICK p : Decoded(p, <<>>) /\ p \in Nat /\ p <= Len(text)
    <3>1. CASE Next1({LF}) /\ Decoded(position + 1, <<>>)
      BY <1>2, <3>1
    <3>2. CASE /\ Next1({CR})
               /\ Decoded(position + (IF ByteIn(text, position + 1, {LF})
                                      THEN 2 ELSE 1), <<>>)
      <4>1. CASE ByteIn(text, position + 1, {LF})
        <5>1. position + 2 \in Nat /\ position + 2 <= Len(text)
          BY <1>1, <4>1 DEF ByteIn
        <5>2. Decoded(position + 2, <<>>)
          BY <3>2, <4>1
        <5> QED
          BY <5>1, <5>2
      <4>2. CASE ~ByteIn(text, position + 1, {LF})
        <5>1. Decoded(position + 1, <<>>)
          BY <3>2, <4>2
        <5> QED
          BY <1>2, <3>2, <5>1
      <4> QED
        BY <4>1, <4>2
    <3>3. CASE (Has(LS) \/ Has(PS)) /\ Decoded(position + 3, <<>>)
      <4>1. Len(LS) = 3 /\ Len(PS) = 3
        BY DEF LS, PS
      <4>2. position + 3 \in Nat /\ position + 3 <= Len(text)
        BY <1>1, <3>3, <4>1 DEF Has, OccursAt
      <4> QED
        BY <3>3, <4>2
    <3> QED
      BY <1>11, <3>1, <3>2, <3>3 DEF Continuation
  <2>2. <<>> \in Seq(Byte)
    OBVIOUS
  <2> QED
    BY <1>11, <2>1, <2>2, DecodedSound DEF Continuation
<1>12. CASE EscapeDigit
  <2>1. position + 1 \in Nat /\ position + 1 <= Len(text)
    BY <1>2, <1>12 DEF EscapeDigit
  <2> QED
    BY <1>12, <2>1, FailSound DEF EscapeDigit
<1>13. CASE SelfEscape
  <2>1. /\ position + 1 \in Nat /\ position + 1 <= Len(text)
        /\ text[position + 1] \in Byte
    BY <1>2, <1>13 DEF SelfEscape
  <2>2. <<text[position + 1]>> \in Seq(Byte)
    BY <2>1
  <2> QED
    BY <1>13, <2>1, <2>2, DecodedSound DEF SelfEscape
<1>14. CASE EscapeHex
  <2>1. position + 1 \in Nat /\ position + 1 <= Len(text)
    BY <1>2, <1>14 DEF EscapeHex
  <2> QED
    BY <1>14, <2>1, TwoDigitsSound DEF EscapeHex
<1>15. CASE EscapeUnicode
  <2>1. position + 1 \in Nat /\ position + 1 <= Len(text)
    BY <1>2, <1>15 DEF EscapeUnicode
  <2> QED
    BY <1>15, <2>1, FourDigitsSound DEF EscapeUnicode
<1> QED
  BY <1>4, <1>5, <1>6, <1>7, <1>8, <1>9, <1>10, <1>11, <1>12, <1>13, <1>14, <1>15
  DEF String

\* Closing a container keeps the invariant.
LEMMA CloseSound ==
    ASSUME Sound, Close
    PROVE  Sound'
<1>1. position + 1 \in Nat /\ position + 1 <= Len(text)
  BY DEF Sound, TypeOK, Close, Next1, ByteIn
<1>2. stack' \in Seq(Container) /\ Len(stack') <= Len(stack)
  BY PopType DEF Close, Sound, TypeOK
<1>3. Len(stack') <= MaxNesting + 1
  BY <1>2, NestingAssumption DEF Sound, TypeOK, NestingBounded
<1>4. out' \in Seq(Event)
  BY AppendMark DEF Close, Sound, TypeOK
<1>5. after' \in Places
  BY AfterValueType DEF Close, SkipTo, Places
<1> QED
  BY <1>1, <1>2, <1>3, <1>4, <1>5
  DEF Close, SkipTo, Sound, TypeOK, InBounds, NestingBounded, Labels

\* The loops of objects and arrays keep the invariant.
LEMMA ContainersSound ==
    ASSUME Sound, Containers
    PROVE  Sound'
<1>1. text \in Seq(Byte) /\ position \in Nat /\ position <= Len(text)
  BY DEF Sound, TypeOK, InBounds
<1>2. \A S : Next1(S) => /\ position + 1 \in Nat /\ position + 1 <= Len(text)
                         /\ text[position + 1] \in S
  BY <1>1 DEF Next1, ByteIn
<1>3. ASSUME NEW message, Fail(message) PROVE Sound'
  BY <1>1, <1>3, FailSound DEF Fail
<1>4. CASE CloseEarly
  BY <1>4, CloseSound DEF CloseEarly
<1>5. CASE KeyString
  BY <1>2, <1>5
  DEF KeyString, OpenString, Sound, TypeOK, InBounds, NestingBounded, Labels, Places
<1>6. CASE KeyIdentifier
  <2>1. PICK end \in Nat : /\ end = RunEnd(text, position, IdContinue)
                           /\ end <= Len(text)
    BY <1>1, RunEndRange
  <2>2. /\ SkipTo(end, "colon")
        /\ out' = Append(out, Leaf("key", Slice(text, position, end)))
        /\ UNCHANGED <<text, stack, closing, buf, error>>
    BY <1>6, <2>1 DEF KeyIdentifier
  <2>3. out' \in Seq(Event)
    BY <1>1, <2>1, <2>2, SliceType, AppendEvent DEF Sound, TypeOK, EventKind
  <2> QED
    BY <2>1, <2>2, <2>3
    DEF SkipTo, Sound, TypeOK, InBounds, NestingBounded, Labels, Places
<1>7. CASE NoKey
  BY <1>3, <1>7 DEF NoKey
<1>8. CASE Element
  BY <1>8 DEF Element, Sound, TypeOK, InBounds, NestingBounded, Labels, Places
<1>9. CASE ColonStep
  <2>1. CASE Fail("':' expected after an object key")
    BY <1>3, <2>1
  <2>2. CASE /\ Next1({Colon}) /\ SkipTo(position + 1, "value")
             /\ UNCHANGED <<text, stack, closing, buf, out, error>>
    BY <1>2, <2>2
    DEF SkipTo, Sound, TypeOK, InBounds, NestingBounded, Labels, Places
  <2> QED
    BY <1>9, <2>1, <2>2 DEF ColonStep
<1>10. CASE CommaStep
  <2>1. FirstItem(Innermost) \in Places
    BY DEF FirstItem, Places
  <2> QED
    BY <1>2, <1>10, <2>1
    DEF CommaStep, SkipTo, Sound, TypeOK, InBounds, NestingBounded, Labels
<1>11. CASE CloseLate
  BY <1>11, CloseSound DEF CloseLate
<1>12. CASE NoDelimiter
  BY <1>3, <1>12 DEF NoDelimiter
<1> QED
  BY <1>4, <1>5, <1>6, <1>7, <1>8, <1>9, <1>10, <1>11, <1>12 DEF Containers

\* Every step keeps the invariant.
LEMMA StepSound ==
    ASSUME Sound, [Next]_vars
    PROVE  Sound'
<1>1. position \in Nat /\ position <= Len(text)
  BY DEF Sound, TypeOK, InBounds
<1>2. CASE Finish
  <2>1. CASE Fail("input continues after the value")
    BY <1>1, <2>1, FailSound DEF Fail
  <2>2. CASE /\ pc' = "accepted"
             /\ UNCHANGED <<text, position, after, stack, closing, buf, out, error>>
    BY <2>2 DEF Sound, TypeOK, InBounds, NestingBounded, Labels
  <2> QED
    BY <1>2, <2>1, <2>2 DEF Finish
<1>3. CASE UNCHANGED vars
  BY <1>3 DEF vars, Sound, TypeOK, InBounds, NestingBounded
<1> QED
  BY <1>2, <1>3, WhitespaceSound, ValueSound, StringSound, ContainersSound
  DEF Next, Returned

\* The invariant holds when loads is called.
LEMMA InitSound == Init => Sound
<1> SUFFICES ASSUME Init PROVE Sound
  OBVIOUS
<1>1. text \in Seq(Byte)
  BY TextsAssumption DEF Init
<1>2. error.position = 0
  BY DEF Init, NoError
<1>3. InBounds
  BY <1>1, <1>2 DEF Init, InBounds
<1>4. NestingBounded
  BY NestingAssumption DEF Init, NestingBounded
<1>5. TypeOK
  BY <1>1, <1>2 DEF Init, TypeOK, Labels, Places
<1> QED
  BY <1>3, <1>4, <1>5 DEF Sound

\* The invariant holds in every state of every run.
LEMMA SoundAlways == Spec => []Sound
<1>1. Sound /\ [Next]_vars => Sound'
  BY StepSound
<1> QED
  BY InitSound, <1>1, PTL DEF Spec

-----------------------------------------------------------------------------
(***************************************************************************)
(* The theorems.                                                           *)
(***************************************************************************)
\* The state of the parser always has its type: in particular what the escapes
\* and the identifiers put into a document are bytes, and the place control
\* returns to after a skip or a string is one the code has.
THEOREM TypeCorrect == Spec => []TypeOK
BY SoundAlways, PTL DEF Sound

\* The parser never stands beyond the end of the text, whatever the text: the
\* substr calls of has and consume_literal never throw.
THEOREM PositionInText == Spec => []InBounds
BY SoundAlways, PTL DEF Sound

\* The recursion of parse_value is never deeper than the limit allows, whatever
\* the text and the limit.
THEOREM RecursionBounded == Spec => []NestingBounded
BY SoundAlways, PTL DEF Sound


-----------------------------------------------------------------------------
(***************************************************************************)
(* Progress.  The two ways a step lowers the variant.                      *)
(***************************************************************************)
\* The rank of a place is below four.
LEMMA RankRange ==
    Rank \in 0..3 /\ Rank' \in 0..3
BY DEF Rank, Done

\* Only the ends of the parser have rank 0.
LEMMA RankPositive == ~Done => Rank >= 1
BY DEF Rank, Done

\* A step that consumes bytes.
LEMMA Consumes ==
    ASSUME Sound, UNCHANGED text, NEW p \in Nat, position + 1 <= p, position' = p
    PROVE  Variant' < Variant
<1>1. position \in Nat /\ Len(text) \in Nat
  BY DEF Sound, TypeOK
<1> QED
  BY <1>1, RankRange DEF Variant

\* A step that consumes nothing, or no more, and comes to a place of lower rank.
LEMMA Descends ==
    ASSUME Sound, UNCHANGED text, NEW p \in Nat, position <= p, position' = p,
           Rank' < Rank
    PROVE  Variant' < Variant
<1>1. position \in Nat /\ Len(text) \in Nat
  BY DEF Sound, TypeOK
<1> QED
  BY <1>1, RankRange DEF Variant

\* A failure.
LEMMA FailDescends ==
    ASSUME Sound, ~Done, NEW p \in Nat, position <= p, NEW message, FailAt(p, message)
    PROVE  Variant' < Variant
<1>1. Rank' = 0 /\ Rank >= 1
  BY RankPositive DEF FailAt, Rank, Done
<1>2. Rank' < Rank
  BY <1>1, RankRange
<1> QED
  BY <1>2, Descends DEF FailAt

\* A failure where the parser stands.
LEMMA FailHere ==
    ASSUME Sound, ~Done, NEW message, Fail(message)
    PROVE  Variant' < Variant
<1>1. position \in Nat /\ position <= position
  BY DEF Sound, TypeOK
<1> QED
  BY <1>1, FailDescends DEF Fail

-----------------------------------------------------------------------------
(***************************************************************************)
(* The actions.                                                            *)
(***************************************************************************)
\* skip_whitespace: each iteration consumes bytes, its exit does not but leads
\* to a place of lower rank.
LEMMA WhitespaceProgress ==
    ASSUME Sound, Whitespace
    PROVE  Variant' < Variant
<1>1. text \in Seq(Byte) /\ Len(text) \in Nat /\ position \in Nat /\ position <= Len(text)
  BY DEF Sound, TypeOK, InBounds
<1>2. At("skip") => ~Done
  BY DEF At, Done
<1>3. CASE SkipSpace
  BY <1>1, <1>3, Consumes DEF SkipSpace, Skip
<1>4. CASE SkipMultibyte
  <2>1. PICK word \in {NBSP, LS, PS, BOM} : Skip(position + Len(word))
    BY <1>4 DEF SkipMultibyte
  <2>2. Len(word) \in Nat /\ Len(word) >= 1
    BY DEF NBSP, LS, PS, BOM
  <2>3. position + Len(word) \in Nat /\ position + 1 <= position + Len(word)
    BY <1>1, <2>2
  <2> QED
    BY <2>1, <2>3, Consumes DEF Skip
<1>5. CASE SkipLineComment
  <2>1. position + 2 \in Nat /\ position + 2 <= Len(text)
    BY <1>1, <1>5 DEF SkipLineComment, Has, OccursAt
  <2>2. PICK q \in Nat : q = RunEnd(text, position + 2, Byte \ LineEnd)
                         /\ position + 2 <= q
    BY <1>1, <2>1, RunEndRange
  <2>3. position + 1 <= q
    BY <1>1, <2>2
  <2> QED
    BY <1>5, <2>2, <2>3, Consumes DEF SkipLineComment, Skip
<1>6. CASE SkipBlockComment
  <2>1. PICK q \in CommentEnds : Skip(q + 2)
    BY <1>6 DEF SkipBlockComment
  <2>2. q + 2 \in Nat /\ position + 1 <= q + 2
    BY <1>1, <2>1 DEF CommentEnds
  <2> QED
    BY <2>1, <2>2, Consumes DEF Skip
<1>7. CASE UnterminatedComment
  <2>1. position + 2 <= Len(text)
    BY <1>1, <1>7 DEF UnterminatedComment, Has, OccursAt
  <2>2. PICK p \in Nat : position <= p /\ FailAt(p, "unterminated block comment")
    <3>1. CASE position + 2 = Len(text)
      BY <1>1, <1>7, <3>1 DEF UnterminatedComment
    <3>2. CASE position + 2 # Len(text)
      <4>1. Len(text) - 1 \in Nat /\ position <= Len(text) - 1
        BY <1>1, <2>1
      <4> QED
        BY <1>7, <3>2, <4>1 DEF UnterminatedComment
    <3> QED
      BY <3>1, <3>2
  <2> QED
    BY <1>2, <1>7, <2>2, FailDescends DEF UnterminatedComment
<1>8. CASE LoneSlash
  BY <1>2, <1>8, FailHere DEF LoneSlash
<1>9. CASE SkipDone
  <2>1. pc = "skip" /\ pc' \in Places
    BY <1>9 DEF SkipDone, At, Sound, TypeOK
  <2>2. Rank = 3 /\ Rank' < 3
    BY <2>1 DEF Rank, Done, Places
  <2> QED
    BY <1>1, <1>9, <2>2, Descends DEF SkipDone
<1> QED
  BY <1>3, <1>4, <1>5, <1>6, <1>7, <1>8, <1>9 DEF Whitespace

\* parse_value: a value that starts takes at least a byte.
LEMMA ValueProgress ==
    ASSUME Sound, Value
    PROVE  Variant' < Variant
<1>1. text \in Seq(Byte) /\ position \in Nat /\ position <= Len(text)
  BY DEF Sound, TypeOK, InBounds
<1>2. pc = "value"
  BY DEF Value, NestingTooDeep, NoValue, Open, ValueString, Literal, Number, Entering, At
<1>3. ~Done
  BY <1>2 DEF Done
<1>4. ASSUME NEW message, Fail(message) PROVE Variant' < Variant
  BY <1>3, <1>4, FailHere
<1>5. ASSUME NEW container \in Container, Open(container)
      PROVE  Variant' < Variant
  BY <1>1, <1>5, Consumes DEF Open, SkipTo
<1>6. CASE ValueString
  BY <1>1, <1>6, Consumes DEF ValueString, OpenString
<1>7. ASSUME NEW l \in DOMAIN Literals, Literal(l)
      PROVE  Variant' < Variant
  <2>1. Len(Literals[l]) \in Nat /\ Len(Literals[l]) >= 1
    BY LiteralFacts
  <2>2. /\ position + Len(Literals[l]) \in Nat
        /\ position + 1 <= position + Len(Literals[l])
    BY <1>1, <2>1
  <2>3. CASE Scalar(position + Len(Literals[l]), Mark(l))
    BY <2>2, <2>3, Consumes DEF Scalar, SkipTo
  <2> QED
    BY <1>4, <1>7, <2>3 DEF Literal
<1>8. CASE Number
  <2> DEFINE scan == ScanNumber(text, position)
  <2>1. Fits(text, scan, position, position + 1)
    BY <1>1, ScanNumberFits
  <2>2. scan.end \in Nat /\ position <= scan.end
    BY <2>1 DEF Fits
  <2>3. CASE /\ scan.message = ""
             /\ Scalar(scan.end, Leaf("number", Slice(text, position, scan.end)))
    <3>1. position + 1 <= scan.end
      BY <2>1, <2>3 DEF Fits
    <3> QED
      BY <2>2, <2>3, <3>1, Consumes DEF Scalar, SkipTo
  <2>4. CASE FailAt(scan.end, scan.message)
    BY <1>3, <2>2, <2>4, FailDescends
  <2> QED
    BY <1>8, <2>3, <2>4 DEF Number
<1> QED
  BY <1>4, <1>5, <1>6, <1>7, <1>8 DEF Value, NestingTooDeep, NoValue

\* parse_string: every byte, escape and quote is consumed.
LEMMA StringProgress ==
    ASSUME Sound, String
    PROVE  Variant' < Variant
<1>1. position \in Nat
  BY DEF Sound, TypeOK
<1>2. At("string") \/ At("escape") => ~Done
  BY DEF At, Done
<1>3. ASSUME At("string") \/ At("escape"), NEW p \in Nat, position <= p,
             NEW message, FailAt(p, message)
      PROVE  Variant' < Variant
  BY <1>2, <1>3, FailDescends
<1>4. ASSUME NEW p \in Nat, position + 1 <= p, NEW bytes, Decoded(p, bytes)
      PROVE  Variant' < Variant
  BY <1>4, Consumes DEF Decoded
<1>5. /\ position + 1 \in Nat /\ position <= position + 1
      /\ position + 1 <= position + 1
      /\ position + 2 \in Nat /\ position + 1 <= position + 2
      /\ position + 3 \in Nat /\ position + 1 <= position + 3
  BY <1>1
<1>6. CASE UnterminatedString \/ RawTerminator \/ TruncatedEscape
  BY <1>2, <1>6, FailHere DEF UnterminatedString, RawTerminator, TruncatedEscape
<1>7. CASE EscapeDigit
  BY <1>3, <1>5, <1>7 DEF EscapeDigit
<1>8. CASE CloseString \/ StringByte \/ Backslash
  BY <1>5, <1>8, Consumes DEF CloseString, SkipTo, StringByte, Backslash
<1>9. CASE EscapeSimple \/ SelfEscape
  BY <1>4, <1>5, <1>9 DEF EscapeSimple, SelfEscape
<1>10. CASE Continuation
  <2>1. position + (IF ByteIn(text, position + 1, {LF}) THEN 2 ELSE 1)
           \in {position + 1, position + 2}
    OBVIOUS
  <2> QED
    BY <1>4, <1>5, <1>10, <2>1 DEF Continuation
<1>11. CASE EscapeHex
  <2>1. /\ position + 1 \in Nat /\ position <= position + 1
        /\ position + 1 + 2 \in Nat /\ position + 1 <= position + 1 + 2
    BY <1>1
  <2> QED
    BY <1>3, <1>4, <1>11, <2>1 DEF EscapeHex, TwoDigits
<1>12. CASE EscapeUnicode
  <2> DEFINE p == position + 1
  <2>1. /\ p \in Nat /\ position <= p
        /\ p + 4 \in Nat /\ position <= p + 4 /\ position + 1 <= p + 4
        /\ p + 4 + 2 \in Nat /\ position <= p + 4 + 2
        /\ p + 4 + 6 \in Nat /\ position <= p + 4 + 6 /\ position + 1 <= p + 4 + 6
    BY <1>1
  <2>2. At("escape") /\ FourDigits(p)
    BY <1>12 DEF EscapeUnicode
  <2> HIDE DEF p
  <2>3. ASSUME NEW q \in {p, p + 4 + 2}, NoHex4(q) PROVE Variant' < Variant
    BY <1>3, <2>1, <2>2, <2>3 DEF NoHex4
  <2>4. ASSUME NEW high, SecondSurrogate(high, p + 4) PROVE Variant' < Variant
    BY <1>3, <1>4, <2>1, <2>2, <2>3, <2>4 DEF SecondSurrogate
  <2> QED
    BY <1>3, <1>4, <2>1, <2>2, <2>3, <2>4 DEF FourDigits
<1> QED
  BY <1>6, <1>7, <1>8, <1>9, <1>10, <1>11, <1>12 DEF String

\* The loops of objects and arrays.
LEMMA ContainersProgress ==
    ASSUME Sound, Containers
    PROVE  Variant' < Variant
<1>1. text \in Seq(Byte) /\ position \in Nat /\ position <= Len(text)
  BY DEF Sound, TypeOK, InBounds
<1>2. position + 1 \in Nat /\ position + 1 <= position + 1
  BY <1>1
<1>3. ASSUME NEW message, Fail(message), At("member") \/ At("colon") \/ At("delimiter")
      PROVE  Variant' < Variant
  BY <1>3, FailHere DEF At, Done
<1>4. CASE Close
  BY <1>2, <1>4, Consumes DEF Close, SkipTo
<1>5. CASE KeyString
  BY <1>2, <1>5, Consumes DEF KeyString, OpenString
<1>6. CASE KeyIdentifier
  <2>1. ByteIn(text, position, IdContinue)
    BY <1>6 DEF KeyIdentifier, Next1, ByteIn, IdContinue
  <2>2. PICK end \in Nat : end = RunEnd(text, position, IdContinue) /\ position < end
    BY <1>1, <2>1, RunEndRange
  <2>3. position + 1 <= end
    BY <1>1, <2>2
  <2> QED
    BY <1>6, <2>2, <2>3, Consumes DEF KeyIdentifier, SkipTo
<1>7. CASE Element
  <2>1. Rank' < Rank
    BY <1>7 DEF Element, At, Rank, Done
  <2> QED
    BY <1>1, <1>7, <2>1, Descends DEF Element
<1>8. CASE ColonStep
  BY <1>2, <1>3, <1>8, Consumes DEF ColonStep, SkipTo
<1>9. CASE CommaStep
  BY <1>2, <1>9, Consumes DEF CommaStep, SkipTo
<1> QED
  BY <1>3, <1>4, <1>5, <1>6, <1>7, <1>8, <1>9
  DEF Containers, CloseEarly, CloseLate, NoKey, NoDelimiter

\* A step that changes the state lowers the variant.
LEMMA StepProgress ==
    ASSUME Sound, Next
    PROVE  Variant' < Variant \/ UNCHANGED vars
<1>1. position \in Nat /\ position <= position
  BY DEF Sound, TypeOK
<1>2. CASE Finish
  <2>1. pc = "end" /\ ~Done
    BY <1>2 DEF Finish, At, Done
  <2>2. CASE Fail("input continues after the value")
    BY <2>1, <2>2, FailHere
  <2>3. CASE /\ pc' = "accepted"
             /\ UNCHANGED <<text, position, after, stack, closing, buf, out, error>>
    <3>1. Rank' < Rank
      BY <2>1, <2>3 DEF Rank, Done
    <3> QED
      BY <1>1, <2>3, <3>1, Descends
  <2> QED
    BY <1>2, <2>2, <2>3 DEF Finish
<1> QED
  BY <1>2, WhitespaceProgress, ValueProgress, StringProgress, ContainersProgress
  DEF Next, Returned

(***************************************************************************)
(* Every step of the parser, on every text, consumes bytes or comes closer *)
(* to a test that does: no handler of load.hpp can loop without consuming, *)
(* and a text of n bytes takes at most 4n + 3 steps.                       *)
(***************************************************************************)
THEOREM EveryStepProgresses == Spec => Progress
<1>1. Sound /\ [Next]_vars => [Variant' < Variant]_vars
  BY StepProgress
<1> QED
  BY SoundAlways, <1>1, PTL DEF Spec, Progress

-----------------------------------------------------------------------------
(***************************************************************************)
(* The parser and the document it builds.                                  *)
(***************************************************************************)

\* PlaceAgrees is not inductive by itself: after a ':' it must be known that
\* a container being open means that the document has begun.
Placed == PlaceAgrees /\ (stack # <<>> => out # <<>>)

\* The reader of strings is at work.
ReadingString == pc \in {"string", "escape"}

-----------------------------------------------------------------------------
(***************************************************************************)
(* The building blocks of the actions.                                     *)
(***************************************************************************)
\* The last event of a document is the one that was appended to it.
LEMMA LastAppended ==
    ASSUME out \in Seq(Event), NEW e, out' = Append(out, e), e.kind # "key"
    PROVE  out' # <<>> /\ ~ValueDue'
<1>1. out' # <<>> /\ out'[Len(out')] = e
  OBVIOUS
<1> QED
  BY <1>1 DEF ValueDue

\* The same for a key.
LEMMA KeyAppended ==
    ASSUME out \in Seq(Event), NEW e, out' = Append(out, e), e.kind = "key"
    PROVE  out' # <<>> /\ ValueDue'
<1>1. out' # <<>> /\ out'[Len(out')] = e
  OBVIOUS
<1> QED
  BY <1>1 DEF ValueDue

\* A failure ends the parser: nothing is looked for any more.
LEMMA FailPlaced ==
    ASSUME Placed, NEW p, NEW message, FailAt(p, message)
    PROVE  Placed'
BY DEF Placed, PlaceAgrees, Place, FailAt

\* Steps that leave the place and the document alone.
LEMMA SamePlace ==
    ASSUME Placed, UNCHANGED <<stack, out>>, Place' = Place, ReadingString' = ReadingString,
           ReadingString => after' = after, pc' # "accepted"
    PROVE  Placed'
BY DEF Placed, PlaceAgrees, ValueDue, Inside, Innermost, ReadingString

\* A complete value leads to the delimiter or to the end of the text.
LEMMA ValuePlaced ==
    ASSUME out \in Seq(Event), NEW e, e.kind # "key", out' = Append(out, e),
           NEW p, SkipTo(p, AfterValue(stack'))
    PROVE  Placed'
<1>1. out' # <<>> /\ ~ValueDue'
  BY LastAppended
<1>2. pc' = "skip" /\ Place' = AfterValue(stack')
  BY DEF SkipTo, Place
<1>3. CASE stack' = <<>>
  BY <1>1, <1>2, <1>3 DEF Placed, PlaceAgrees, AfterValue
<1>4. CASE stack' # <<>>
  BY <1>1, <1>2, <1>4 DEF Placed, PlaceAgrees, AfterValue
<1> QED
  BY <1>3, <1>4

-----------------------------------------------------------------------------
(***************************************************************************)
(* The actions.                                                            *)
(***************************************************************************)
\* skip_whitespace.
LEMMA WhitespacePlaced ==
    ASSUME Sound, Placed, Whitespace
    PROVE  Placed'
<1>1. ASSUME NEW p, At("skip"), Skip(p) PROVE Placed'
  BY <1>1, SamePlace DEF Skip, At, Place, ReadingString
<1>2. CASE SkipDone
  BY <1>2, SamePlace DEF SkipDone, At, Place, ReadingString, Sound, TypeOK, Places
<1>3. CASE UnterminatedComment
  BY <1>3, FailPlaced DEF UnterminatedComment
<1>4. CASE LoneSlash
  BY <1>4, FailPlaced DEF LoneSlash, Fail
<1> QED
  BY <1>1, <1>2, <1>3, <1>4
  DEF Whitespace, SkipSpace, SkipMultibyte, SkipLineComment, SkipBlockComment

\* The escapes.
LEMMA DecodedPlaced ==
    ASSUME Placed, At("escape"), NEW p, NEW bytes, Decoded(p, bytes)
    PROVE  Placed'
BY SamePlace DEF Decoded, At, Place, ReadingString

\* parse_value.
LEMMA ValueStepPlaced ==
    ASSUME Sound, Placed, Value
    PROVE  Placed'
<1>1. out \in Seq(Event) /\ stack \in Seq(Container)
  BY DEF Sound, TypeOK
<1>2. CASE NestingTooDeep
  BY <1>2, FailPlaced DEF NestingTooDeep, Fail
<1>3. CASE NoValue
  BY <1>3, FailPlaced DEF NoValue, Fail
<1>4. ASSUME NEW container \in Container, Open(container)
      PROVE  Placed'
  <2>1. out' # <<>> /\ ~ValueDue'
    <3>1. OpenMark(container).kind # "key" /\ out' = Append(out, OpenMark(container))
      BY <1>4 DEF Open, OpenMark, Mark
    <3> QED
      BY <1>1, <3>1, LastAppended
  <2>2. Inside(container)'
    <3>1. stack' = Append(stack, container)
      BY <1>4 DEF Open
    <3> QED
      BY <1>1, <3>1 DEF Inside, Innermost
  <2>3. pc' = "skip" /\ Place' = FirstItem(container)
    BY <1>4 DEF Open, SkipTo, Place
  <2>4. CASE container = "object"
    BY <2>1, <2>2, <2>3, <2>4 DEF FirstItem, Placed, PlaceAgrees
  <2>5. CASE container = "array"
    BY <2>1, <2>2, <2>3, <2>5 DEF FirstItem, Placed, PlaceAgrees
  <2> QED
    BY <2>4, <2>5 DEF Container
<1>5. CASE ValueString
  <2>1. /\ pc = "value" /\ pc' = "string" /\ after' = AfterValue(stack)
        /\ UNCHANGED <<stack, out>>
    BY <1>5 DEF ValueString, OpenString, Entering, At
  <2>2. IF ValueDue THEN out = <<>> <=> stack = <<>> ELSE Inside("array")
    BY <2>1 DEF Placed, PlaceAgrees, Place
  <2>3. ValueDue' = ValueDue /\ Inside("array")' = Inside("array")
    BY <2>1 DEF ValueDue, Inside, Innermost
  <2>4. Place' = AfterValue(stack)
    BY <2>1 DEF Place
  <2>5. CASE stack = <<>>
    <3>1. out = <<>>
      BY <2>2, <2>5 DEF Inside, ValueDue
    <3> QED
      BY <2>1, <2>4, <2>5, <3>1 DEF AfterValue, Placed, PlaceAgrees
  <2>6. CASE stack # <<>>
    BY <2>1, <2>2, <2>3, <2>4, <2>6 DEF AfterValue, Placed, PlaceAgrees
  <2> QED
    BY <2>5, <2>6
<1>6. ASSUME NEW p, NEW e, e.kind # "key", Scalar(p, e)
      PROVE  Placed'
  <2>1. SkipTo(p, AfterValue(stack')) /\ out' = Append(out, e)
    BY <1>6 DEF Scalar
  <2> QED
    BY <1>1, <1>6, <2>1, ValuePlaced
<1>7. ASSUME NEW l \in DOMAIN Literals, Literal(l)
      PROVE  Placed'
  <2>1. Mark(l).kind # "key"
    BY DEF Mark, Literals
  <2> QED
    BY <1>6, <1>7, <2>1, FailPlaced DEF Literal, Fail
<1>8. CASE Number
  <2>1. \A bytes : Leaf("number", bytes).kind # "key"
    BY DEF Leaf
  <2> QED
    BY <1>6, <1>8, <2>1, FailPlaced DEF Number
<1> QED
  BY <1>2, <1>3, <1>4, <1>5, <1>7, <1>8 DEF Value

\* parse_string.
LEMMA StringPlaced ==
    ASSUME Sound, Placed, String
    PROVE  Placed'
<1>1. ASSUME NEW p, NEW message, FailAt(p, message) PROVE Placed'
  BY <1>1, FailPlaced
<1>2. CASE CloseString
  <2>1. out \in Seq(Event) /\ stack \in Seq(Container) /\ UNCHANGED stack
    BY <1>2 DEF Sound, TypeOK, CloseString
  <2>2. /\ pc = "string" /\ pc' = "skip" /\ after' = after
        /\ Place = after /\ Place' = after
    BY <1>2 DEF CloseString, SkipTo, At, Place
  <2>3. after \in {"colon", "delimiter", "end"}
    BY <2>2 DEF Placed, PlaceAgrees
  <2>4. CASE after = "colon"
    <3> DEFINE e == Leaf("key", buf)
    <3>1. e.kind = "key" /\ out' = Append(out, e)
      BY <1>2, <2>4 DEF CloseString, Leaf
    <3>2. out' # <<>> /\ ValueDue'
      <4> HIDE DEF e
      <4> QED
        BY <2>1, <3>1, KeyAppended
    <3>3. Inside("object")'
      BY <2>1, <2>2, <2>4 DEF Placed, PlaceAgrees, Inside, Innermost
    <3> QED
      BY <2>2, <2>4, <3>2, <3>3 DEF Placed, PlaceAgrees
  <2>5. CASE after # "colon"
    <3> DEFINE e == Leaf("string", buf)
    <3>1. e.kind # "key" /\ out' = Append(out, e)
      BY <1>2, <2>5 DEF CloseString, Leaf
    <3>2. SkipTo(position + 1, AfterValue(stack'))
      BY <1>2, <2>1, <2>2, <2>3, <2>5 DEF CloseString, SkipTo, Placed, PlaceAgrees, AfterValue
    <3> HIDE DEF e
    <3> QED
      BY <2>1, <3>1, <3>2, ValuePlaced
  <2> QED
    BY <2>4, <2>5
<1>3. CASE StringByte
  BY <1>3, SamePlace DEF StringByte, At, Place, ReadingString
<1>4. CASE Backslash
  BY <1>4, SamePlace DEF Backslash, At, Place, ReadingString
<1>5. ASSUME NEW p, NEW bytes, At("escape"), Decoded(p, bytes) PROVE Placed'
  BY <1>5, DecodedPlaced
<1>6. CASE EscapeHex
  BY <1>1, <1>5, <1>6 DEF EscapeHex, TwoDigits
<1>7. CASE EscapeUnicode
  BY <1>1, <1>5, <1>7 DEF EscapeUnicode, FourDigits, NoHex4, SecondSurrogate
<1>8. CASE Continuation
  BY <1>5, <1>8 DEF Continuation
<1> QED
  BY <1>1, <1>2, <1>3, <1>4, <1>5, <1>6, <1>7, <1>8
  DEF String, UnterminatedString, RawTerminator, TruncatedEscape, EscapeSimple,
      EscapeDigit, SelfEscape, Fail

\* The loops of objects and arrays.
LEMMA ContainersPlaced ==
    ASSUME Sound, Placed, Containers
    PROVE  Placed'
<1>1. ASSUME NEW p, NEW message, FailAt(p, message) PROVE Placed'
  BY <1>1, FailPlaced
<1>2. out \in Seq(Event)
  BY DEF Sound, TypeOK
<1>3. ASSUME Close PROVE Placed'
  <2> DEFINE e == CloseMark(Innermost)
  <2>1. e.kind # "key" /\ out' = Append(out, e)
    BY <1>3 DEF Close, CloseMark, Mark
  <2>2. SkipTo(position + 1, AfterValue(stack'))
    BY <1>3 DEF Close
  <2> HIDE DEF e
  <2> QED
    BY <1>2, <2>1, <2>2, ValuePlaced
<1>4. CASE KeyString
  <2>1. /\ pc = "member" /\ pc' = "string" /\ after' = "colon"
        /\ UNCHANGED <<stack, out>>
    BY <1>4 DEF KeyString, OpenString, At
  <2>2. Inside("object") /\ ~ValueDue
    BY <2>1 DEF Placed, PlaceAgrees, Place
  <2> QED
    BY <2>1, <2>2 DEF Placed, PlaceAgrees, Place, Inside, Innermost, ValueDue
<1>5. CASE KeyIdentifier
  <2> DEFINE e == Leaf("key", Slice(text, position, RunEnd(text, position, IdContinue)))
  <2>1. e.kind = "key" /\ out' = Append(out, e)
    BY <1>5 DEF KeyIdentifier, Leaf
  <2>2. out' # <<>> /\ ValueDue'
    <3> HIDE DEF e
    <3> QED
      BY <1>2, <2>1, KeyAppended
  <2>3. pc = "member" /\ pc' = "skip" /\ after' = "colon" /\ UNCHANGED stack
    BY <1>5 DEF KeyIdentifier, SkipTo, At
  <2>4. Inside("object")'
    BY <2>3 DEF Placed, PlaceAgrees, Place, Inside, Innermost
  <2> QED
    BY <2>2, <2>3, <2>4 DEF Placed, PlaceAgrees, Place
<1>6. CASE Element
  <2>1. pc = "element" /\ pc' = "value" /\ UNCHANGED <<stack, out>>
    BY <1>6 DEF Element, At
  <2> QED
    BY <2>1 DEF Placed, PlaceAgrees, Place, Inside, Innermost, ValueDue
<1>7. CASE /\ At("colon") /\ SkipTo(position + 1, "value")
           /\ UNCHANGED <<text, stack, closing, buf, out, error>>
  <2>1. pc = "colon" /\ pc' = "skip" /\ after' = "value" /\ UNCHANGED <<stack, out>>
    BY <1>7 DEF SkipTo, At
  <2>2. stack # <<>> /\ out # <<>> /\ ValueDue
    BY <2>1 DEF Placed, PlaceAgrees, Place, Inside
  <2> QED
    BY <2>1, <2>2 DEF Placed, PlaceAgrees, Place, ValueDue
<1>8. CASE CommaStep
  <2>1. /\ pc = "delimiter" /\ pc' = "skip" /\ after' = FirstItem(Innermost)
        /\ UNCHANGED <<stack, out>>
    BY <1>8 DEF CommaStep, SkipTo, At
  <2>2. stack # <<>> /\ ~ValueDue
    BY <2>1 DEF Placed, PlaceAgrees, Place
  <2>3. Innermost \in Container
    BY <2>2 DEF Innermost, Sound, TypeOK
  <2> QED
    BY <2>1, <2>2, <2>3
    DEF Placed, PlaceAgrees, Place, FirstItem, Container, Inside, Innermost, ValueDue
<1> QED
  BY <1>1, <1>3, <1>4, <1>5, <1>6, <1>7, <1>8
  DEF Containers, CloseEarly, NoKey, ColonStep, CloseLate, NoDelimiter, Fail

\* Every step keeps the place and the document in agreement.
LEMMA StepPlaced ==
    ASSUME Sound, Placed, [Next]_vars
    PROVE  Placed'
<1>1. CASE Finish
  <2>1. CASE pc' = "accepted" /\ UNCHANGED <<stack, out>>
    BY <1>1, <2>1
    DEF Finish, At, Placed, PlaceAgrees, Place, ValueDue
  <2>2. CASE Fail("input continues after the value")
    BY <2>2, FailPlaced DEF Fail
  <2> QED
    BY <1>1, <2>1, <2>2 DEF Finish
<1>2. CASE UNCHANGED vars
  BY <1>2 DEF vars, Placed, PlaceAgrees, Place, ValueDue, Inside, Innermost
<1> QED
  BY <1>1, <1>2, WhitespacePlaced, ValueStepPlaced, StringPlaced, ContainersPlaced
  DEF Next, Returned

-----------------------------------------------------------------------------
\* At its start the parser looks for a value and has no document.
LEMMA InitPlaced == Init => Placed
BY DEF Init, Placed, PlaceAgrees, Place, ValueDue, Inside

\* The agreement holds in every state of every run.
LEMMA PlacedAlways == Spec => []Placed
<1>1. Sound /\ Placed /\ [Next]_vars => Placed'
  BY StepPlaced
<1> QED
  BY InitPlaced, SoundAlways, <1>1, PTL DEF Spec

(***************************************************************************)
(* Keys are read only inside objects and elements only inside arrays, a    *)
(* ':' follows a key and nothing else, and a text is accepted only when    *)
(* every container is closed and the last value is complete, whatever the  *)
(* text and the limit: the separate loops of parse_object and parse_array  *)
(* return to the right place on every path.                                *)
(***************************************************************************)
THEOREM PlaceAndDocumentAgree == Spec => []PlaceAgrees
BY PlacedAlways, PTL DEF Placed

-----------------------------------------------------------------------------
(***************************************************************************)
(* The refinement: what the building blocks of the actions are in module   *)
(* Document.                                                               *)
(***************************************************************************)
\* Steps that write nothing and do not end the parser are invisible.
LEMMA Invisible ==
    ASSUME ~Done, ~Done', UNCHANGED <<stack, out>>
    PROVE  UNCHANGED Documents!vars
BY DEF Documents!vars

\* A failure gives up.
LEMMA FailGivesUp ==
    ASSUME ~Done, NEW p, NEW message, FailAt(p, message)
    PROVE  Documents!GiveUp
BY DEF FailAt, Done, Documents!GiveUp

\* Every appended event is written.
LEMMA AppendWrites ==
    ASSUME Sound, ~Done, ~Done', NEW kinds \in SUBSET EventKind,
           NEW kind \in kinds, NEW bytes \in Seq(Byte),
           out' = Append(out, Leaf(kind, bytes))
    PROVE  Documents!Write(kinds)
<1> DEFINE e == Leaf(kind, bytes)
<1>1. e \in Documents!Event(kinds)
  BY DEF Leaf, Documents!Event, Byte, Documents!Byte
<1>2. out \in Seq(Event) /\ out' = Append(out, e)
  BY DEF Sound, TypeOK
<1> HIDE DEF e
<1>3. out' # <<>> /\ out'[Len(out')] = e
  BY <1>2
<1> QED
  BY <1>1, <1>2, <1>3 DEF Documents!Write

\* A value may start wherever the place is "value" and the limit is kept.
LEMMA ValueMayStart ==
    ASSUME Placed, Place = "value", Len(stack) <= MaxNesting
    PROVE  Documents!ValueMayStart
BY DEF Placed, PlaceAgrees, Documents!ValueMayStart, Documents!ValueDue,
       Documents!Inside, ValueDue, Inside, Innermost

\* A scalar is added.
LEMMA ScalarAdds ==
    ASSUME Sound, ~Done, Documents!ValueMayStart,
           NEW kind \in Documents!ScalarKind, NEW bytes \in Seq(Byte),
           NEW p, Scalar(p, Leaf(kind, bytes))
    PROVE  Documents!AddScalar
<1>1. Documents!ScalarKind \in SUBSET EventKind
  BY DEF Documents!ScalarKind, EventKind
<1>2. ~Done' /\ out' = Append(out, Leaf(kind, bytes)) /\ UNCHANGED stack
  BY DEF Scalar, SkipTo, Done
<1>3. Documents!Write(Documents!ScalarKind)
  BY <1>1, <1>2, AppendWrites
<1> QED
  BY <1>2, <1>3 DEF Documents!AddScalar

\* A key is added, from an identifier or a string.
LEMMA KeyAdds ==
    ASSUME Sound, ~Done, ~Done', Inside("object"), ~ValueDue, UNCHANGED stack,
           NEW bytes \in Seq(Byte), out' = Append(out, Leaf("key", bytes))
    PROVE  Documents!AddKey
<1>1. {"key"} \in SUBSET EventKind
  BY DEF EventKind
<1>2. Documents!Write({"key"})
  BY <1>1, AppendWrites
<1> QED
  BY <1>2
  DEF Documents!AddKey, Documents!Inside, Documents!ValueDue, Inside, Innermost, ValueDue

\* The innermost container is closed.
LEMMA CloseCloses ==
    ASSUME Sound, ~Done, stack # <<>>, ~ValueDue, Close
    PROVE  Documents!CloseContainer
<1>1. ~Done' /\ out' = Append(out, CloseMark(Innermost)) /\ stack' = Pop(stack)
  BY DEF Close, SkipTo, Done
<1>2. Innermost \in Container
  BY DEF Innermost, Sound, TypeOK
<1> DEFINE kind == IF Innermost = "object" THEN "}" ELSE "]"
<1>3. CloseMark(Innermost) = Leaf(kind, <<>>) /\ <<>> \in Seq(Byte)
  BY DEF CloseMark, Mark, Leaf
<1>4. {kind} \in SUBSET EventKind
  BY DEF EventKind
<1>5. Documents!Write({kind})
  <2>1. out' = Append(out, Leaf(kind, <<>>))
    BY <1>1, <1>3
  <2> HIDE DEF kind
  <2> QED
    BY <1>1, <1>3, <1>4, <2>1, AppendWrites
<1> QED
  BY <1>1, <1>2, <1>5
  DEF Documents!CloseContainer, Documents!Container, Documents!Inside,
      Documents!ValueDue, Container, Innermost, ValueDue, Pop

-----------------------------------------------------------------------------
(***************************************************************************)
(* The refinement: the actions.                                            *)
(***************************************************************************)
\* skip_whitespace writes nothing.
LEMMA WhitespaceRefines ==
    ASSUME Sound, Whitespace
    PROVE  [Documents!Next]_(Documents!vars)
<1>1. ASSUME NEW p, At("skip"), Skip(p) PROVE UNCHANGED Documents!vars
  BY <1>1, Invisible DEF Skip, At, Done
<1>2. CASE SkipDone
  BY <1>2, Invisible DEF SkipDone, At, Done, Sound, TypeOK, Places
<1>3. ASSUME At("skip"), NEW p, NEW message, FailAt(p, message) PROVE Documents!Next
  BY <1>3, FailGivesUp DEF At, Done, Documents!Next
<1> QED
  BY <1>1, <1>2, <1>3
  DEF Whitespace, SkipSpace, SkipMultibyte, SkipLineComment, SkipBlockComment,
      UnterminatedComment, LoneSlash, Fail

\* parse_value adds a scalar, opens a container, or calls parse_string.
LEMMA ValueRefines ==
    ASSUME Sound, Placed, Value
    PROVE  [Documents!Next]_(Documents!vars)
<1>1. text \in Seq(Byte) /\ position \in Nat /\ position <= Len(text)
  BY DEF Sound, TypeOK, InBounds
<1>2. pc = "value" /\ ~Done /\ Place = "value"
  BY DEF Value, NestingTooDeep, NoValue, Open, ValueString, Literal, Number,
         Entering, At, Done, Place
<1>3. Entering => Documents!ValueMayStart
  BY <1>2, ValueMayStart DEF Entering
<1>4. ASSUME NEW p, NEW message, FailAt(p, message) PROVE Documents!Next
  BY <1>2, <1>4, FailGivesUp DEF Documents!Next
<1>5. ASSUME NEW container \in Container, Open(container)
      PROVE  Documents!OpenContainer
  <2> DEFINE kind == IF container = "object" THEN "{" ELSE "["
  <2>1. /\ ~Done' /\ out' = Append(out, Leaf(kind, <<>>)) /\ <<>> \in Seq(Byte)
        /\ stack' = Append(stack, container)
    <3>1. OpenMark(container) = Leaf(kind, <<>>)
      BY DEF OpenMark, Mark, Leaf
    <3> HIDE DEF kind
    <3>2. ~Done'
      BY <1>5 DEF Open, SkipTo, Done
    <3> QED
      BY <1>5, <3>1, <3>2 DEF Open
  <2>2. {kind} \in SUBSET EventKind
    BY DEF EventKind
  <2>3. Documents!Write({kind})
    <3> HIDE DEF kind
    <3> QED
      BY <1>2, <2>1, <2>2, AppendWrites
  <2> QED
    BY <1>3, <1>5, <2>1, <2>3
    DEF Documents!OpenContainer, Documents!Container, Container, Open
<1>6. CASE ValueString
  BY <1>2, <1>6, Invisible DEF ValueString, OpenString, Done
<1>7. ASSUME NEW kind \in Documents!ScalarKind, NEW bytes \in Seq(Byte), NEW p,
             Entering, Scalar(p, Leaf(kind, bytes))
      PROVE  Documents!Next
  <2>1. Documents!AddScalar
    BY <1>2, <1>3, <1>7, ScalarAdds
  <2> QED
    BY <2>1 DEF Documents!Next
<1>8. ASSUME NEW l \in DOMAIN Literals, Literal(l)
      PROVE  Documents!Next
  <2>1. l \in Documents!ScalarKind
    BY DEF Literals, Documents!ScalarKind
  <2> QED
    BY <1>4, <1>7, <1>8, <2>1, MarkIsLeaf DEF Literal, Fail
<1>9. CASE Number
  <2> DEFINE scan == ScanNumber(text, position)
  <2>1. scan.end \in Nat /\ scan.end <= Len(text)
    BY <1>1, ScanNumberFits DEF Fits
  <2>2. Slice(text, position, scan.end) \in Seq(Byte)
    BY <1>1, <2>1, SliceType
  <2>3. "number" \in Documents!ScalarKind
    BY DEF Documents!ScalarKind
  <2> QED
    BY <1>4, <1>7, <1>9, <2>2, <2>3 DEF Number
<1> QED
  BY <1>4, <1>5, <1>6, <1>8, <1>9 DEF Value, NestingTooDeep, NoValue, Fail, Documents!Next

\* parse_string writes when the string ends: a key or a value.
LEMMA StringRefines ==
    ASSUME Sound, Placed, String
    PROVE  [Documents!Next]_(Documents!vars)
<1>1. ASSUME At("string") \/ At("escape"), NEW p, NEW message, FailAt(p, message)
      PROVE  Documents!Next
  BY <1>1, FailGivesUp DEF At, Done, Documents!Next
<1>2. ASSUME At("escape"), NEW p, NEW bytes, Decoded(p, bytes)
      PROVE  UNCHANGED Documents!vars
  BY <1>2, Invisible DEF Decoded, At, Done
<1>3. CASE CloseString
  <2>1. /\ pc = "string" /\ ~Done /\ ~Done' /\ Place = after
        /\ UNCHANGED stack /\ buf \in Seq(Byte)
    BY <1>3 DEF CloseString, SkipTo, At, Done, Place, Sound, TypeOK
  <2>2. CASE after = "colon"
    <3>1. Inside("object") /\ ~ValueDue
      BY <2>1, <2>2 DEF Placed, PlaceAgrees
    <3>2. out' = Append(out, Leaf("key", buf))
      BY <1>3, <2>2 DEF CloseString
    <3>3. Documents!AddKey
      BY <2>1, <3>1, <3>2, KeyAdds
    <3> QED
      BY <3>3 DEF Documents!Next
  <2>3. CASE after # "colon"
    <3>1. ValueDue \/ Inside("array")
      BY <2>1, <2>3 DEF Placed, PlaceAgrees, ValueDue
    <3>2. Len(stack) <= MaxNesting
      BY <2>1, <2>3 DEF Sound, NestingBounded
    <3>3. Documents!ValueMayStart
      BY <3>1, <3>2 DEF Documents!ValueMayStart, Documents!ValueDue,
                        Documents!Inside, ValueDue, Inside, Innermost
    <3>4. out' = Append(out, Leaf("string", buf))
      BY <1>3, <2>3 DEF CloseString
    <3>5. "string" \in Documents!ScalarKind /\ Documents!ScalarKind \in SUBSET EventKind
      BY DEF Documents!ScalarKind, EventKind
    <3>6. Documents!Write(Documents!ScalarKind)
      BY <2>1, <3>4, <3>5, AppendWrites
    <3> QED
      BY <2>1, <3>3, <3>6 DEF Documents!AddScalar, Documents!Next
  <2> QED
    BY <2>2, <2>3
<1>4. CASE StringByte \/ Backslash
  BY <1>4, Invisible DEF StringByte, Backslash, At, Done
<1>5. CASE EscapeHex
  BY <1>1, <1>2, <1>5 DEF EscapeHex, TwoDigits
<1>6. CASE EscapeUnicode
  BY <1>1, <1>2, <1>6 DEF EscapeUnicode, FourDigits, NoHex4, SecondSurrogate
<1>7. CASE Continuation
  BY <1>2, <1>7 DEF Continuation
<1> QED
  BY <1>1, <1>2, <1>3, <1>4, <1>5, <1>6, <1>7
  DEF String, UnterminatedString, RawTerminator, TruncatedEscape, EscapeSimple,
      EscapeDigit, SelfEscape, Fail

\* The loops of objects and arrays write identifiers and closing marks.
LEMMA ContainersRefine ==
    ASSUME Sound, Placed, Containers
    PROVE  [Documents!Next]_(Documents!vars)
<1>1. ASSUME ~Done, NEW message, Fail(message) PROVE Documents!Next
  BY <1>1, FailGivesUp DEF Fail, Documents!Next
<1>2. pc \in {"member", "element", "colon", "delimiter"} /\ ~Done /\ Place = pc
  BY DEF Containers, CloseEarly, KeyString, KeyIdentifier, NoKey, Element,
         ColonStep, CommaStep, CloseLate, NoDelimiter, At, Done, Place
<1>3. CASE CloseEarly \/ CloseLate
  <2>1. stack # <<>> /\ ~ValueDue
    BY <1>2, <1>3 DEF CloseEarly, CloseLate, At, Placed, PlaceAgrees, Inside
  <2>2. Documents!CloseContainer
    BY <1>2, <1>3, <2>1, CloseCloses DEF CloseEarly, CloseLate
  <2> QED
    BY <2>2 DEF Documents!Next
<1>4. CASE KeyIdentifier
  <2> DEFINE end == RunEnd(text, position, IdContinue)
             bytes == Slice(text, position, end)
  <2>1. text \in Seq(Byte) /\ position \in Nat /\ position <= Len(text)
    BY DEF Sound, TypeOK, InBounds
  <2>2. end \in Nat /\ end <= Len(text)
    BY <2>1, RunEndRange
  <2>3. bytes \in Seq(Byte)
    BY <2>1, <2>2, SliceType
  <2>4. /\ pc = "member" /\ ~Done' /\ UNCHANGED stack
        /\ out' = Append(out, Leaf("key", bytes))
    BY <1>4 DEF KeyIdentifier, SkipTo, At, Done
  <2>5. Inside("object") /\ ~ValueDue
    BY <1>2, <2>4 DEF Placed, PlaceAgrees
  <2> HIDE DEF end, bytes
  <2>6. Documents!AddKey
    BY <1>2, <2>3, <2>4, <2>5, KeyAdds
  <2> QED
    BY <2>6 DEF Documents!Next
<1>5. CASE KeyString \/ Element \/ CommaStep
  BY <1>2, <1>5, Invisible
  DEF KeyString, OpenString, Element, CommaStep, SkipTo, At, Done
<1>6. CASE ColonStep
  BY <1>1, <1>2, <1>6, Invisible DEF ColonStep, SkipTo, Done
<1> QED
  BY <1>1, <1>2, <1>3, <1>4, <1>5, <1>6 DEF Containers, NoKey, NoDelimiter

\* Every step of the parser is a step of the writer of documents, or invisible.
LEMMA StepRefines ==
    ASSUME Sound, Placed, [Next]_vars
    PROVE  [Documents!Next]_(Documents!vars)
<1>1. CASE Finish
  <2>1. pc = "end" /\ ~Done /\ Place = "end"
    BY <1>1 DEF Finish, At, Done, Place
  <2>2. CASE Fail("input continues after the value")
    BY <2>1, <2>2, FailGivesUp DEF Fail, Documents!Next
  <2>3. CASE pc' = "accepted" /\ UNCHANGED <<stack, out>>
    <3>1. stack = <<>> /\ ~ValueDue
      BY <2>1 DEF Placed, PlaceAgrees
    <3>2. Documents!Accept
      BY <2>1, <2>3, <3>1 DEF Documents!Accept, Documents!ValueDue, ValueDue, Done
    <3> QED
      BY <3>2 DEF Documents!Next
  <2> QED
    BY <1>1, <2>2, <2>3 DEF Finish
<1>2. CASE UNCHANGED vars
  BY <1>2 DEF vars, Documents!vars, Done
<1> QED
  BY <1>1, <1>2, WhitespaceRefines, ValueRefines, StringRefines, ContainersRefine
  DEF Next, Returned

\* No document at the start.
LEMMA InitRefines == Init => Documents!Init
BY DEF Init, Documents!Init, Done

(***************************************************************************)
(* The parser implements module Document: whatever the text, it writes     *)
(* values, keys and closing marks only where the rules of grammar.hpp      *)
(* allow them, within the limit, and accepts only a complete document.     *)
(***************************************************************************)
THEOREM ParserWritesDocuments == Spec => WritesDocuments
<1>1. Sound /\ Placed /\ [Next]_vars => [Documents!Next]_(Documents!vars)
  BY StepRefines
<1> QED
  BY InitRefines, SoundAlways, PlacedAlways, <1>1, PTL
  DEF Spec, WritesDocuments, Documents!Spec

-----------------------------------------------------------------------------
(***************************************************************************)
(* The simulation: what the run of the grammar has done when the parser    *)
(* is at one of its places.                                                *)
(***************************************************************************)
\* White space is being skipped: the run is where it started.
Skipping(s, M, x, phase, open, done) ==
    \E p \in 0..Len(s) : x \in SpaceEnds(s, p) /\ Where(s, M, p, phase, open, done)

\* Skipping begins where the run is.
LEMMA SkippingStarts ==
    ASSUME NEW s \in Seq(Byte), NEW M \in Nat, NEW p, NEW phase, NEW open, NEW done,
           Where(s, M, p, phase, open, done)
    PROVE  Skipping(s, M, p, phase, open, done)
<1>1. p \in 0..Len(s)
  BY DEF Where
<1>2. p \in SpaceEnds(s, p)
  BY <1>1, SpaceFacts
<1> QED
  BY <1>1, <1>2 DEF Skipping

\* A piece of white space.
LEMMA SkippingOn ==
    ASSUME NEW s \in Seq(Byte), NEW M \in Nat, NEW x, NEW phase, NEW open, NEW done,
           Skipping(s, M, x, phase, open, done), NEW y, SpacePiece(s, x, y)
    PROVE  Skipping(s, M, y, phase, open, done)
<1>1. PICK p \in 0..Len(s) : x \in SpaceEnds(s, p) /\ Where(s, M, p, phase, open, done)
  BY DEF Skipping
<1>2. y \in SpaceEnds(s, p)
  BY <1>1, SpaceFacts
<1> QED
  BY <1>1, <1>2 DEF Skipping

\* The end of the white space.
LEMMA SkippingEnds ==
    ASSUME NEW s \in Seq(Byte), NEW M \in Nat, NEW x, NEW phase, NEW open, NEW done,
           Skipping(s, M, x, phase, open, done), \A y : ~SpacePiece(s, x, y)
    PROVE  x \in 0..Len(s) /\ Where(s, M, x, phase, open, done)
<1>1. PICK p \in 0..Len(s) : x \in SpaceEnds(s, p) /\ Where(s, M, p, phase, open, done)
  BY DEF Skipping
<1>2. Where(s, M, x, phase, open, done)
  BY <1>1, WhereSpace
<1> QED
  BY <1>2 DEF Where

\* Where a slash stands the white space is over.
LEMMA SlashEnds ==
    ASSUME NEW s \in Seq(Byte), NEW M \in Nat, NEW x, NEW phase, NEW open, NEW done,
           Skipping(s, M, x, phase, open, done), ByteIn(s, x, {Slash})
    PROVE  x \in 0..Len(s) /\ Where(s, M, x, phase, open, done)
<1>1. PICK p \in 0..Len(s) : x \in SpaceEnds(s, p) /\ Where(s, M, p, phase, open, done)
  BY DEF Skipping
<1>2. x \in 0..Len(s)
  <2>1. SpaceEnds(s, p) \in SUBSET (p..Len(s))
    BY <1>1, SpaceFacts
  <2> QED
    BY <1>1, <2>1
<1>3. ~ByteIn(s, x, SpaceFirst)
  BY DEF ByteIn, SpaceFirst, Space, Slash
<1>4. \A y : ~SpacePiece(s, x, y)
  BY <1>2, <1>3, SpaceStarts
<1> QED
  BY <1>4, SkippingEnds

\* A comment to the end of the line.
LEMMA SkippingLine ==
    ASSUME NEW s \in Seq(Byte), NEW M \in Nat, NEW x, NEW phase, NEW open, NEW done,
           Skipping(s, M, x, phase, open, done), OccursAt(s, x, LineOpen),
           NEW S, S = Byte \ LineEnd, NEW u \in Nat, u = x + 2, NEW e, e = RunEnd(s, u, S)
    PROVE  Skipping(s, M, e, phase, open, done)
<1>1. ByteIn(s, x, {Slash})
  <2>1. PICK p \in 0..Len(s) : x \in SpaceEnds(s, p)
    BY DEF Skipping
  <2>2. SpaceEnds(s, p) \in SUBSET (p..Len(s))
    BY <2>1, SpaceFacts
  <2>3. x \in Nat
    BY <2>1, <2>2
  <2> QED
    BY <2>3 DEF OccursAt, LineOpen, ByteIn
<1>2. Where(s, M, x, phase, open, done)
  BY <1>1, SlashEnds
<1>3. Where(s, M, e, phase, open, done)
  BY <1>2, WhereLine
<1> QED
  BY <1>3, SkippingStarts

\* A comment up to its first close.
LEMMA SkippingBlock ==
    ASSUME NEW s \in Seq(Byte), NEW M \in Nat, NEW x, NEW phase, NEW open, NEW done,
           Skipping(s, M, x, phase, open, done), OccursAt(s, x, CommentOpen), ByteIn(s, x, {Slash}),
           NEW c \in (x + 2)..Len(s), OccursAt(s, c, CommentClose), NoCloseBefore(s, x + 2, c),
           NEW e, e = c + 2
    PROVE  Skipping(s, M, e, phase, open, done)
<1>1. Where(s, M, x, phase, open, done)
  BY SlashEnds
<1>2. Where(s, M, e, phase, open, done)
  BY <1>1, WhereBlock
<1> QED
  BY <1>2, SkippingStarts

\* A slash that starts no comment, or one that does not end.
LEMMA SkippingFails ==
    ASSUME NEW s \in Seq(Byte), NEW M \in Nat, NEW x, NEW phase, NEW open, NEW done,
           Skipping(s, M, x, phase, open, done), ByteIn(s, x, {Slash}),
           ~OccursAt(s, x, LineOpen),
           OccursAt(s, x, CommentOpen) => \A c \in (x + 2)..Len(s) : ~OccursAt(s, c, CommentClose)
    PROVE  ~Takes(s, M)
<1>1. x \in 0..Len(s) /\ Where(s, M, x, phase, open, done)
  BY SlashEnds
<1>2. x # Len(s) /\ phase \in Phases
  BY <1>1 DEF ByteIn, Where
<1>3. LexesNothing(s, x, phase)
  BY <1>1, <1>2, NoComment
<1> QED
  BY <1>1, <1>2, <1>3, WhereStuck

-----------------------------------------------------------------------------
(***************************************************************************)
(* The invariant: at each place of the parser the run is where the parser  *)
(* is, expects what it looks for, has its containers open and has made its *)
(* events.  A parser that failed failed on a text that is not taken.       *)
(***************************************************************************)

\* The parser is at an escape \X, which it reads like \x and the binder like any
\* other escaped character.
MeetsCapitalX == pc = "escape" /\ Next1({88})

\* What the run expects when the parser comes to a place.
PhaseAt(place, open) ==
    CASE place = "value"   -> "value"
      [] place = "element" -> "item"
      [] place = "member"  -> "pair"
      [] place = "colon"   -> "colon"
      [] OTHER             -> Follow(open)

\* The parser is at a place, behind white space: the run is there too.  Where
\* a value is due, an element was not the end of its array.
Looking(s, M, x, place, open, done) ==
    /\ Settled(s, x)
    /\ \E phase \in Phases :
          /\ Where(s, M, x, phase, open, done)
          /\ IF place = "value"
             THEN phase \in ValuePhases /\ (phase = "item" => ~ByteIn(s, x, {RBracket}))
             ELSE phase = PhaseAt(place, open)

\* The parser is in a string: the run is before it.
Quoting(s, M, x, back, open, done, q, bytes) ==
    \E p \in 0..Len(s) : \E phase \in StringPhases :
        /\ Where(s, M, p, phase, open, done)
        /\ StringSoFar(s, q, p, x, bytes)
        /\ phase = "pair" <=> back = "colon"

\* The same behind a backslash.
Escaping(s, M, x, back, open, done, q, bytes) ==
    \E b \in 0..Len(s) : /\ x = b + 1 /\ ByteIn(s, b, {BSlash})
                         /\ Quoting(s, M, b, back, open, done, q, bytes)

\* The invariant of the simulation.
Follows ==
    /\ pc = "skip" => Skipping(text, MaxNesting, position, PhaseAt(after, stack), stack, out)
    /\ pc \in Places => Looking(text, MaxNesting, position, pc, stack, out)
    /\ pc = "string" => Quoting(text, MaxNesting, position, after, stack, out, closing, buf)
    /\ pc = "escape" => Escaping(text, MaxNesting, position, after, stack, out, closing, buf)
    /\ pc = "accepted" => Takes(text, MaxNesting) /\ Reference(text).out = out
    /\ pc = "failed" => ~Takes(text, MaxNesting)

\* The texts are texts and the limit is a number.
LEMMA TextFacts ==
    ASSUME Sound
    PROVE  /\ text \in Seq(Byte) /\ MaxNesting \in Nat /\ position \in 0..Len(text)
           /\ closing \in Quotes /\ stack \in Seq(Nest) /\ buf \in Seq(Byte)
BY NestingAssumption DEF Sound, TypeOK, InBounds, Quotes, Nest, Container

\* What a step to each place has to show.
LEMMA FollowsSkip ==
    ASSUME pc' = "skip",
           Skipping(text', MaxNesting, position', PhaseAt(after', stack'), stack', out')
    PROVE  Follows'
BY DEF Follows, Places

\* What is left to show at one of the parser's places,
LEMMA FollowsPlace ==
    ASSUME pc' \in Places, Looking(text', MaxNesting, position', pc', stack', out')
    PROVE  Follows'
BY DEF Follows, Places

\* in a string,
LEMMA FollowsString ==
    ASSUME pc' = "string",
           Quoting(text', MaxNesting, position', after', stack', out', closing', buf')
    PROVE  Follows'
BY DEF Follows, Places

\* and in an escape.
LEMMA FollowsEscape ==
    ASSUME pc' = "escape",
           Escaping(text', MaxNesting, position', after', stack', out', closing', buf')
    PROVE  Follows'
BY DEF Follows, Places

\* A failure is right if the other parser does not take the text.
LEMMA FollowsFail ==
    ASSUME NEW p, NEW message, FailAt(p, message), ~Takes(text, MaxNesting)
    PROVE  Follows'
BY DEF Follows, Places, FailAt

-----------------------------------------------------------------------------
(***************************************************************************)
(* skip_whitespace.                                                        *)
(***************************************************************************)
\* An iteration.
LEMMA FollowsSkipped ==
    ASSUME NEW p, Skip(p), At("skip"),
           Skipping(text, MaxNesting, p, PhaseAt(after, stack), stack, out)
    PROVE  Follows'
BY FollowsSkip DEF Skip, At

\* Both know the same white space of more than a byte.
LEMMA MultibyteWords == SpaceWords = {NBSP, LS, PS, BOM}
BY DEF SpaceWords

\* White space and comments.
LEMMA WhitespaceFollows ==
    ASSUME Sound, Follows, Whitespace
    PROVE  Follows'
<1>1. PICK s, M, phase, open, done, x :
          /\ s = text /\ M = MaxNesting /\ phase = PhaseAt(after, stack) /\ open = stack
          /\ done = out /\ x = position
  OBVIOUS
<1>2. s \in Seq(Byte) /\ M \in Nat /\ x \in 0..Len(s)
  BY <1>1, TextFacts
<1>3. At("skip")
  BY DEF Whitespace, SkipSpace, SkipMultibyte, SkipLineComment, SkipBlockComment,
         UnterminatedComment, LoneSlash, SkipDone
<1>4. Skipping(s, M, x, phase, open, done)
  BY <1>1, <1>3 DEF Follows, At
<1>5. CASE SkipSpace
  <2>1. ByteIn(s, x, Space) /\ Skip(x + 1)
    BY <1>1, <1>5 DEF SkipSpace, Next1
  <2>2. SpacePiece(s, x, x + 1)
    BY <2>1 DEF SpacePiece
  <2>3. Skipping(s, M, x + 1, phase, open, done)
    BY <1>2, <1>4, <2>2, SkippingOn
  <2> QED
    BY <1>1, <1>3, <2>1, <2>3, FollowsSkipped
<1>6. CASE SkipMultibyte
  <2>1. PICK w \in SpaceWords : OccursAt(s, x, w) /\ Skip(x + Len(w))
    BY <1>1, <1>6, MultibyteWords DEF SkipMultibyte, Has
  <2>2. SpacePiece(s, x, x + Len(w))
    BY <2>1 DEF SpacePiece
  <2>3. Skipping(s, M, x + Len(w), phase, open, done)
    BY <1>2, <1>4, <2>2, SkippingOn
  <2> QED
    BY <1>1, <1>3, <2>1, <2>3, FollowsSkipped
<1>7. CASE SkipLineComment
  <2>a. PICK S : S = Byte \ LineEnd
    OBVIOUS
  <2>b. PICK u \in Nat : u = x + 2
    BY <1>2
  <2>1. S = Byte \ LineEnd /\ u = x + 2
    BY <2>a, <2>b
  <2>2. PICK e : e = RunEnd(s, u, S)
    OBVIOUS
  <2>3. OccursAt(s, x, LineOpen) /\ Skip(e)
    BY <1>1, <1>7, <2>1, <2>2 DEF SkipLineComment, Has, LineOpen
  <2>4. Skipping(s, M, e, phase, open, done)
    BY <1>2, <1>4, <2>1, <2>2, <2>3, SkippingLine
  <2> QED
    BY <1>1, <1>3, <2>3, <2>4, FollowsSkipped
<1>8. ASSUME OccursAt(s, x, CommentOpen)
      PROVE  ByteIn(s, x, {Slash}) /\ ~OccursAt(s, x, LineOpen)
  BY <1>2, <1>8 DEF OccursAt, CommentOpen, LineOpen, ByteIn, Slash, Asterisk
<1>9. CASE SkipBlockComment
  <2>1. OccursAt(s, x, CommentOpen)
    BY <1>1, <1>9 DEF SkipBlockComment, Has, CommentOpen
  <2>2. PICK c \in CommentEnds : (\A n \in CommentEnds : c <= n) /\ Skip(c + 2)
    BY <1>9 DEF SkipBlockComment
  <2>3. c \in (x + 2)..Len(s) /\ OccursAt(s, c, CommentClose)
    BY <1>1, <2>2 DEF CommentEnds, CommentClose
  <2>4. NoCloseBefore(s, x + 2, c)
    BY <1>1, <1>2, <2>2, <2>3 DEF CommentEnds, CommentClose, NoCloseBefore
  <2>5. PICK e : e = c + 2
    OBVIOUS
  <2>6. ByteIn(s, x, {Slash})
    BY <1>8, <2>1
  <2>7. Skipping(s, M, e, phase, open, done)
    BY <1>2, <1>4, <2>1, <2>3, <2>4, <2>5, <2>6, SkippingBlock
  <2> QED
    BY <1>1, <1>3, <2>2, <2>5, <2>7, FollowsSkipped
<1>10. CASE UnterminatedComment
  <2>1. OccursAt(s, x, CommentOpen) /\ CommentEnds = {}
    BY <1>1, <1>10 DEF UnterminatedComment, Has, CommentOpen
  <2>2. \A c \in (x + 2)..Len(s) : ~OccursAt(s, c, CommentClose)
    BY <1>1, <2>1 DEF CommentEnds, CommentClose
  <2>3. ByteIn(s, x, {Slash}) /\ ~OccursAt(s, x, LineOpen)
    BY <1>8, <2>1
  <2>4. ~Takes(s, M)
    BY <1>2, <1>4, <2>2, <2>3, SkippingFails
  <2> QED
    BY <1>1, <1>10, <2>4, FollowsFail DEF UnterminatedComment
<1>11. CASE LoneSlash
  <2>1. ByteIn(s, x, {Slash}) /\ ~ByteIn(s, x + 1, {Slash, Asterisk})
    BY <1>1, <1>11 DEF LoneSlash, Next1
  <2>2. ~OccursAt(s, x, LineOpen) /\ ~OccursAt(s, x, CommentOpen)
    <3>1. PICK n \in Nat : n = x + 1
      BY <1>2
    <3>2. ~(n < Len(s) /\ s[n + 1] \in {Slash, Asterisk})
      BY <2>1, <3>1 DEF ByteIn
    <3> QED
      BY <1>2, <3>1, <3>2 DEF OccursAt, LineOpen, CommentOpen
  <2>3. ~Takes(s, M)
    BY <1>2, <1>4, <2>1, <2>2, SkippingFails
  <2> QED
    BY <1>1, <1>11, <2>3, FollowsFail DEF LoneSlash, Fail
<1>12. CASE SkipDone
  <2>1. /\ ~ByteIn(s, x, Space \cup {Slash})
        /\ \A w \in SpaceWords : ~OccursAt(s, x, w)
    BY <1>1, <1>12, MultibyteWords DEF SkipDone, Next1, Has
  <2>2. \A y : ~SpacePiece(s, x, y)
    BY <2>1 DEF SpacePiece, ByteIn
  <2>3. Where(s, M, x, phase, open, done)
    BY <1>2, <1>4, <2>2, SkippingEnds
  <2>4. Settled(s, x) /\ phase \in Phases
    BY <2>1, <2>3 DEF Settled, Where
  <2>5. pc' = after /\ after \in Places
        /\ UNCHANGED <<text, position, after, stack, closing, buf, out, error>>
    BY <1>12 DEF SkipDone, Sound, TypeOK
  <2>6. Looking(s, M, x, after, open, done)
    <3>1. CASE after = "value"
      <4>1. phase = "value" /\ phase \in ValuePhases
        BY <1>1, <3>1, Zenon DEF PhaseAt, ValuePhases
      <4> QED
        BY <2>3, <2>4, <3>1, <4>1, Zenon DEF Looking
    <3>2. CASE after # "value"
      BY <1>1, <2>3, <2>4, <3>2, Zenon DEF Looking
    <3> QED
      BY <3>1, <3>2
  <2> QED
    BY <1>1, <2>5, <2>6, FollowsPlace
<1> QED
  BY <1>5, <1>6, <1>7, <1>9, <1>10, <1>11, <1>12 DEF Whitespace

-----------------------------------------------------------------------------
(***************************************************************************)
(* Values.                                                                 *)
(***************************************************************************)

\* Where no terminal matches, nothing is taken.
LEMMA NoneTaken ==
    ASSUME NEW s \in Seq(Byte), NEW M \in Nat, NEW x, NEW phase, NEW open, NEW done,
           Where(s, M, x, phase, open, done), phase # "nothing", LexesNothing(s, x, phase)
    PROVE  ~Takes(s, M)
<1>1. CASE x = Len(s)
  BY <1>1, WhereShort
<1>2. CASE x # Len(s)
  BY <1>2, WhereStuck
<1> QED
  BY <1>1, <1>2

\* Where a value is due.
ValueHere(s, M, x, phase, open, done) ==
    /\ Settled(s, x)
    /\ phase \in ValuePhases
    /\ Where(s, M, x, phase, open, done)
    /\ phase = "item" => ~ByteIn(s, x, {RBracket})

\* Where the parser looks for a value, the run expects one.
LEMMA ValueIsDue ==
    ASSUME Follows, At("value")
    PROVE  \E phase : ValueHere(text, MaxNesting, position, phase, stack, out)
<1>1. Looking(text, MaxNesting, position, pc, stack, out) /\ pc = "value"
  BY DEF Follows, At, Places
<1> QED
  BY <1>1 DEF Looking, ValueHere

\* What a value leads to.
LEMMA AfterValuePhase ==
    ASSUME NEW open
    PROVE  PhaseAt(AfterValue(open), open) = Follow(open) /\ AfterValue(open) # "colon"
<1>1. AfterValue(open) = "end" \/ AfterValue(open) = "delimiter"
  BY DEF AfterValue
<1>2. CASE AfterValue(open) = "end"
  BY <1>2, Zenon DEF PhaseAt
<1>3. CASE AfterValue(open) = "delimiter"
  BY <1>3, Zenon DEF PhaseAt
<1> QED
  BY <1>1, <1>2, <1>3

\* A complete scalar.
LEMMA ScalarFollows ==
    ASSUME Sound, NEW x, NEW e, Scalar(x, e),
           Where(text, MaxNesting, x, Follow(stack), stack, Append(out, e))
    PROVE  Follows'
<1>1. PICK s, M, phase, open, done :
          /\ s = text /\ M = MaxNesting /\ phase = Follow(stack) /\ open = stack
          /\ done = Append(out, e)
  OBVIOUS
<1>2. s \in Seq(Byte) /\ M \in Nat
  BY <1>1, TextFacts
<1>3. Skipping(s, M, x, phase, open, done)
  BY <1>1, <1>2, SkippingStarts
<1>4. /\ pc' = "skip" /\ position' = x /\ after' = AfterValue(open)
      /\ out' = done /\ text' = s /\ stack' = open
  BY <1>1 DEF Scalar, SkipTo
<1>5. PhaseAt(after', stack') = phase
  BY <1>1, <1>4, AfterValuePhase
<1> QED
  BY <1>1, <1>3, <1>4, <1>5, FollowsSkip

\* The events of the two parsers.
LEMMA EventsAgree ==
    /\ \A kind, bytes : Leaf(kind, bytes) = Ev(kind, bytes)
    /\ \A kind : Mark(kind) = Ev(kind, <<>>)
    /\ \A c \in Nest : OpenMark(c) = OpenEvent(c) /\ CloseMark(c) = CloseEvent(c)
<1>1. \A kind, bytes : Leaf(kind, bytes) = Ev(kind, bytes)
  BY DEF Leaf, Ev
<1>2. \A kind : Mark(kind) = Ev(kind, <<>>)
  BY DEF Mark, Ev
<1>3. ASSUME NEW c \in Nest PROVE OpenMark(c) = OpenEvent(c) /\ CloseMark(c) = CloseEvent(c)
  BY <1>2, Zenon DEF OpenMark, CloseMark, OpenEvent, CloseEvent, OpenToken, CloseToken
<1> QED
  BY <1>1, <1>2, <1>3

\* The bytes that start a value or a key.
LEMMA FirstBytesAgree ==
    /\ NumberStart = NumberFirst
    /\ ValueStart = ValueFirst
    /\ {RBrace, Quote, Apostrophe} \cup IdStart = KeyFirstBytes
    /\ Quotes = {Quote, Apostrophe}
<1>1. NumberStart = NumberFirst
  BY NumberWords DEF NumberStart, NumberFirst
<1>2. /\ DOMAIN Literals = {"true", "false", "null"}
      /\ Literals["true"] = WordTrue /\ Literals["false"] = WordFalse
      /\ Literals["null"] = WordNull
  BY DEF Literals
<1>3. Literals["true"][1] = 116 /\ Literals["false"][1] = 102 /\ Literals["null"][1] = 110
  BY <1>2, LiteralWords DEF Literal3
<1>4. {Literals[l][1] : l \in DOMAIN Literals} = {116, 102, 110}
  BY <1>2, <1>3
<1>5. ValueStart = ValueFirst
  BY <1>1, <1>4 DEF ValueStart, ValueFirst
<1> QED
  BY <1>1, <1>5 DEF KeyFirstBytes, Quotes

\* The literals are spelled the same.
LEMMA LiteralsAgree ==
    ASSUME NEW l \in DOMAIN Literals
    PROVE  l \in Words /\ Literals[l] = WordOf(l)
<1>1. l = "true" \/ l = "false" \/ l = "null"
  BY DEF Literals
<1>2. CASE l = "true"
  BY <1>2 DEF Literals, Words, WordOf
<1>3. CASE l = "false"
  BY <1>3 DEF Literals, Words, WordOf
<1>4. CASE l = "null"
  BY <1>4 DEF Literals, Words, WordOf
<1> QED
  BY <1>1, <1>2, <1>3, <1>4

\* A string opens.
LEMMA OpenStringFollows ==
    ASSUME Sound, NEW place, OpenString(place), NEW phase \in StringPhases,
           Where(text, MaxNesting, position, phase, stack, out),
           phase = "pair" <=> place = "colon"
    PROVE  Follows'
<1>1. PICK s, M, open, done, q, p :
          /\ s = text /\ M = MaxNesting /\ open = stack
          /\ done = out /\ q = text[position + 1] /\ p = position
  OBVIOUS
<1>2. s \in Seq(Byte) /\ M \in Nat /\ p \in 0..Len(s)
  BY <1>1, TextFacts
<1>3. ByteIn(s, p, {q})
  BY <1>1 DEF OpenString, Next1, ByteIn
<1>4. PICK x : x = p + 1
  OBVIOUS
<1>5. StringSoFar(s, q, p, x, <<>>)
  <2>1. p \in Nat
    BY <1>2
  <2> QED
    BY <1>2, <1>3, <1>4, <2>1, StringStart
<1>6. Quoting(s, M, x, place, open, done, q, <<>>)
  BY <1>1, <1>2, <1>5 DEF Quoting
<1>7. /\ pc' = "string" /\ position' = x /\ after' = place /\ closing' = q /\ buf' = <<>>
      /\ text' = s /\ stack' = open /\ out' = done
  BY <1>1, <1>4 DEF OpenString
<1> QED
  BY <1>1, <1>6, <1>7, FollowsString

\* A container opens.
LEMMA OpenFollows ==
    ASSUME Sound, Follows, NEW c \in Container, Open(c)
    PROVE  Follows'
<1>1. PICK s, M, open, done, x :
          s = text /\ M = MaxNesting /\ open = stack /\ done = out /\ x = position
  OBVIOUS
<1>2. s \in Seq(Byte) /\ M \in Nat /\ x \in 0..Len(s) /\ c \in Nest
  BY <1>1, TextFacts DEF Container, Nest
<1>3. At("value") /\ Len(open) <= M
  BY <1>1 DEF Open, Entering
<1>4. PICK phase \in ValuePhases : Where(s, M, x, phase, open, done)
  BY <1>1, <1>3, ValueIsDue DEF ValueHere
<1>5. ByteIn(s, x, {OpenByte(c)})
  BY <1>1, Zenon DEF Open, Next1, OpenByte
<1>6. PICK e : e = x + 1
  OBVIOUS
<1>7. PICK open2, done2, phase2 :
          open2 = Append(open, c) /\ done2 = Append(done, OpenEvent(c)) /\ phase2 = FirstPhase(c)
  OBVIOUS
<1>8. Where(s, M, e, phase2, open2, done2)
  BY <1>2, <1>3, <1>4, <1>5, <1>6, <1>7, WhereOpens
<1>9. Skipping(s, M, e, phase2, open2, done2)
  BY <1>2, <1>8, SkippingStarts
<1>10. /\ pc' = "skip" /\ position' = e /\ after' = FirstItem(c)
       /\ stack' = open2 /\ text' = s
  BY <1>1, <1>6, <1>7 DEF Open, SkipTo
<1>11. out' = done2
  BY <1>1, <1>2, <1>7, EventsAgree DEF Open
<1>12. PhaseAt(after', stack') = phase2
  <2>1. CASE c = "object"
    BY <1>7, <1>10, <2>1, Zenon DEF PhaseAt, FirstItem, FirstPhase
  <2>2. CASE c = "array"
    BY <1>7, <1>10, <2>2, Zenon DEF PhaseAt, FirstItem, FirstPhase
  <2> QED
    BY <1>2, <2>1, <2>2 DEF Nest
<1> QED
  BY <1>1, <1>9, <1>10, <1>11, <1>12, FollowsSkip

\* true, false and null.
LEMMA LiteralFollows ==
    ASSUME Sound, Follows, NEW l \in DOMAIN Literals, Literal(l)
    PROVE  Follows'
<1>1. PICK s, M, open, done, x :
          s = text /\ M = MaxNesting /\ open = stack /\ done = out /\ x = position
  OBVIOUS
<1>2. s \in Seq(Byte) /\ M \in Nat /\ x \in 0..Len(s)
  BY <1>1, TextFacts
<1>3. At("value") /\ Len(open) <= M
  BY <1>1 DEF Literal, Entering
<1>4. PICK phase \in ValuePhases : Where(s, M, x, phase, open, done)
  BY <1>1, <1>3, ValueIsDue DEF ValueHere
<1>5. PICK w : w = Literals[l]
  OBVIOUS
<1>6. l \in Words /\ w = WordOf(l)
  BY <1>5, LiteralsAgree
<1>7. CASE Has(Literals[l]) /\ Scalar(position + Len(Literals[l]), Mark(l))
  <2>1. PICK e : e = x + Len(w)
    OBVIOUS
  <2>2. OccursAt(s, x, w)
    BY <1>1, <1>5, <1>7 DEF Has
  <2>3. Where(s, M, e, Follow(open), open, Append(done, Ev(l, <<>>)))
    BY <1>2, <1>3, <1>4, <1>6, <2>1, <2>2, WhereWord
  <2>4. PICK event : event = Mark(l)
    OBVIOUS
  <2>5. Scalar(e, event)
    BY <1>1, <1>5, <1>7, <2>1, <2>4
  <2>6. event = Ev(l, <<>>)
    BY <2>4, EventsAgree
  <2>7. Where(text, MaxNesting, e, Follow(stack), stack, Append(out, event))
    BY <1>1, <2>3, <2>6
  <2> QED
    BY <2>5, <2>7, ScalarFollows
<1>8. CASE ~Has(Literals[l]) /\ Fail("unrecognized literal")
  <2>1. ByteIn(s, x, {w[1]}) /\ ~OccursAt(s, x, w)
    BY <1>1, <1>5, <1>8 DEF Literal, Has, Next1
  <2>2. LexesNothing(s, x, phase)
    BY <1>2, <1>6, <2>1, NoWordHere
  <2>3. ~Takes(s, M)
    BY <1>2, <1>4, <2>2, NoneTaken DEF ValuePhases
  <2> QED
    BY <1>1, <1>8, <2>3, FollowsFail DEF Fail
<1> QED
  BY <1>7, <1>8 DEF Literal

\* A number.
LEMMA NumberFollows ==
    ASSUME Sound, Follows, Number
    PROVE  Follows'
<1>1. PICK s, M, open, done, x :
          s = text /\ M = MaxNesting /\ open = stack /\ done = out /\ x = position
  OBVIOUS
<1>2. s \in Seq(Byte) /\ M \in Nat /\ x \in 0..Len(s)
  BY <1>1, TextFacts
<1>3. At("value") /\ Len(open) <= M
  BY <1>1 DEF Number, Entering
<1>4. PICK phase \in ValuePhases : Where(s, M, x, phase, open, done)
  BY <1>1, <1>3, ValueIsDue DEF ValueHere
<1>5. ByteIn(s, x, NumberFirst)
  BY <1>1, FirstBytesAgree DEF Number, Next1
<1>6. PICK scan : scan = ScanNumber(s, x)
  OBVIOUS
<1>7. PICK ends : ends = NumberEnds(s, x)
  OBVIOUS
<1>8. \/ scan.message = "" /\ Scalar(scan.end, Leaf("number", Slice(s, x, scan.end)))
      \/ scan.message # "" /\ FailAt(scan.end, scan.message)
  BY <1>1, <1>6, Zenon DEF Number
<1>9. CASE scan.message = "" /\ Scalar(scan.end, Leaf("number", Slice(s, x, scan.end)))
  <2>1. PICK e : e = scan.end
    OBVIOUS
  <2>2. scan.end \in ends /\ \A n \in ends : n <= scan.end
    BY <1>2, <1>6, <1>7, <1>9, NumberFacts
  <2>3. e \in ends /\ \A n \in ends : n <= e
    BY <2>1, <2>2
  <2>4. PICK raw : raw = Slice(s, x, e)
    OBVIOUS
  <2>5. Where(s, M, e, Follow(open), open, Append(done, Ev("number", raw)))
    BY <1>2, <1>3, <1>4, <1>5, <1>7, <2>3, <2>4, WhereDigits
  <2>6. PICK event : event = Leaf("number", raw)
    OBVIOUS
  <2>7. Scalar(e, event)
    BY <1>9, <2>1, <2>4, <2>6
  <2>8. event = Ev("number", raw)
    BY <2>6, EventsAgree
  <2>9. Where(text, MaxNesting, e, Follow(stack), stack, Append(out, event))
    BY <1>1, <2>5, <2>8
  <2> QED
    BY <2>7, <2>9, ScalarFollows
<1>10. CASE scan.message # "" /\ FailAt(scan.end, scan.message)
  <2>1. NumberCut(s, ends)
    BY <1>2, <1>6, <1>7, <1>10, NumberFacts
  <2>2. ~Takes(s, M)
    BY <1>2, <1>3, <1>4, <1>5, <1>7, <2>1, NoNumberHere
  <2>3. PICK message : FailAt(scan.end, message)
    BY <1>10
  <2>4. ~Takes(text, MaxNesting)
    BY <1>1, <2>2
  <2> QED
    BY <2>3, <2>4, FollowsFail
<1> QED
  BY <1>8, <1>9, <1>10, Zenon

\* parse_value.
LEMMA ValueFollows ==
    ASSUME Sound, Follows, Value
    PROVE  Follows'
<1>1. PICK s, M, open, done, x :
          s = text /\ M = MaxNesting /\ open = stack /\ done = out /\ x = position
  OBVIOUS
<1>2. s \in Seq(Byte) /\ M \in Nat /\ x \in 0..Len(s)
  BY <1>1, TextFacts
<1>3. CASE NestingTooDeep
  <2>1. PICK phase : ValueHere(s, M, x, phase, open, done)
    BY <1>1, <1>3, ValueIsDue DEF NestingTooDeep
  <2>2. M < Len(open)
    BY <1>1, <1>3 DEF NestingTooDeep
  <2>3. ~Takes(s, M)
    BY <1>2, <2>1, <2>2, TooDeepHere DEF ValueHere
  <2> QED
    BY <1>1, <1>3, <2>3, FollowsFail DEF NestingTooDeep, Fail
<1>4. CASE NoValue
  <2>1. PICK phase : ValueHere(s, M, x, phase, open, done)
    BY <1>1, <1>4, ValueIsDue DEF NoValue, Entering
  <2>2. ~ByteIn(s, x, ValueFirst)
    BY <1>1, <1>4, FirstBytesAgree DEF NoValue, Next1
  <2>3. LexesNothing(s, x, phase)
    BY <1>2, <2>1, <2>2, NoValueHere DEF ValueHere
  <2>4. phase # "nothing"
    BY <2>1 DEF ValueHere, ValuePhases
  <2>5. ~Takes(s, M)
    BY <1>2, <2>1, <2>3, <2>4, NoneTaken DEF ValueHere
  <2> QED
    BY <1>1, <1>4, <2>5, FollowsFail DEF NoValue, Fail
<1>5. ASSUME NEW c \in Container, Open(c) PROVE Follows'
  BY <1>5, OpenFollows
<1>6. CASE ValueString
  <2>1. PICK phase : ValueHere(s, M, x, phase, open, done)
    BY <1>1, <1>6, ValueIsDue DEF ValueString, Entering
  <2>2. phase \in StringPhases /\ phase # "pair"
    BY <2>1 DEF ValueHere, ValuePhases, StringPhases
  <2>3. PICK place : place = AfterValue(stack)
    OBVIOUS
  <2>4. OpenString(place) /\ place # "colon"
    BY <1>6, <2>3, AfterValuePhase DEF ValueString
  <2>5. Where(text, MaxNesting, position, phase, stack, out)
    BY <1>1, <2>1 DEF ValueHere
  <2> QED
    BY <2>2, <2>4, <2>5, OpenStringFollows
<1>7. ASSUME NEW l \in DOMAIN Literals, Literal(l) PROVE Follows'
  BY <1>7, LiteralFollows
<1>8. CASE Number
  BY <1>8, NumberFollows
<1> QED
  BY <1>3, <1>4, <1>5, <1>6, <1>7, <1>8 DEF Value

-----------------------------------------------------------------------------
(***************************************************************************)
(* Strings and keys.                                                       *)
(***************************************************************************)

\* The run before the string at p, of which the bytes up to x are read.
Within(s, M, p, x, phase, back, open, done, q, bytes) ==
    /\ p \in 0..Len(s) /\ phase \in StringPhases
    /\ Where(s, M, p, phase, open, done)
    /\ StringSoFar(s, q, p, x, bytes)
    /\ phase = "pair" <=> back = "colon"

\* What is known in a string.
LEMMA WithinFacts ==
    ASSUME NEW s \in Seq(Byte), NEW M, NEW p, NEW x, NEW phase, NEW back, NEW open, NEW done, NEW q,
           NEW bytes, Within(s, M, p, x, phase, back, open, done, q, bytes)
    PROVE  /\ p \in Nat /\ p \in 0..Len(s)
           /\ phase \in StringPhases
           /\ Where(s, M, p, phase, open, done)
           /\ StringSoFar(s, q, p, x, bytes)
           /\ ByteIn(s, p, {q})
           /\ x \in 0..Len(s) /\ x \in Nat
           /\ Quoting(s, M, x, back, open, done, q, bytes)
<1>1. p \in Nat /\ p \in 0..Len(s) /\ phase \in StringPhases
  BY DEF Within
<1>2. Where(s, M, p, phase, open, done) /\ StringSoFar(s, q, p, x, bytes)
  BY DEF Within
<1>3. ByteIn(s, p, {q}) /\ p + 1 \in 0..Len(s) /\ Carries(s, q, p + 1, x)
  BY <1>2 DEF StringSoFar
<1>4. PICK b \in 0..Len(s) : b = p + 1
  BY <1>3
<1>5. Carries(s, q, b, x)
  BY <1>3, <1>4
<1>6. x \in 0..Len(s)
  BY <1>5, CarriesRange
<1>7. Quoting(s, M, x, back, open, done, q, bytes)
  BY DEF Within, Quoting
<1> QED
  BY <1>1, <1>2, <1>3, <1>6, <1>7

\* More of the string is read.
LEMMA WithinOn ==
    ASSUME NEW s \in Seq(Byte), NEW M, NEW p, NEW x, NEW phase, NEW back, NEW open, NEW done, NEW q,
           NEW bytes, Within(s, M, p, x, phase, back, open, done, q, bytes),
           NEW y, NEW all, StringSoFar(s, q, p, y, all)
    PROVE  Within(s, M, p, y, phase, back, open, done, q, all)
BY DEF Within

\* The string is not one.
LEMMA WithinFails ==
    ASSUME NEW s \in Seq(Byte), NEW M \in Nat, NEW p, NEW x, NEW phase, NEW back, NEW open, NEW done,
           NEW q \in Quotes, NEW bytes, Within(s, M, p, x, phase, back, open, done, q, bytes),
           NoString(s, p, q)
    PROVE  ~Takes(s, M)
<1>1. phase \in StringPhases /\ Where(s, M, p, phase, open, done) /\ ByteIn(s, p, {q})
  BY WithinFacts
<1> QED
  BY <1>1, NoStringHere

\* In a string, the run is before it,
LEMMA StringIsOpen ==
    ASSUME Follows, At("string")
    PROVE  \E p, phase : Within(text, MaxNesting, p, position, phase, after, stack, out, closing, buf)
<1>1. Quoting(text, MaxNesting, position, after, stack, out, closing, buf)
  BY DEF Follows, At
<1> QED
  BY <1>1 DEF Quoting, Within

\* and in an escape as well.
LEMMA EscapeIsOpen ==
    ASSUME Follows, At("escape")
    PROVE  \E p, phase : \E b \in 0..Len(text) :
               /\ position = b + 1 /\ ByteIn(text, b, {BSlash})
               /\ Within(text, MaxNesting, p, b, phase, after, stack, out, closing, buf)
<1>1. Escaping(text, MaxNesting, position, after, stack, out, closing, buf)
  BY DEF Follows, At
<1>2. PICK b \in 0..Len(text) :
          /\ position = b + 1 /\ ByteIn(text, b, {BSlash})
          /\ Quoting(text, MaxNesting, b, after, stack, out, closing, buf)
  BY <1>1 DEF Escaping
<1> QED
  BY <1>2 DEF Quoting, Within

\* The step of an escape: what it decodes, or that it fails.
LEMMA DecodedFollows ==
    ASSUME Sound, NEW p, NEW b, NEW phase,
           Within(text, MaxNesting, p, b, phase, after, stack, out, closing, buf),
           NEW y, NEW more, Decoded(y, more), StringSoFar(text, closing, p, y, buf \o more)
    PROVE  Follows'
<1>1. PICK s, M, open, done, q, back, all :
          /\ s = text /\ M = MaxNesting /\ open = stack /\ done = out /\ q = closing
          /\ back = after /\ all = buf \o more
  OBVIOUS
<1>2. s \in Seq(Byte)
  BY <1>1, TextFacts
<1>3. Within(s, M, p, y, phase, back, open, done, q, all)
  BY <1>1, <1>2, WithinOn
<1>4. Quoting(s, M, y, back, open, done, q, all)
  BY <1>2, <1>3, WithinFacts
<1>5. /\ pc' = "string" /\ position' = y /\ buf' = all
      /\ UNCHANGED <<text, after, stack, closing, out>>
  BY <1>1 DEF Decoded
<1> QED
  BY <1>1, <1>4, <1>5, FollowsString

\* A string that is not decoded, wherever it may end.
LEMMA UndecodedFollows ==
    ASSUME Sound, NEW p, NEW b, NEW phase,
           Within(text, MaxNesting, p, b, phase, after, stack, out, closing, buf),
           NEW m, NEW message, FailAt(m, message), NoString(text, p, closing)
    PROVE  Follows'
<1>1. text \in Seq(Byte) /\ MaxNesting \in Nat /\ closing \in Quotes
  BY TextFacts
<1>2. ~Takes(text, MaxNesting)
  BY <1>1, WithinFails
<1> QED
  BY <1>2, FollowsFail

-----------------------------------------------------------------------------
(***************************************************************************)
(* The loop of parse_string.                                               *)
(***************************************************************************)
\* A string that ends without its closing quote.
LEMMA BrokenString ==
    ASSUME Sound, Follows, At("string"), NEW message, Fail(message),
           ~ByteIn(text, position, {closing}), ~ByteIn(text, position, Plain(closing)),
           ~ByteIn(text, position, {BSlash})
    PROVE  Follows'
<1>1. PICK p, phase : Within(text, MaxNesting, p, position, phase, after, stack, out, closing, buf)
  BY StringIsOpen
<1>2. PICK s, q, x, bytes : s = text /\ q = closing /\ x = position /\ bytes = buf
  OBVIOUS
<1>3. s \in Seq(Byte) /\ q \in Quotes /\ x \in 0..Len(s)
  BY <1>2, TextFacts
<1>4. p \in Nat /\ StringSoFar(s, q, p, x, bytes)
  BY <1>1, <1>2, <1>3, WithinFacts
<1>5. \A z : ~QuotePiece(s, q, x, z)
  BY <1>2, <1>3, NoPiece
<1>6. NoString(s, p, q)
  BY <1>2, <1>3, <1>4, <1>5, StringStuck
<1> QED
  BY <1>1, <1>2, <1>6, UndecodedFollows DEF Fail

\* The closing quote.
LEMMA CloseStringFollows ==
    ASSUME Sound, Placed, Follows, CloseString
    PROVE  Follows'
<1>1. PICK p, phase : Within(text, MaxNesting, p, position, phase, after, stack, out, closing, buf)
  BY StringIsOpen DEF CloseString
<1>2. PICK s, M, open, done, q, x, bytes :
          /\ s = text /\ M = MaxNesting /\ open = stack /\ done = out /\ q = closing
          /\ x = position /\ bytes = buf
  OBVIOUS
<1>3. s \in Seq(Byte) /\ M \in Nat /\ q \in Quotes
  BY <1>2, TextFacts
<1>4. Where(s, M, p, phase, open, done) /\ StringSoFar(s, q, p, x, bytes) /\ phase \in StringPhases
  BY <1>1, <1>2, <1>3, WithinFacts
<1>5. ByteIn(s, x, {q})
  BY <1>2 DEF CloseString, Next1
<1>6. PICK e : e = x + 1
  OBVIOUS
<1>7. /\ pc' = "skip" /\ position' = e /\ after' = after
      /\ text' = s /\ stack' = open
  BY <1>2, <1>6 DEF CloseString, SkipTo
<1>8. CASE after = "colon"
  <2>1. phase = "pair"
    BY <1>1, <1>8 DEF Within
  <2>2. PICK done2 : done2 = Append(done, Ev("key", bytes))
    OBVIOUS
  <2>3. PICK ph : ph = "colon"
    OBVIOUS
  <2>4. Where(s, M, e, ph, open, done2)
    BY <1>3, <1>4, <1>5, <1>6, <2>1, <2>2, <2>3, WhereKey
  <2>5. Skipping(s, M, e, ph, open, done2)
    BY <1>3, <2>4, SkippingStarts
  <2>6. out' = done2
    BY <1>2, <1>8, <2>2, EventsAgree, Zenon DEF CloseString
  <2>7. PhaseAt(after', stack') = ph
    BY <1>7, <1>8, <2>3, Zenon DEF PhaseAt
  <2> QED
    BY <1>2, <1>7, <2>5, <2>6, <2>7, FollowsSkip
<1>9. CASE after # "colon"
  <2>1. phase \in ValuePhases
    BY <1>1, <1>9 DEF Within, StringPhases, ValuePhases
  <2>2. PICK done2 : done2 = Append(done, Ev("string", bytes))
    OBVIOUS
  <2>3. PICK ph : ph = Follow(open)
    OBVIOUS
  <2>4. Len(open) <= M
    BY <1>2, <1>9 DEF Sound, NestingBounded, CloseString, At
  <2>5. Where(s, M, e, ph, open, done2)
    BY <1>3, <1>4, <1>5, <1>6, <2>1, <2>2, <2>3, <2>4, WhereString
  <2>6. Skipping(s, M, e, ph, open, done2)
    BY <1>3, <2>5, SkippingStarts
  <2>7. out' = done2
    BY <1>2, <1>9, <2>2, EventsAgree, Zenon DEF CloseString
  <2>8. after = "delimiter" \/ after = "end"
    BY <1>9 DEF Placed, PlaceAgrees, CloseString, At
  <2>9. PhaseAt(after', stack') = ph
    BY <1>7, <2>3, <2>8, Zenon DEF PhaseAt
  <2> QED
    BY <1>2, <1>7, <2>6, <2>7, <2>9, FollowsSkip
<1> QED
  BY <1>8, <1>9

\* A byte that stands for itself, and a backslash.
LEMMA StringByteFollows ==
    ASSUME Sound, Follows, StringByte
    PROVE  Follows'
<1>1. PICK p, phase : Within(text, MaxNesting, p, position, phase, after, stack, out, closing, buf)
  BY StringIsOpen DEF StringByte
<1>2. PICK s, M, open, done, q, x, bytes, back :
          /\ s = text /\ M = MaxNesting /\ open = stack /\ done = out /\ q = closing
          /\ x = position /\ bytes = buf /\ back = after
  OBVIOUS
<1>3. s \in Seq(Byte) /\ q \in Quotes /\ bytes \in Seq(Byte) /\ x \in 0..Len(s)
  BY <1>2, TextFacts
<1>4. p \in Nat /\ StringSoFar(s, q, p, x, bytes)
  BY <1>1, <1>2, <1>3, WithinFacts
<1>5. ByteIn(s, x, Plain(q))
  <2>1. Plain(q) = Byte \ ({q, BSlash} \cup LineEnd)
    BY DEF Plain, LineEnd
  <2> QED
    BY <1>2, <2>1 DEF StringByte, Next1
<1>6. PICK y, c : y = x + 1 /\ c = s[x + 1]
  OBVIOUS
<1>7. PICK all : all = bytes \o <<c>>
  OBVIOUS
<1>8. StringSoFar(s, q, p, y, all)
  BY <1>3, <1>4, <1>5, <1>6, <1>7, StringPlain
<1>9. Within(s, M, p, y, phase, back, open, done, q, all)
  BY <1>1, <1>2, <1>3, <1>8, WithinOn
<1>10. Quoting(s, M, y, back, open, done, q, all)
  BY <1>3, <1>9, WithinFacts
<1>11. Append(bytes, c) = all
  BY <1>3, <1>5, <1>6, <1>7 DEF ByteIn
<1>12. /\ pc' = "string" /\ position' = y /\ buf' = all
       /\ UNCHANGED <<text, after, stack, closing, out>>
  BY <1>2, <1>6, <1>11 DEF StringByte, At
<1> QED
  BY <1>2, <1>10, <1>12, FollowsString

\* A backslash.
LEMMA BackslashFollows ==
    ASSUME Sound, Follows, Backslash
    PROVE  Follows'
<1>1. Quoting(text, MaxNesting, position, after, stack, out, closing, buf)
  BY DEF Follows, At, Backslash
<1>2. position \in 0..Len(text)
  BY TextFacts
<1>3. /\ pc' = "escape" /\ position' = position + 1 /\ ByteIn(text, position, {BSlash})
      /\ UNCHANGED <<text, after, stack, closing, buf, out>>
  BY DEF Backslash, Next1
<1>4. Escaping(text, MaxNesting, position + 1, after, stack, out, closing, buf)
  BY <1>1, <1>2, <1>3 DEF Escaping
<1> QED
  BY <1>3, <1>4, FollowsEscape

-----------------------------------------------------------------------------
(***************************************************************************)
(* Escapes.                                                                *)
(***************************************************************************)
\* The text ends after the backslash, or a digit follows it.
LEMMA BrokenEscape ==
    ASSUME Sound, Follows, At("escape"), NEW m, NEW message, FailAt(m, message),
           ~ByteIn(text, position, {117} \cup {120} \cup SelfEscaped)
    PROVE  Follows'
<1>1. PICK p, phase : \E b \in 0..Len(text) :
          /\ position = b + 1 /\ ByteIn(text, b, {BSlash})
          /\ Within(text, MaxNesting, p, b, phase, after, stack, out, closing, buf)
  BY EscapeIsOpen
<1>2. PICK b \in 0..Len(text) :
          /\ position = b + 1 /\ ByteIn(text, b, {BSlash})
          /\ Within(text, MaxNesting, p, b, phase, after, stack, out, closing, buf)
  BY <1>1
<1>3. PICK s, q, bytes : s = text /\ q = closing /\ bytes = buf
  OBVIOUS
<1>4. s \in Seq(Byte) /\ q \in Quotes /\ b \in 0..Len(s) /\ ByteIn(s, b, {BSlash})
  BY <1>2, <1>3, TextFacts
<1>5. p \in Nat /\ StringSoFar(s, q, p, b, bytes)
  BY <1>2, <1>3, <1>4, WithinFacts
<1>6. \A z : ~EscapeTo(s, b, z)
  <2>1. ~ByteIn(s, b + 1, {117} \cup {120} \cup SelfEscaped)
    BY <1>2, <1>3
  <2> QED
    BY <1>4, <2>1, EscapeCases
<1>7. ~ByteIn(s, b, {q}) /\ \A z : ~QuotePiece(s, q, b, z)
  BY <1>4, <1>6, EscapePieces
<1>8. NoString(s, p, q)
  BY <1>4, <1>5, <1>7, StringStuck
<1> QED
  BY <1>2, <1>3, <1>8, UndecodedFollows

\* A byte that stands for itself or for another one.
LEMMA OneByteEscape ==
    ASSUME Sound, Follows, At("escape"), Next1(SelfEscaped \ {LF, CR}), ~Has(LS), ~Has(PS),
           NEW c, c = SelfPiece(text[position + 1]), Decoded(position + 1, <<c>>)
    PROVE  Follows'
<1>1. PICK p, phase : \E b \in 0..Len(text) :
          /\ position = b + 1 /\ ByteIn(text, b, {BSlash})
          /\ Within(text, MaxNesting, p, b, phase, after, stack, out, closing, buf)
  BY EscapeIsOpen
<1>2. PICK b \in 0..Len(text) :
          /\ position = b + 1 /\ ByteIn(text, b, {BSlash})
          /\ Within(text, MaxNesting, p, b, phase, after, stack, out, closing, buf)
  BY <1>1
<1>3. PICK s, q, bytes : s = text /\ q = closing /\ bytes = buf
  OBVIOUS
<1>4. s \in Seq(Byte) /\ q \in Quotes /\ b \in 0..Len(s) /\ ByteIn(s, b, {BSlash})
  BY <1>2, <1>3, TextFacts
<1>5. p \in Nat /\ StringSoFar(s, q, p, b, bytes)
  BY <1>2, <1>3, <1>4, WithinFacts
<1>6. ByteIn(s, b + 1, SelfEscaped \ {LF, CR}) /\ ~OccursAt(s, b + 1, LS) /\ ~OccursAt(s, b + 1, PS)
  BY <1>2, <1>3 DEF Next1, Has
<1>7. PICK y, e : y = b + 2 /\ e = s[b + 2]
  OBVIOUS
<1>8. c = SelfPiece(e)
  <2>1. position + 1 = b + 2
    BY <1>2
  <2> QED
    BY <1>3, <1>7, <2>1
<1>9. PICK all : all = bytes \o <<SelfPiece(e)>>
  OBVIOUS
<1>10. StringSoFar(s, q, p, y, all)
  BY <1>4, <1>5, <1>6, <1>7, <1>9, StringSelf
<1>11. PICK more : more = <<c>>
  OBVIOUS
<1>12. Decoded(y, more)
  <2>1. position + 1 = y
    BY <1>2, <1>7
  <2> QED
    BY <1>11, <2>1
<1>13. StringSoFar(text, closing, p, y, buf \o more)
  BY <1>3, <1>8, <1>9, <1>10, <1>11
<1> QED
  BY <1>2, <1>12, <1>13, DecodedFollows

\* A continuation of the line.
LEMMA LineEscape ==
    ASSUME Sound, Follows, At("escape"), NEW n \in {2, 3, 4}, Decoded(position + (n - 1), <<>>),
           \/ n = 2 /\ ByteIn(text, position, {LF})
           \/ n = 2 /\ ByteIn(text, position, {CR}) /\ ~ByteIn(text, position + 1, {LF})
           \/ n = 3 /\ ByteIn(text, position, {CR}) /\ ByteIn(text, position + 1, {LF})
           \/ n = 4 /\ (OccursAt(text, position, LS) \/ OccursAt(text, position, PS))
    PROVE  Follows'
<1>1. PICK p, phase : \E b \in 0..Len(text) :
          /\ position = b + 1 /\ ByteIn(text, b, {BSlash})
          /\ Within(text, MaxNesting, p, b, phase, after, stack, out, closing, buf)
  BY EscapeIsOpen
<1>2. PICK b \in 0..Len(text) :
          /\ position = b + 1 /\ ByteIn(text, b, {BSlash})
          /\ Within(text, MaxNesting, p, b, phase, after, stack, out, closing, buf)
  BY <1>1
<1>3. PICK s, q, bytes : s = text /\ q = closing /\ bytes = buf
  OBVIOUS
<1>4. s \in Seq(Byte) /\ q \in Quotes /\ b \in 0..Len(s) /\ ByteIn(s, b, {BSlash})
      /\ bytes \in Seq(Byte)
  BY <1>2, <1>3, TextFacts
<1>5. p \in Nat /\ StringSoFar(s, q, p, b, bytes)
  BY <1>2, <1>3, <1>4, WithinFacts
<1>6. PICK y : y = b + n
  OBVIOUS
<1>7. \/ n = 2 /\ ByteIn(s, b + 1, {LF})
      \/ n = 2 /\ ByteIn(s, b + 1, {CR}) /\ ~ByteIn(s, b + 2, {LF})
      \/ n = 3 /\ ByteIn(s, b + 1, {CR}) /\ ByteIn(s, b + 2, {LF})
      \/ n = 4 /\ (OccursAt(s, b + 1, LS) \/ OccursAt(s, b + 1, PS))
  <2>1. position + 1 = b + 2
    BY <1>2
  <2> QED
    BY <1>2, <1>3, <2>1
<1>8. StringSoFar(s, q, p, y, bytes)
  BY <1>4, <1>5, <1>6, <1>7, StringLine
<1>9. PICK more : more = <<>>
  OBVIOUS
<1>10. Decoded(y, more)
  <2>1. position + (n - 1) = y
    BY <1>2, <1>6
  <2> QED
    BY <1>9, <2>1
<1>11. bytes \o more = bytes
  BY <1>4, <1>9
<1>12. StringSoFar(text, closing, p, y, buf \o more)
  BY <1>3, <1>8, <1>11
<1> QED
  BY <1>2, <1>10, <1>12, DecodedFollows

\* \xHH
LEMMA HexEscapeFollows ==
    ASSUME Sound, Follows, At("escape"), ByteIn(text, position, {120}), TwoDigits(position + 1)
    PROVE  Follows'
<1>1. PICK p, phase : \E b \in 0..Len(text) :
          /\ position = b + 1 /\ ByteIn(text, b, {BSlash})
          /\ Within(text, MaxNesting, p, b, phase, after, stack, out, closing, buf)
  BY EscapeIsOpen
<1>2. PICK b \in 0..Len(text) :
          /\ position = b + 1 /\ ByteIn(text, b, {BSlash})
          /\ Within(text, MaxNesting, p, b, phase, after, stack, out, closing, buf)
  BY <1>1
<1>3. PICK s, q, bytes : s = text /\ q = closing /\ bytes = buf
  OBVIOUS
<1>4. s \in Seq(Byte) /\ q \in Quotes /\ b \in 0..Len(s) /\ ByteIn(s, b, {BSlash})
      /\ ByteIn(s, b + 1, {120})
  BY <1>2, <1>3, TextFacts
<1>5. p \in Nat /\ StringSoFar(s, q, p, b, bytes)
  BY <1>2, <1>3, <1>4, WithinFacts
<1>6. PICK y, more : y = b + 4 /\ more = Utf8(Hex2(s, b + 2))
  OBVIOUS
<1>7. PICK all : all = bytes \o more
  OBVIOUS
<1>8. /\ HexRun(s, b + 2, 2) => StringSoFar(s, q, p, y, all)
      /\ ~HexRun(s, b + 2, 2) => NoString(s, p, q)
  BY <1>4, <1>5, <1>6, <1>7, StringTwoDigits
<1>9. PICK h \in Nat : h = b + 2 /\ h = position + 1
  BY <1>2
<1>10. HexRun(s, b + 2, 2) <=> Room(h, 2) /\ HexAt(h, 2)
  BY <1>3, <1>9 DEF HexRun, Room, HexAt
<1>11. TwoDigits(h)
  BY <1>9
<1>12. CASE HexRun(s, b + 2, 2)
  <2>1. Decoded(h + 2, Utf8(Hex2(text, h)))
    BY <1>10, <1>11, <1>12, Zenon DEF TwoDigits
  <2>2. Decoded(y, more)
    <3>1. h + 2 = y
      BY <1>6, <1>9
    <3> QED
      BY <1>3, <1>6, <1>9, <2>1, <3>1
  <2>3. StringSoFar(text, closing, p, y, buf \o more)
    BY <1>3, <1>7, <1>8, <1>12
  <2> QED
    BY <1>2, <2>2, <2>3, DecodedFollows
<1>13. CASE ~HexRun(s, b + 2, 2)
  <2>1. \E message : FailAt(h, message)
    BY <1>10, <1>11, <1>13, Zenon DEF TwoDigits
  <2>2. NoString(text, p, closing)
    BY <1>3, <1>8, <1>13
  <2> QED
    BY <1>2, <2>1, <2>2, UndecodedFollows
<1> QED
  BY <1>12, <1>13

\* Four hexadecimal digits.
LEMMA HexIsRun ==
    ASSUME NEW h
    PROVE  HexRun(text, h, 4) <=> Room(h, 4) /\ HexAt(h, 4)
BY DEF HexRun, Room, HexAt

\* Where parse_hex4 finds fewer, it fails.
LEMMA NoHex4Fails ==
    ASSUME NEW h, NoHex4(h)
    PROVE  ~HexRun(text, h, 4) /\ \E message : FailAt(h, message)
<1>1. ~HexRun(text, h, 4)
  BY HexIsRun, Zenon DEF NoHex4
<1>2. \E message : FailAt(h, message)
  BY Zenon DEF NoHex4
<1> QED
  BY <1>1, <1>2

\* What SecondSurrogate does, by what stands at its offset.
LEMMA SecondSurrogateCases ==
    ASSUME NEW high, NEW g, SecondSurrogate(high, g), NEW i, i = g + 2, NEW y, y = g + 6,
           NEW low, low = Hex4(text, i), NEW more, more = Utf8(SurrogatePair(high, low))
    PROVE  \/ ~OccursAt(text, g, UnicodeMark) /\ \E message : FailAt(g, message)
           \/ /\ OccursAt(text, g, UnicodeMark) /\ ~HexRun(text, i, 4)
              /\ \E message : FailAt(i, message)
           \/ /\ OccursAt(text, g, UnicodeMark) /\ HexRun(text, i, 4) /\ low \notin LowSurrogate
              /\ \E message : FailAt(y, message)
           \/ /\ OccursAt(text, g, UnicodeMark) /\ HexRun(text, i, 4) /\ low \in LowSurrogate
              /\ Decoded(y, more)
<1>1. CASE ~OccursAt(text, g, <<BSlash, 117>>) /\ FailAt(g, "lone high surrogate")
  BY <1>1, Zenon DEF UnicodeMark
<1>2. CASE OccursAt(text, g, <<BSlash, 117>>) /\ NoHex4(g + 2)
  <2>1. ~HexRun(text, i, 4) /\ \E message : FailAt(i, message)
    BY <1>2, NoHex4Fails, Zenon
  <2> QED
    BY <1>2, <2>1, Zenon DEF UnicodeMark
<1>3. CASE /\ OccursAt(text, g, <<BSlash, 117>>)
           /\ Room(g + 2, 4) /\ HexAt(g + 2, 4)
           /\ LET l == Hex4(text, g + 2)
              IN  \/ l \notin LowSurrogate /\ FailAt(g + 6, "invalid low surrogate")
                  \/ l \in LowSurrogate /\ Decoded(g + 6, Utf8(SurrogatePair(high, l)))
  <2>1. HexRun(text, i, 4)
    BY <1>3, HexIsRun, Zenon
  <2>2. \/ low \notin LowSurrogate /\ \E message : FailAt(y, message)
        \/ low \in LowSurrogate /\ Decoded(y, more)
    BY <1>3, Zenon
  <2> QED
    BY <1>3, <2>1, <2>2, Zenon DEF UnicodeMark
<1> QED
  BY <1>1, <1>2, <1>3, Zenon DEF SecondSurrogate

\* What FourDigits does, by the digits.
LEMMA FourDigitsCases ==
    ASSUME NEW h, FourDigits(h), NEW g, g = h + 4, NEW unit, unit = Hex4(text, h),
           NEW more, more = Utf8(unit)
    PROVE  \/ ~HexRun(text, h, 4) /\ \E message : FailAt(h, message)
           \/ HexRun(text, h, 4) /\ unit \in HighSurrogate /\ SecondSurrogate(unit, g)
           \/ HexRun(text, h, 4) /\ unit \in LowSurrogate /\ \E message : FailAt(g, message)
           \/ HexRun(text, h, 4) /\ unit \notin HighSurrogate \cup LowSurrogate /\ Decoded(g, more)
<1>1. CASE NoHex4(h)
  BY <1>1, NoHex4Fails, Zenon
<1>2. CASE /\ Room(h, 4) /\ HexAt(h, 4)
           /\ LET u == Hex4(text, h)
              IN  \/ u \in HighSurrogate /\ SecondSurrogate(u, h + 4)
                  \/ u \in LowSurrogate /\ FailAt(h + 4, "lone low surrogate")
                  \/ u \notin HighSurrogate \cup LowSurrogate /\ Decoded(h + 4, Utf8(u))
  <2>1. HexRun(text, h, 4)
    BY <1>2, HexIsRun, Zenon
  <2>2. \/ unit \in HighSurrogate /\ SecondSurrogate(unit, g)
        \/ unit \in LowSurrogate /\ \E message : FailAt(g, message)
        \/ unit \notin HighSurrogate \cup LowSurrogate /\ Decoded(g, more)
    BY <1>2, Zenon
  <2> QED
    BY <2>1, <2>2, Zenon
<1> QED
  BY <1>1, <1>2, Zenon DEF FourDigits

\* \uHHHH
LEMMA UnicodeEscapeFollows ==
    ASSUME Sound, Follows, At("escape"), ByteIn(text, position, {117}), FourDigits(position + 1)
    PROVE  Follows'
<1>1. PICK p, phase : \E b \in 0..Len(text) :
          /\ position = b + 1 /\ ByteIn(text, b, {BSlash})
          /\ Within(text, MaxNesting, p, b, phase, after, stack, out, closing, buf)
  BY EscapeIsOpen
<1>2. PICK b \in 0..Len(text) :
          /\ position = b + 1 /\ ByteIn(text, b, {BSlash})
          /\ Within(text, MaxNesting, p, b, phase, after, stack, out, closing, buf)
  BY <1>1
<1>3. PICK s, q, bytes : s = text /\ q = closing /\ bytes = buf
  OBVIOUS
<1>4. s \in Seq(Byte) /\ q \in Quotes /\ b \in 0..Len(s)
  BY <1>2, <1>3, TextFacts
<1>5. p \in Nat /\ StringSoFar(s, q, p, b, bytes)
  BY <1>2, <1>3, <1>4, WithinFacts
<1>6. OccursAt(s, b, UnicodeMark)
  <2>1. ByteIn(s, b, {BSlash}) /\ ByteIn(s, b + 1, {117})
    BY <1>2, <1>3
  <2> QED
    BY <1>4, <2>1 DEF OccursAt, UnicodeMark, ByteIn
<1>7. PICK h \in Nat : h = b + 2 /\ h = position + 1
  BY <1>2
<1>8. PICK y \in Nat : y = b + 6 /\ y = h + 4
  BY <1>7
<1>9. PICK unit : unit = Hex4(s, h)
  OBVIOUS
<1>10. PICK more : more = Utf8(unit)
  OBVIOUS
<1>11. PICK all : all = bytes \o more
  OBVIOUS
<1>12. unit = Hex4(s, b + 2) /\ all = bytes \o Utf8(unit)
  BY <1>7, <1>9, <1>10, <1>11
<1>13. /\ ~HexRun(s, b + 2, 4) => NoString(s, p, q)
       /\ HexRun(s, b + 2, 4) /\ unit \notin HighSurrogate \cup LowSurrogate =>
             StringSoFar(s, q, p, y, all)
       /\ HexRun(s, b + 2, 4) /\ unit \in LowSurrogate => NoString(s, p, q)
       /\ HexRun(s, b + 2, 4) /\ unit \in HighSurrogate /\ ~OccursAt(s, y, UnicodeMark) =>
             NoString(s, p, q)
  <2>1. y = b + 6 /\ p \in Nat /\ StringSoFar(s, q, p, b, bytes)
    BY <1>5, <1>8
  <2>2. HexRun(s, b + 2, 4) /\ unit \notin HighSurrogate \cup LowSurrogate =>
           StringSoFar(s, q, p, y, all)
    BY <1>4, <1>6, <1>12, <2>1, StringFourDigits, Zenon
  <2>3. LoneUnit(s, b, y, unit) => NoString(s, p, q)
    BY <1>4, <1>6, <1>12, <2>1, StringFourDigits, SMTT(60)
  <2> QED
    BY <2>2, <2>3 DEF LoneUnit
<1>14. FourDigits(h)
  BY <1>7
<1>15. ASSUME NEW m, \E message : FailAt(m, message), NoString(s, p, q) PROVE Follows'
  BY <1>2, <1>3, <1>15, UndecodedFollows
<1>16. ASSUME NEW z, NEW bs, Decoded(z, bs), StringSoFar(s, q, p, z, bytes \o bs) PROVE Follows'
  BY <1>2, <1>3, <1>16, DecodedFollows
<1>17. CASE ~HexRun(s, h, 4) /\ \E message : FailAt(h, message)
  BY <1>7, <1>13, <1>15, <1>17
<1>18. CASE HexRun(s, h, 4) /\ unit \in LowSurrogate /\ \E message : FailAt(y, message)
  BY <1>7, <1>13, <1>15, <1>18
<1>19. CASE HexRun(s, h, 4) /\ unit \notin HighSurrogate \cup LowSurrogate /\ Decoded(y, more)
  BY <1>7, <1>11, <1>13, <1>16, <1>19
<1>20. CASE HexRun(s, h, 4) /\ unit \in HighSurrogate /\ SecondSurrogate(unit, y)
  <2>1. PICK i \in Nat : i = b + 8 /\ i = y + 2
    BY <1>8
  <2>2. PICK z \in Nat : z = b + 12 /\ z = y + 6
    BY <1>8
  <2>3. PICK low : low = Hex4(s, i)
    OBVIOUS
  <2>4. PICK pair : pair = Utf8(SurrogatePair(unit, low))
    OBVIOUS
  <2>5. PICK both : both = bytes \o pair
    OBVIOUS
  <2>6. \/ ~OccursAt(s, y, UnicodeMark) /\ \E message : FailAt(y, message)
        \/ /\ OccursAt(s, y, UnicodeMark) /\ ~HexRun(s, i, 4)
           /\ \E message : FailAt(i, message)
        \/ /\ OccursAt(s, y, UnicodeMark) /\ HexRun(s, i, 4) /\ low \notin LowSurrogate
           /\ \E message : FailAt(z, message)
        \/ /\ OccursAt(s, y, UnicodeMark) /\ HexRun(s, i, 4) /\ low \in LowSurrogate
           /\ Decoded(z, pair)
    <3>1. PICK g : g = y
      OBVIOUS
    <3>2. SecondSurrogate(unit, g) /\ i = g + 2 /\ z = g + 6 /\ low = Hex4(text, i)
      BY <1>3, <1>20, <2>1, <2>2, <2>3, <3>1
    <3> QED
      BY <1>3, <2>4, <3>1, <3>2, SecondSurrogateCases, Zenon
  <2>7. CASE ~OccursAt(s, y, UnicodeMark) /\ \E message : FailAt(y, message)
    BY <1>7, <1>13, <1>15, <1>20, <2>7
  <2>8. CASE OccursAt(s, y, UnicodeMark)
    <3>1. HexRun(s, b + 2, 4) /\ OccursAt(s, b + 6, UnicodeMark) /\ low = Hex4(s, b + 8)
      BY <1>7, <1>8, <1>20, <2>1, <2>3, <2>8
    <3>2. both = bytes \o Utf8(SurrogatePair(unit, low))
      BY <2>4, <2>5
    <3>3. /\ ~HexRun(s, b + 8, 4) => NoString(s, p, q)
          /\ HexRun(s, b + 8, 4) /\ low \notin LowSurrogate => NoString(s, p, q)
          /\ HexRun(s, b + 8, 4) /\ low \in LowSurrogate => StringSoFar(s, q, p, z, both)
      BY <1>4, <1>5, <1>6, <1>12, <1>20, <2>2, <3>1, <3>2, StringPair, ZenonT(60)
    <3>4. CASE ~HexRun(s, i, 4) /\ \E message : FailAt(i, message)
      BY <1>15, <2>1, <3>3, <3>4
    <3>5. CASE /\ HexRun(s, i, 4) /\ low \notin LowSurrogate
               /\ \E message : FailAt(z, message)
      BY <1>15, <2>1, <3>3, <3>5
    <3>6. CASE HexRun(s, i, 4) /\ low \in LowSurrogate /\ Decoded(z, pair)
      BY <1>16, <2>1, <2>5, <3>3, <3>6
    <3> QED
      BY <2>6, <2>8, <3>4, <3>5, <3>6
  <2> QED
    BY <2>6, <2>7, <2>8
<1>21. \/ ~HexRun(s, h, 4) /\ \E message : FailAt(h, message)
       \/ HexRun(s, h, 4) /\ unit \in HighSurrogate /\ SecondSurrogate(unit, y)
       \/ HexRun(s, h, 4) /\ unit \in LowSurrogate /\ \E message : FailAt(y, message)
       \/ HexRun(s, h, 4) /\ unit \notin HighSurrogate \cup LowSurrogate /\ Decoded(y, more)
  <2>1. unit = Hex4(text, h) /\ y = h + 4
    BY <1>3, <1>8, <1>9
  <2> QED
    BY <1>3, <1>10, <1>14, <2>1, FourDigitsCases, Zenon
<1> QED
  BY <1>17, <1>18, <1>19, <1>20, <1>21

\* The simple escapes stand for the same bytes.
LEMMA SimpleAgree ==
    ASSUME NEW c \in DOMAIN SimpleEscape
    PROVE  /\ c \in SelfEscaped \ {LF, CR} /\ SelfPiece(c) = SimpleEscape[c]
           /\ c # 226
<1>1. c \in {98, 102, 110, 114, 116, 118, 48}
  BY DEF SimpleEscape, Zero
<1>2. c \in SelfEscaped \ {LF, CR} /\ c # 226
  BY <1>1 DEF SelfEscaped, LF, CR, Byte
<1>3. SelfPiece(c) = SimpleEscape[c]
  BY <1>1 DEF SelfPiece, SimpleEscape, Zero
<1> QED
  BY <1>2, <1>3

\* The bytes that stand for themselves when they are escaped.
LEMMA SelfAgree ==
    ASSUME NEW c \in Byte \ (DOMAIN SimpleEscape \cup HexEscape \cup UnicodeEscape
                               \cup RejectedEscape \cup LineEnd)
    PROVE  c \in SelfEscaped \ {LF, CR} /\ SelfPiece(c) = c
<1>1. c \in Byte \ {98, 102, 110, 114, 116, 118, 48, 117, 120, 10, 13} /\ c \notin 49..57
  BY DEF SimpleEscape, HexEscape, UnicodeEscape, RejectedEscape, LineEnd, Zero, Digit, LF, CR
<1>2. c \in SelfEscaped \ {LF, CR}
  BY <1>1 DEF SelfEscaped, LF, CR
<1>3. SelfPiece(c) = c
  BY <1>1 DEF SelfPiece
<1> QED
  BY <1>2, <1>3

\* parse_string.
LEMMA StringFollows ==
    ASSUME Sound, Placed, Follows, ~MeetsCapitalX, String
    PROVE  Follows'
<1>1. text \in Seq(Byte) /\ closing \in Quotes /\ position \in 0..Len(text)
  BY TextFacts
<1>2. CASE UnterminatedString
  <2>1. /\ ~ByteIn(text, position, {closing}) /\ ~ByteIn(text, position, Plain(closing))
        /\ ~ByteIn(text, position, {BSlash})
    <3>1. AtEnd
      BY <1>2, Zenon DEF UnterminatedString
    <3> QED
      BY <1>1, <3>1 DEF AtEnd, ByteIn
  <2> QED
    BY <1>2, <2>1, BrokenString DEF UnterminatedString
<1>3. CASE CloseString
  BY <1>3, CloseStringFollows
<1>4. CASE RawTerminator
  <2>1. /\ ~ByteIn(text, position, {closing}) /\ ~ByteIn(text, position, Plain(closing))
        /\ ~ByteIn(text, position, {BSlash})
    <3>1. PICK c : c = text[position + 1]
      OBVIOUS
    <3>2. c = 10 \/ c = 13
      BY <1>4, <3>1 DEF RawTerminator, Next1, ByteIn, LineEnd, LF, CR
    <3>3. c # closing /\ c \notin Plain(closing) /\ c # BSlash
      BY <1>1, <3>2 DEF Plain, Quotes, Quote, Apostrophe, BSlash, LF, CR
    <3> QED
      BY <3>1, <3>3 DEF ByteIn
  <2> QED
    BY <1>4, <2>1, BrokenString DEF RawTerminator
<1>5. CASE StringByte
  BY <1>5, StringByteFollows
<1>6. CASE Backslash
  BY <1>6, BackslashFollows
<1>7. CASE TruncatedEscape
  <2>1. ~ByteIn(text, position, {117} \cup {120} \cup SelfEscaped)
    <3>1. AtEnd
      BY <1>7, Zenon DEF TruncatedEscape
    <3> QED
      BY <1>1, <3>1 DEF AtEnd, ByteIn
  <2> QED
    BY <1>7, <2>1, BrokenEscape DEF TruncatedEscape, Fail
<1>8. CASE EscapeSimple
  <2>1. PICK c : c = text[position + 1]
    OBVIOUS
  <2>2. At("escape") /\ ByteIn(text, position, DOMAIN SimpleEscape)
        /\ Decoded(position + 1, <<SimpleEscape[c]>>)
    BY <1>8, <2>1 DEF EscapeSimple, Next1
  <2>3. c \in DOMAIN SimpleEscape /\ position < Len(text)
    BY <2>1, <2>2 DEF ByteIn
  <2>4. c \in SelfEscaped \ {LF, CR} /\ SelfPiece(c) = SimpleEscape[c] /\ c # 226
    BY <2>3, SimpleAgree
  <2>5. Next1(SelfEscaped \ {LF, CR})
    BY <2>1, <2>3, <2>4 DEF Next1, ByteIn
  <2>6. ~Has(LS) /\ ~Has(PS)
    BY <1>1, <2>1, <2>4 DEF Has, OccursAt, LS, PS
  <2>7. PICK e : e = SelfPiece(c)
    OBVIOUS
  <2>8. Decoded(position + 1, <<e>>)
    BY <2>2, <2>4, <2>7
  <2> QED
    BY <2>1, <2>2, <2>5, <2>6, <2>7, <2>8, OneByteEscape
<1>9. CASE Continuation
  <2>1. At("escape")
    BY <1>9 DEF Continuation
  <2>2. ASSUME NEW n \in {2, 3, 4}, Decoded(position + (n - 1), <<>>),
           \/ n = 2 /\ ByteIn(text, position, {LF})
           \/ n = 2 /\ ByteIn(text, position, {CR}) /\ ~ByteIn(text, position + 1, {LF})
           \/ n = 3 /\ ByteIn(text, position, {CR}) /\ ByteIn(text, position + 1, {LF})
           \/ n = 4 /\ (OccursAt(text, position, LS) \/ OccursAt(text, position, PS))
        PROVE  Follows'
    BY <2>1, <2>2, LineEscape
  <2>3. CASE Next1({LF}) /\ Decoded(position + 1, <<>>)
    <3>1. position + (2 - 1) = position + 1
      BY <1>1
    <3> QED
      BY <2>2, <2>3, <3>1 DEF Next1
  <2>4. CASE Next1({CR}) /\ ~ByteIn(text, position + 1, {LF}) /\ Decoded(position + 1, <<>>)
    <3>1. position + (2 - 1) = position + 1
      BY <1>1
    <3> QED
      BY <2>2, <2>4, <3>1 DEF Next1
  <2>5. CASE Next1({CR}) /\ ByteIn(text, position + 1, {LF}) /\ Decoded(position + 2, <<>>)
    <3>1. position + (3 - 1) = position + 2
      BY <1>1
    <3> QED
      BY <2>2, <2>5, <3>1 DEF Next1
  <2>6. CASE (Has(LS) \/ Has(PS)) /\ Decoded(position + 3, <<>>)
    <3>1. position + (4 - 1) = position + 3
      BY <1>1
    <3> QED
      BY <2>2, <2>6, <3>1 DEF Has
  <2> QED
    BY <1>9, <2>3, <2>4, <2>5, <2>6 DEF Continuation
<1>10. CASE EscapeDigit
  <2>1. ~ByteIn(text, position, {117} \cup {120} \cup SelfEscaped)
    <3>1. PICK c : c = text[position + 1]
      OBVIOUS
    <3>2. c \in 49..57
      <4>1. Next1(RejectedEscape)
        BY <1>10, Zenon DEF EscapeDigit
      <4> QED
        BY <3>1, <4>1 DEF Next1, ByteIn, RejectedEscape, Digit, Zero
    <3>3. c \notin {117} \cup {120} \cup SelfEscaped
      BY <3>2 DEF SelfEscaped
    <3> QED
      BY <3>1, <3>3 DEF ByteIn
  <2> QED
    BY <1>10, <2>1, BrokenEscape DEF EscapeDigit
<1>11. CASE SelfEscape
  <2>1. PICK c : c = text[position + 1]
    OBVIOUS
  <2>2. /\ position < Len(text)
        /\ c \in Byte \ (DOMAIN SimpleEscape \cup HexEscape \cup UnicodeEscape
                           \cup RejectedEscape \cup LineEnd)
    BY <1>11, <2>1 DEF SelfEscape, Next1, ByteIn
  <2>3. At("escape") /\ ~Has(LS) /\ ~Has(PS) /\ Decoded(position + 1, <<c>>)
    BY <1>11, <2>1 DEF SelfEscape
  <2>4. c \in SelfEscaped \ {LF, CR} /\ SelfPiece(c) = c
    BY <2>2, SelfAgree
  <2>5. Next1(SelfEscaped \ {LF, CR})
    BY <2>1, <2>2, <2>4 DEF Next1, ByteIn
  <2>6. c = SelfPiece(text[position + 1])
    BY <2>1, <2>4
  <2> QED
    BY <2>3, <2>5, <2>6, OneByteEscape
<1>12. CASE EscapeHex
  <2>1. At("escape") /\ Next1(HexEscape) /\ TwoDigits(position + 1) /\ ~Next1({88})
    BY <1>12 DEF EscapeHex, MeetsCapitalX, At
  <2>2. ByteIn(text, position, {120})
    BY <2>1 DEF Next1, ByteIn, HexEscape
  <2> QED
    BY <2>1, <2>2, HexEscapeFollows
<1>13. CASE EscapeUnicode
  <2>1. At("escape") /\ ByteIn(text, position, {117}) /\ FourDigits(position + 1)
    BY <1>13 DEF EscapeUnicode, Next1, UnicodeEscape
  <2> QED
    BY <2>1, UnicodeEscapeFollows
<1> QED
  BY <1>2, <1>3, <1>4, <1>5, <1>6, <1>7, <1>8, <1>9, <1>10, <1>11, <1>12, <1>13 DEF String

-----------------------------------------------------------------------------
(***************************************************************************)
(* The loops of objects and arrays.                                        *)
(***************************************************************************)
LEMMA PlaceIs ==
    ASSUME Follows, pc \in Places \ {"value"}
    PROVE  /\ Settled(text, position)
           /\ Where(text, MaxNesting, position, PhaseAt(pc, stack), stack, out)
<1>1. Looking(text, MaxNesting, position, pc, stack, out) /\ pc # "value"
  BY DEF Follows
<1> QED
  BY <1>1, Zenon DEF Looking

\* The phase at each place.
LEMMA PhasesAre ==
    ASSUME NEW open
    PROVE  /\ PhaseAt("member", open) = "pair" /\ PhaseAt("element", open) = "item"
           /\ PhaseAt("colon", open) = "colon" /\ PhaseAt("delimiter", open) = Follow(open)
           /\ PhaseAt("end", open) = Follow(open) /\ PhaseAt("value", open) = "value"
           /\ \A c \in Nest : PhaseAt(FirstItem(c), open) = FirstPhase(c)
<1>1. /\ PhaseAt("member", open) = "pair" /\ PhaseAt("element", open) = "item"
      /\ PhaseAt("colon", open) = "colon" /\ PhaseAt("delimiter", open) = Follow(open)
      /\ PhaseAt("end", open) = Follow(open) /\ PhaseAt("value", open) = "value"
  BY Zenon DEF PhaseAt
<1>2. ASSUME NEW c \in Nest PROVE PhaseAt(FirstItem(c), open) = FirstPhase(c)
  <2>1. CASE c = "object"
    BY <1>1, <2>1, Zenon DEF FirstItem, FirstPhase
  <2>2. CASE c = "array"
    BY <1>1, <2>2, Zenon DEF FirstItem, FirstPhase
  <2> QED
    BY <2>1, <2>2 DEF Nest
<1> QED
  BY <1>1, <1>2

\* The container that is closed, and what the run expects before it is.
LEMMA InsideIs ==
    ASSUME Sound, Placed, Follows, pc \in {"member", "element", "delimiter"},
           NEW c, c = Innermost, NEW phase, phase = PhaseAt(pc, stack)
    PROVE  /\ stack # <<>> /\ c \in Nest /\ phase \in {c, FirstPhase(c)}
           /\ pc = "delimiter" => phase = c
<1>1. stack # <<>>
  BY DEF Placed, PlaceAgrees, Place, Inside
<1>2. stack \in Seq(Nest)
  BY TextFacts
<1>3. c \in Nest
  BY <1>1, <1>2 DEF Innermost
<1>4. CASE pc = "member"
  <2>1. c = "object"
    BY <1>4 DEF Placed, PlaceAgrees, Place, Inside
  <2>2. phase = FirstPhase(c)
    BY <1>4, <2>1, PhasesAre, Zenon DEF FirstPhase
  <2> QED
    BY <1>1, <1>3, <1>4, <2>2
<1>5. CASE pc = "element"
  <2>1. c = "array"
    BY <1>5 DEF Placed, PlaceAgrees, Place, Inside
  <2>2. phase = FirstPhase(c)
    BY <1>5, <2>1, PhasesAre, Zenon DEF FirstPhase
  <2> QED
    BY <1>1, <1>3, <1>5, <2>2
<1>6. CASE pc = "delimiter"
  <2>1. phase = Follow(stack)
    BY <1>6, PhasesAre
  <2>2. Follow(stack) = c
    BY <1>1 DEF Follow, Innermost
  <2> QED
    BY <1>1, <1>3, <2>1, <2>2
<1> QED
  BY <1>4, <1>5, <1>6

\* A container closes.
LEMMA CloseFollows ==
    ASSUME Sound, Placed, Follows, pc \in {"member", "element", "delimiter"}, Close
    PROVE  Follows'
<1>1. PICK s, M, open, done, x, c, phase :
          /\ s = text /\ M = MaxNesting /\ open = stack /\ done = out /\ x = position
          /\ c = Innermost /\ phase = PhaseAt(pc, stack)
  OBVIOUS
<1>2. s \in Seq(Byte) /\ M \in Nat
  BY <1>1, TextFacts
<1>3. Where(s, M, x, phase, open, done)
  BY <1>1, PlaceIs DEF Places
<1>4. open # <<>> /\ c \in Nest /\ phase \in {c, FirstPhase(c)}
  BY <1>1, InsideIs
<1>5. ByteIn(s, x, {CloseByte(c)})
  BY <1>1, Zenon DEF Close, Next1, ClosingByte, CloseByte
<1>6. PICK e, open2, done2, phase2 :
          /\ e = x + 1 /\ open2 = SubSeq(open, 1, Len(open) - 1)
          /\ done2 = Append(done, CloseEvent(c)) /\ phase2 = Follow(open2)
  OBVIOUS
<1>7. Where(s, M, e, phase2, open2, done2)
  BY <1>2, <1>3, <1>4, <1>5, <1>6, WhereCloses
<1>8. Skipping(s, M, e, phase2, open2, done2)
  BY <1>2, <1>7, SkippingStarts
<1>9. /\ pc' = "skip" /\ position' = e /\ after' = AfterValue(open2)
      /\ stack' = open2 /\ text' = s
  BY <1>1, <1>6 DEF Close, SkipTo, Pop
<1>10. out' = done2
  BY <1>1, <1>4, <1>6, EventsAgree DEF Close
<1>11. PhaseAt(after', stack') = phase2
  BY <1>6, <1>9, AfterValuePhase
<1> QED
  BY <1>1, <1>8, <1>9, <1>10, <1>11, FollowsSkip

\* A key that is an identifier.
LEMMA KeyIdentifierFollows ==
    ASSUME Sound, Follows, KeyIdentifier
    PROVE  Follows'
<1>1. PICK s, M, open, done, x, phase :
          /\ s = text /\ M = MaxNesting /\ open = stack /\ done = out /\ x = position
          /\ phase = "pair"
  OBVIOUS
<1>2. s \in Seq(Byte) /\ M \in Nat
  BY <1>1, TextFacts
<1>3. pc = "member" /\ ByteIn(s, x, IdStart)
  BY <1>1 DEF KeyIdentifier, At, Next1
<1>4. Where(s, M, x, phase, open, done)
  BY <1>1, <1>3, PlaceIs, PhasesAre DEF Places
<1>5. PICK e : e = RunEnd(s, x, IdContinue)
  OBVIOUS
<1>6. PICK raw : raw = Slice(s, x, e)
  OBVIOUS
<1>7. PICK done2, phase2 : done2 = Append(done, Ev("key", raw)) /\ phase2 = "colon"
  OBVIOUS
<1>8. Where(s, M, e, phase2, open, done2)
  BY <1>1, <1>2, <1>3, <1>4, <1>5, <1>6, <1>7, WhereName
<1>9. Skipping(s, M, e, phase2, open, done2)
  BY <1>2, <1>8, SkippingStarts
<1>10. /\ pc' = "skip" /\ position' = e /\ after' = "colon"
       /\ stack' = open /\ text' = s /\ out' = Append(done, Leaf("key", raw))
  BY <1>1, <1>5, <1>6 DEF KeyIdentifier, SkipTo
<1>11. out' = done2
  BY <1>7, <1>10, EventsAgree
<1>12. PhaseAt(after', stack') = phase2
  BY <1>7, <1>10, PhasesAre
<1> QED
  BY <1>1, <1>9, <1>10, <1>11, <1>12, FollowsSkip

\* The run cannot go on where the parser fails.
LEMMA StuckFollows ==
    ASSUME Sound, Follows, pc \in Places \ {"value"}, NEW message, Fail(message),
           NEW phase, phase = PhaseAt(pc, stack), phase # "nothing",
           LexesNothing(text, position, phase)
    PROVE  Follows'
<1>1. text \in Seq(Byte) /\ MaxNesting \in Nat
  BY TextFacts
<1>2. Where(text, MaxNesting, position, phase, stack, out)
  BY PlaceIs
<1>3. ~Takes(text, MaxNesting)
  BY <1>1, <1>2, NoneTaken
<1> QED
  BY <1>3, FollowsFail DEF Fail

\* The ':' and the ','.
LEMMA ColonFollows ==
    ASSUME Sound, Follows, ColonStep
    PROVE  Follows'
<1>1. PICK s, M, open, done, x, phase :
          /\ s = text /\ M = MaxNesting /\ open = stack /\ done = out /\ x = position
          /\ phase = "colon"
  OBVIOUS
<1>2. s \in Seq(Byte) /\ M \in Nat /\ x \in 0..Len(s)
  BY <1>1, TextFacts
<1>3. pc = "colon" /\ phase = PhaseAt(pc, stack)
  BY <1>1, PhasesAre DEF ColonStep, At
<1>4. Where(s, M, x, phase, open, done) /\ Settled(s, x)
  BY <1>1, <1>3, PlaceIs DEF Places
<1>5. CASE /\ Next1({Colon}) /\ SkipTo(position + 1, "value")
           /\ UNCHANGED <<text, stack, closing, buf, out, error>>
  <2>1. PICK e, phase2 : e = x + 1 /\ phase2 = "value"
    OBVIOUS
  <2>2. ByteIn(s, x, {Colon})
    BY <1>1, <1>5 DEF Next1
  <2>3. Where(s, M, e, phase2, open, done)
    BY <1>1, <1>2, <1>4, <2>1, <2>2, WhereColon
  <2>4. Skipping(s, M, e, phase2, open, done)
    BY <1>2, <2>3, SkippingStarts
  <2>5. /\ pc' = "skip" /\ position' = e /\ after' = "value"
        /\ UNCHANGED <<text, stack, out>>
    BY <1>1, <1>5, <2>1 DEF SkipTo
  <2>6. PhaseAt(after', stack') = phase2
    BY <2>1, <2>5, PhasesAre
  <2> QED
    BY <1>1, <2>4, <2>5, <2>6, FollowsSkip
<1>6. CASE ~Next1({Colon}) /\ Fail("':' expected after an object key")
  <2>1. ~ByteIn(s, x, {Colon})
    BY <1>1, <1>6, Zenon DEF Next1
  <2>2. LexesNothing(s, x, phase)
    BY <1>1, <1>2, <1>4, <2>1, NoColonHere
  <2>3. \E message : Fail(message)
    BY <1>6, Zenon
  <2>4. phase # "nothing" /\ pc \in Places \ {"value"}
    BY <1>1, <1>3 DEF Places
  <2> QED
    BY <1>1, <1>3, <2>2, <2>3, <2>4, StuckFollows
<1> QED
  BY <1>5, <1>6, Zenon DEF ColonStep

\* The delimiter of an object or an array.
LEMMA CommaFollows ==
    ASSUME Sound, Placed, Follows, CommaStep
    PROVE  Follows'
<1>1. PICK s, M, open, done, x, c :
          /\ s = text /\ M = MaxNesting /\ open = stack /\ done = out /\ x = position
          /\ c = Innermost
  OBVIOUS
<1>2. s \in Seq(Byte) /\ M \in Nat
  BY <1>1, TextFacts
<1>3. pc = "delimiter" /\ ByteIn(s, x, {Comma})
  BY <1>1 DEF CommaStep, At, Next1
<1>4. c \in Nest /\ c = PhaseAt(pc, stack)
  BY <1>1, <1>3, InsideIs
<1>5. Where(s, M, x, c, open, done)
  BY <1>1, <1>3, <1>4, PlaceIs DEF Places
<1>6. PICK e, phase2 : e = x + 1 /\ phase2 = FirstPhase(c)
  OBVIOUS
<1>7. Where(s, M, e, phase2, open, done)
  BY <1>2, <1>3, <1>4, <1>5, <1>6, WhereComma
<1>8. Skipping(s, M, e, phase2, open, done)
  BY <1>2, <1>7, SkippingStarts
<1>9. /\ pc' = "skip" /\ position' = e /\ after' = FirstItem(c)
      /\ UNCHANGED <<text, stack, out>>
  BY <1>1, <1>6 DEF CommaStep, SkipTo
<1>10. PhaseAt(after', stack') = phase2
  BY <1>4, <1>6, <1>9, PhasesAre
<1> QED
  BY <1>1, <1>8, <1>9, <1>10, FollowsSkip

\* Every step of the loops.
LEMMA ContainersFollow ==
    ASSUME Sound, Placed, Follows, Containers
    PROVE  Follows'
<1>1. text \in Seq(Byte) /\ MaxNesting \in Nat /\ position \in 0..Len(text)
  BY TextFacts
<1>2. CASE CloseEarly
  BY <1>2, CloseFollows DEF CloseEarly
<1>3. CASE KeyString
  <2>1. PICK phase : phase = "pair"
    OBVIOUS
  <2>2. PICK place : place = "colon"
    OBVIOUS
  <2>3. pc = "member" /\ OpenString(place)
    BY <1>3, <2>2 DEF KeyString, At
  <2>4. Where(text, MaxNesting, position, phase, stack, out)
    BY <2>1, <2>3, PlaceIs, PhasesAre DEF Places
  <2>5. phase \in StringPhases /\ (phase = "pair" <=> place = "colon")
    BY <2>1, <2>2 DEF StringPhases
  <2> QED
    BY <2>3, <2>4, <2>5, OpenStringFollows
<1>4. CASE KeyIdentifier
  BY <1>4, KeyIdentifierFollows
<1>5. CASE NoKey
  <2>1. PICK phase : phase = "pair"
    OBVIOUS
  <2>2. pc = "member"
    BY <1>5, Zenon DEF NoKey, At
  <2>3. ~ByteIn(text, position, KeyFirstBytes)
    BY <1>5, FirstBytesAgree, Zenon DEF NoKey, Next1
  <2>4. Settled(text, position) /\ phase = PhaseAt(pc, stack)
    BY <2>1, <2>2, PlaceIs, PhasesAre DEF Places
  <2>5. LexesNothing(text, position, phase)
    BY <1>1, <2>1, <2>3, <2>4, NoKeyHere
  <2>6. \E message : Fail(message)
    BY <1>5, Zenon DEF NoKey
  <2>7. phase # "nothing" /\ pc \in Places \ {"value"}
    BY <2>1, <2>2 DEF Places
  <2> QED
    BY <2>4, <2>5, <2>6, <2>7, StuckFollows
<1>6. CASE Element
  <2>1. PICK phase : phase = "item"
    OBVIOUS
  <2>2. /\ pc = "element" /\ ~ByteIn(text, position, {RBracket}) /\ pc' = "value"
        /\ UNCHANGED <<text, position, after, stack, closing, buf, out, error>>
    BY <1>6 DEF Element, At, Next1
  <2>3. Settled(text, position) /\ Where(text, MaxNesting, position, phase, stack, out)
    BY <2>1, <2>2, PlaceIs, PhasesAre DEF Places
  <2>4. phase \in Phases /\ phase \in ValuePhases
    BY <2>1 DEF Phases, ValuePhases
  <2>5. PICK place : place = "value"
    OBVIOUS
  <2>6. Looking(text, MaxNesting, position, place, stack, out)
    BY <2>2, <2>3, <2>4, <2>5, Zenon DEF Looking
  <2>7. pc' = place /\ place \in Places
    BY <2>2, <2>5 DEF Places
  <2> QED
    BY <2>2, <2>6, <2>7, FollowsPlace
<1>7. CASE ColonStep
  BY <1>7, ColonFollows
<1>8. CASE CommaStep
  BY <1>8, CommaFollows
<1>9. CASE CloseLate
  BY <1>9, CloseFollows DEF CloseLate, At
<1>10. CASE NoDelimiter
  <2>1. PICK c : c = Innermost
    OBVIOUS
  <2>2. pc = "delimiter"
    BY <1>10, Zenon DEF NoDelimiter, At
  <2>3. c \in Nest /\ c = PhaseAt(pc, stack)
    BY <2>1, <2>2, InsideIs
  <2>4. ~ByteIn(text, position, {Comma, CloseByte(c)})
    BY <1>10, <2>1, Zenon DEF NoDelimiter, Next1, ClosingByte, CloseByte
  <2>5. Settled(text, position)
    BY <2>2, PlaceIs DEF Places
  <2>6. LexesNothing(text, position, c)
    BY <1>1, <2>3, <2>4, <2>5, NoDelimiterHere
  <2>7. \E message : Fail(message)
    BY <1>10, Zenon DEF NoDelimiter
  <2>8. c # "nothing" /\ pc \in Places \ {"value"}
    BY <2>2, <2>3 DEF Places, Nest
  <2> QED
    BY <2>3, <2>6, <2>7, <2>8, StuckFollows
<1> QED
  BY <1>2, <1>3, <1>4, <1>5, <1>6, <1>7, <1>8, <1>9, <1>10 DEF Containers

\* The last lines of parse_document.
LEMMA FinishFollows ==
    ASSUME Sound, Placed, Follows, Finish
    PROVE  Follows'
<1>1. text \in Seq(Byte) /\ MaxNesting \in Nat /\ position \in 0..Len(text)
  BY TextFacts
<1>2. pc = "end"
  BY Zenon DEF Finish, At
<1>3. PICK phase : phase = "nothing"
  OBVIOUS
<1>4. phase = PhaseAt(pc, stack)
  <2>1. stack = <<>>
    BY <1>2 DEF Placed, PlaceAgrees, Place
  <2>2. Follow(stack) = phase
    BY <1>3, <2>1 DEF Follow
  <2> QED
    BY <1>2, <2>2, PhasesAre
<1>5. Settled(text, position) /\ Where(text, MaxNesting, position, phase, stack, out)
  BY <1>2, <1>4, PlaceIs DEF Places
<1>6. CASE /\ AtEnd /\ pc' = "accepted"
           /\ UNCHANGED <<text, position, after, stack, closing, buf, out, error>>
  <2>1. position = Len(text)
    BY <1>1, <1>6 DEF AtEnd
  <2>2. Takes(text, MaxNesting) /\ Reference(text).out = out
    BY <1>1, <1>3, <1>5, <2>1, WhereEnds
  <2> QED
    BY <1>6, <2>2 DEF Follows, Places
<1>7. CASE ~AtEnd /\ Fail("input continues after the value")
  <2>1. position # Len(text)
    <3>1. ~AtEnd
      BY <1>7, Zenon
    <3> QED
      BY <1>1, <3>1 DEF AtEnd
  <2>2. LexesNothing(text, position, phase)
    BY <1>1, <1>3, <1>5, NoMoreHere
  <2>3. ~Takes(text, MaxNesting)
    BY <1>1, <1>5, <2>1, <2>2, WhereStuck
  <2>4. PICK message : Fail(message)
    BY <1>7, Zenon
  <2> QED
    BY <2>3, <2>4, FollowsFail DEF Fail
<1> QED
  BY <1>6, <1>7, Zenon DEF Finish

\* The run is at its start when the parser is.
LEMMA InitFollows ==
    ASSUME Init
    PROVE  Follows
<1>1. text \in Seq(Byte) /\ MaxNesting \in Nat
  BY TextsAssumption, NestingAssumption DEF Init
<1>2. PICK x, phase, open, done : x = 0 /\ phase = "value" /\ open = <<>> /\ done = <<>>
  OBVIOUS
<1>3. Where(text, MaxNesting, x, phase, open, done)
  BY <1>1, <1>2, WhereStart
<1>4. Skipping(text, MaxNesting, x, phase, open, done)
  BY <1>1, <1>3, SkippingStarts
<1>5. /\ pc = "skip" /\ position = x /\ stack = open /\ out = done
      /\ after = "value"
  BY <1>2 DEF Init
<1>6. PhaseAt(after, stack) = phase
  BY <1>2, <1>5, PhasesAre
<1> QED
  BY <1>4, <1>5, <1>6 DEF Follows, Places

\* Every step of the parser keeps up with the run, unless it meets the escape it alone rejects.
LEMMA StepFollows ==
    ASSUME Sound, Placed, Follows, ~MeetsCapitalX, [Next]_vars
    PROVE  Follows'
<1>1. CASE Whitespace
  BY <1>1, WhitespaceFollows
<1>2. CASE Value
  BY <1>2, ValueFollows
<1>3. CASE String
  BY <1>3, StringFollows
<1>4. CASE Containers
  BY <1>4, ContainersFollow
<1>5. CASE Finish
  BY <1>5, FinishFollows
<1>6. CASE UNCHANGED vars
  BY <1>6 DEF Follows, vars
<1> QED
  BY <1>1, <1>2, <1>3, <1>4, <1>5, <1>6 DEF Next, Returned

\* What the invariant says of the end.
LEMMA FollowsAgrees ==
    ASSUME Follows
    PROVE  SameVerdict /\ SameDocument
<1>1. pc = "accepted" => Takes(text, MaxNesting) /\ Reference(text).out = out
  BY DEF Follows
<1>2. pc = "failed" => ~Takes(text, MaxNesting)
  BY DEF Follows
<1>3. SameVerdict
  BY <1>1, <1>2, Zenon DEF SameVerdict, Done, Takes
<1>4. SameDocument
  BY <1>1, Zenon DEF SameDocument
<1> QED
  BY <1>3, <1>4

\* While no \X is met the parser follows the run of the grammar.
LEMMA FollowsAlways == Spec /\ []~MeetsCapitalX => []Follows
<1>1. Init => Follows
  BY InitFollows
<1>2. Sound /\ Placed /\ Follows /\ ~MeetsCapitalX /\ [Next]_vars => Follows'
  BY StepFollows
<1>3. Spec => []Sound
  BY SoundAlways
<1>4. Spec => []Placed
  BY PlacedAlways
<1> QED
  BY <1>1, <1>2, <1>3, <1>4, PTL DEF Spec

\* Both parsers accept a text or both reject it, nesting beyond the limit aside,
\* whatever the text and the limit, unless the text makes loads read an \X.
THEOREM VerdictsAgree == Spec /\ []~MeetsCapitalX => []SameVerdict
BY FollowsAlways, FollowsAgrees, PTL

\* What both accept is the same document.
THEOREM DocumentsAgree == Spec /\ []~MeetsCapitalX => []SameDocument
BY FollowsAlways, FollowsAgrees, PTL

\* The text stays what it is.
LEMMA TextStays ==
    ASSUME [Next]_vars
    PROVE  text' = text
<1>1. \A p : Skip(p) => text' = text
  BY Zenon DEF Skip
<1>2. \A p, message : FailAt(p, message) => text' = text
  BY Zenon DEF FailAt
<1>3. \A p, event : Scalar(p, event) => text' = text
  BY Zenon DEF Scalar
<1>4. \A place : OpenString(place) => text' = text
  BY Zenon DEF OpenString
<1>5. \A p, bytes : Decoded(p, bytes) => text' = text
  BY Zenon DEF Decoded
<1>6. CASE Whitespace
  BY <1>1, <1>2, <1>6, Zenon DEF Whitespace, SkipSpace, SkipMultibyte, SkipLineComment,
     SkipBlockComment, UnterminatedComment, LoneSlash, SkipDone, Fail
<1>7. CASE Value
  BY <1>2, <1>3, <1>4, <1>7, Zenon DEF Value, NestingTooDeep, NoValue, Open, ValueString, Literal,
     Number, Fail
<1>8. CASE String
  <2>1. \A p : TwoDigits(p) => text' = text
    BY <1>2, <1>5, Zenon DEF TwoDigits
  <2>2. \A p : FourDigits(p) => text' = text
    BY <1>2, <1>5, Zenon DEF FourDigits, SecondSurrogate, NoHex4
  <2> QED
    BY <1>1, <1>2, <1>3, <1>5, <1>8, <2>1, <2>2, Zenon DEF String, UnterminatedString, CloseString,
       RawTerminator, StringByte, Backslash, TruncatedEscape, EscapeSimple, Continuation,
       EscapeDigit, SelfEscape, EscapeHex, EscapeUnicode, Fail
<1>9. CASE Containers
  BY <1>2, <1>3, <1>4, <1>9, Zenon DEF Containers, CloseEarly, Close, KeyString, KeyIdentifier, NoKey,
     Element, ColonStep, CommaStep, CloseLate, NoDelimiter, Fail
<1>10. CASE Finish
  BY <1>2, <1>10, Zenon DEF Finish, Fail
<1>11. CASE UNCHANGED vars
  BY <1>11, Zenon DEF vars
<1> QED
  BY <1>6, <1>7, <1>8, <1>9, <1>10, <1>11, Zenon DEF Next, Returned

\* A text in which no backslash is followed by an X.
NoCapitalX == \A b \in 0..Len(text) : ~(ByteIn(text, b, {BSlash}) /\ ByteIn(text, b + 1, {88}))

\* In such a text the parser meets none.
LEMMA MeetsNone ==
    ASSUME Follows, NoCapitalX
    PROVE  ~MeetsCapitalX
<1>1. ASSUME MeetsCapitalX PROVE FALSE
  <2>1. At("escape")
    BY <1>1, Zenon DEF MeetsCapitalX, At
  <2>2. PICK b \in 0..Len(text) : position = b + 1 /\ ByteIn(text, b, {BSlash})
    BY <2>1, EscapeIsOpen, Zenon
  <2>3. ByteIn(text, b + 1, {88})
    BY <1>1, <2>2, Zenon DEF MeetsCapitalX, Next1
  <2> QED
    BY <2>2, <2>3, Zenon DEF NoCapitalX
<1> QED
  BY <1>1, Zenon

\* Of every text without an \X: both parsers take it, with the same document,
\* or neither does.
THEOREM ParsersAgree == Spec /\ NoCapitalX => [](SameVerdict /\ SameDocument)
<1>1. Init => Follows
  BY InitFollows
<1>2. Sound /\ Placed /\ Follows /\ NoCapitalX /\ [Next]_vars => Follows'
  BY StepFollows, MeetsNone
<1>3. NoCapitalX /\ [Next]_vars => NoCapitalX'
  BY TextStays, Zenon DEF NoCapitalX
<1>4. Follows => SameVerdict /\ SameDocument
  BY FollowsAgrees
<1>5. Spec => []Sound
  BY SoundAlways
<1>6. Spec => []Placed
  BY PlacedAlways
<1> QED
  BY <1>1, <1>2, <1>3, <1>4, <1>5, <1>6, PTL DEF Spec

=============================================================================

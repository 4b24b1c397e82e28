--------------------------- MODULE RuntimeParser ---------------------------
(***************************************************************************)
(* runtime_parser of load.hpp, the recursive-descent parser behind loads   *)
(* and load, as a state machine.                                           *)
(*                                                                         *)
(*  - text and position are the members of the parser; error is load_error *)
(*    before loads adds the line and the column.                           *)
(*  - pc is the place in the code: "skip" is a loop iteration of           *)
(*    skip_whitespace, "value" the entry of parse_value, "string" the loop *)
(*    of parse_string and "escape" the byte after its backslash; "member", *)
(*    "element", "colon" and "delimiter" are the places of the object and  *)
(*    array loops that look at one byte, "end" the last test of            *)
(*    parse_document, "accepted" and "failed" its two outcomes.            *)
(*  - after is the place that follows the skip_whitespace under way; while *)
(*    a string is read it is the place that follows the skip after it, so  *)
(*    after = "colon" tells a key from a value.                            *)
(*  - stack holds the containers parse_value is inside of, outermost       *)
(*    first: the frames of the recursion.  Its length is the parameter     *)
(*    nesting.                                                             *)
(*  - out is the document built so far, as the sequence of its events.     *)
(*                                                                         *)
(* The two calls of skip_whitespace at the top of the object and array     *)
(* loops (before the first test for the closing byte and at the start of   *)
(* the loop) meet at "member" and "element": nothing is consumed between   *)
(* them, so the second call and the second test repeat the first.          *)
(*                                                                         *)
(* An operator named ...Fault is a plausible mistake in the operator that  *)
(* follows it: some property must fail when it takes that one's place.     *)
(***************************************************************************)
EXTENDS NumberLexer

CONSTANTS
    Texts,      \* the texts loads may be called with
    MaxNesting  \* the literal 256 of parse_value

ASSUME TextsAssumption   == Texts \subseteq Seq(Byte)
ASSUME NestingAssumption == MaxNesting \in Nat

VARIABLES text, position, pc, after, stack, closing, buf, out, error

vars == <<text, position, pc, after, stack, closing, buf, out, error>>

-----------------------------------------------------------------------------
(***************************************************************************)
(* Documents.  A document is the sequence of events of its left-to-right   *)
(* traversal; bytes is the text of a key, string or number.                *)
(***************************************************************************)
Container == {"object", "array"}

EventKind == {"{", "}", "[", "]", "key", "string", "number",
              "true", "false", "null"}

Event == [kind : EventKind, bytes : Seq(Byte)]

Mark(kind)        == [kind |-> kind, bytes |-> <<>>]
Leaf(kind, bytes) == [kind |-> kind, bytes |-> bytes]

OpenMark(container)  == Mark(IF container = "object" THEN "{" ELSE "[")
CloseMark(container) == Mark(IF container = "object" THEN "}" ELSE "]")

NoError == [position |-> 0, message |-> ""]

-----------------------------------------------------------------------------
(***************************************************************************)
(* Helpers of the handlers.                                                *)
(***************************************************************************)
Places == {"value", "member", "element", "colon", "delimiter", "end"}

At(place)  == pc = place
AtEnd      == position >= Len(text)
Next1(S)   == ByteIn(text, position, S)
Has(word)  == OccursAt(text, position, word)

Innermost == stack[Len(stack)]
Pop(s)    == SubSeq(s, 1, Len(s) - 1)

\* Where the caller of parse_value goes on once the value is complete.
AfterValue(s) == IF s = <<>> THEN "end" ELSE "delimiter"

\* Where the loop over a container's items starts.
FirstItem(container) == IF container = "object" THEN "member" ELSE "element"

ClosingByte(container) == IF container = "object" THEN RBrace ELSE RBracket

\* fail(message) with the parser at offset p: every caller unwinds.
FailAt(p, message) ==
    /\ position' = p
    /\ error' = [position |-> p, message |-> message]
    /\ pc' = "failed"
    /\ UNCHANGED <<text, after, stack, closing, buf, out>>

Fail(message) == FailAt(position, message)

\* skip_whitespace is called at offset p and `place` follows it.
SkipTo(p, place) == position' = p /\ pc' = "skip" /\ after' = place

\* A scalar that ends at offset p is complete.
Scalar(p, event) ==
    /\ SkipTo(p, AfterValue(stack))
    /\ out' = Append(out, event)
    /\ UNCHANGED <<text, stack, closing, buf, error>>

-----------------------------------------------------------------------------
Init ==
    /\ text \in Texts
    /\ position = 0
    /\ pc = "skip"
    /\ after = "value"
    /\ stack = <<>>
    /\ closing = Quote
    /\ buf = <<>>
    /\ out = <<>>
    /\ error = NoError

-----------------------------------------------------------------------------
(***************************************************************************)
(* skip_whitespace: one action per kind of iteration, and its exit.        *)
(***************************************************************************)
Skip(p) == /\ position' = p
           /\ UNCHANGED <<text, pc, after, stack, closing, buf, out, error>>

\* Fault: the iteration that found a space does not consume it.
SkipSpaceFault == At("skip") /\ Next1(Space) /\ Skip(position)

SkipSpace == At("skip") /\ Next1(Space) /\ Skip(position + 1)

SkipMultibyte ==
    /\ At("skip")
    /\ \E word \in {NBSP, LS, PS, BOM} : Has(word) /\ Skip(position + Len(word))

SkipLineComment ==
    /\ At("skip")
    /\ Has(<<Slash, Slash>>)
    /\ Skip(RunEnd(text, position + 2, Byte \ LineEnd))

\* Offsets at which the "*/" of the block comment at `position` may be.
CommentEnds == {p \in (position + 2)..Len(text) :
                   OccursAt(text, p, <<Asterisk, Slash>>)}

SkipBlockComment ==
    /\ At("skip")
    /\ Has(<<Slash, Asterisk>>)
    /\ \E p \in CommentEnds : /\ \A q \in CommentEnds : p <= q
                              /\ Skip(p + 2)

\* The search for "*/" stops one byte before the end of the text, or where it
\* started if that is later.
UnterminatedComment ==
    /\ At("skip")
    /\ Has(<<Slash, Asterisk>>)
    /\ CommentEnds = {}
    /\ FailAt(IF position + 2 = Len(text) THEN position + 2 ELSE Len(text) - 1,
              "unterminated block comment")

LoneSlash ==
    /\ At("skip")
    /\ Next1({Slash})
    /\ ~ByteIn(text, position + 1, {Slash, Asterisk})
    /\ Fail("a lone '/' is not a comment")

SkipDone ==
    /\ At("skip")
    /\ ~Next1(Space \cup {Slash})
    /\ \A word \in {NBSP, LS, PS, BOM} : ~Has(word)
    /\ pc' = after
    /\ UNCHANGED <<text, position, after, stack, closing, buf, out, error>>

Whitespace == \/ SkipSpace
              \/ SkipMultibyte
              \/ SkipLineComment
              \/ SkipBlockComment
              \/ UnterminatedComment
              \/ LoneSlash
              \/ SkipDone

-----------------------------------------------------------------------------
(***************************************************************************)
(* parse_value: the test of the nesting, then a switch on one byte.        *)
(***************************************************************************)
NumberStart == Digit \cup {Plus, Minus, Dot, WordInfinity[1], WordNaN[1]}

Literals == [true |-> WordTrue, false |-> WordFalse, null |-> WordNull]

ValueStart == {LBrace, LBracket, Quote, Apostrophe} \cup NumberStart
                \cup {Literals[l][1] : l \in DOMAIN Literals}

\* Fault: the limit is off by one.
EnteringFault == At("value") /\ Len(stack) <= MaxNesting + 1

Entering == At("value") /\ Len(stack) <= MaxNesting

NestingTooDeep ==
    /\ At("value")
    /\ Len(stack) > MaxNesting
    /\ Fail("nesting too deep")

NoValue == /\ Entering
           /\ ~Next1(ValueStart)
           /\ Fail("a value was expected")

Open(container) ==
    /\ Entering
    /\ Next1({IF container = "object" THEN LBrace ELSE LBracket})
    /\ SkipTo(position + 1, FirstItem(container))
    /\ stack' = Append(stack, container)
    /\ out' = Append(out, OpenMark(container))
    /\ UNCHANGED <<text, closing, buf, error>>

\* parse_string is called at the opening quote; `place` follows the string.
OpenString(place) ==
    /\ Next1({Quote, Apostrophe})
    /\ closing' = text[position + 1]
    /\ position' = position + 1
    /\ buf' = <<>>
    /\ pc' = "string"
    /\ after' = place
    /\ UNCHANGED <<text, stack, out, error>>

ValueString == Entering /\ OpenString(AfterValue(stack))

Literal(l) ==
    /\ Entering
    /\ Next1({Literals[l][1]})
    /\ \/ Has(Literals[l]) /\ Scalar(position + Len(Literals[l]), Mark(l))
       \/ ~Has(Literals[l]) /\ Fail("unrecognized literal")

\* Fault: the spelling is taken after the sign.
NumberFault ==
    /\ Entering
    /\ Next1(NumberStart)
    /\ LET scan == ScanNumber(text, position)
           start == AfterSign(text, position)
       IN  \/ /\ scan.message = ""
              /\ Scalar(scan.end, Leaf("number", Slice(text, start, scan.end)))
           \/ /\ scan.message # ""
              /\ FailAt(scan.end, scan.message)

Number ==
    /\ Entering
    /\ Next1(NumberStart)
    /\ LET scan == ScanNumber(text, position)
       IN  \/ /\ scan.message = ""
              /\ Scalar(scan.end, Leaf("number", Slice(text, position, scan.end)))
           \/ /\ scan.message # ""
              /\ FailAt(scan.end, scan.message)

Value == \/ NestingTooDeep
         \/ NoValue
         \/ \E container \in Container : Open(container)
         \/ ValueString
         \/ \E l \in DOMAIN Literals : Literal(l)
         \/ Number

-----------------------------------------------------------------------------
(***************************************************************************)
(* parse_string: the loop over the bytes between the quotes.               *)
(***************************************************************************)
UnterminatedString == At("string") /\ AtEnd /\ Fail("unterminated string")

CloseString ==
    /\ At("string")
    /\ Next1({closing})
    /\ out' = Append(out, Leaf(IF after = "colon" THEN "key" ELSE "string", buf))
    /\ buf' = <<>>
    /\ SkipTo(position + 1, after)
    /\ UNCHANGED <<text, stack, closing, error>>

RawTerminator ==
    /\ At("string")
    /\ Next1(LineEnd)
    /\ Fail("a raw line terminator needs a \\ continuation")

StringByte ==
    /\ At("string")
    /\ Next1(Byte \ ({closing, BSlash} \cup LineEnd))
    /\ buf' = Append(buf, text[position + 1])
    /\ position' = position + 1
    /\ UNCHANGED <<text, pc, after, stack, closing, out, error>>

Backslash ==
    /\ At("string")
    /\ Next1({BSlash})
    /\ position' = position + 1
    /\ pc' = "escape"
    /\ UNCHANGED <<text, after, stack, closing, buf, out, error>>

(***************************************************************************)
(* The byte after a backslash, which the code consumes before it switches. *)
(***************************************************************************)
SimpleEscape == [c \in {98, 102, 110, 114, 116, 118, Zero} |->
                   CASE c = 98   -> 8    \* \b
                     [] c = 102  -> 12   \* \f
                     [] c = 110  -> 10   \* \n
                     [] c = 114  -> 13   \* \r
                     [] c = 116  -> 9    \* \t
                     [] c = 118  -> 11   \* \v
                     [] c = Zero -> 0]   \* \0

HexEscape     == {120, 88}               \* case 'x': case 'X'
UnicodeEscape == {117}                   \* case 'u'
RejectedEscape == Digit \ {Zero}

\* The escape ends at offset p and stands for `bytes`.
Decoded(p, bytes) ==
    /\ buf' = buf \o bytes
    /\ position' = p
    /\ pc' = "string"
    /\ UNCHANGED <<text, after, stack, closing, out, error>>

TruncatedEscape == At("escape") /\ AtEnd /\ Fail("truncated escape")

EscapeSimple ==
    /\ At("escape")
    /\ Next1(DOMAIN SimpleEscape)
    /\ Decoded(position + 1, <<SimpleEscape[text[position + 1]]>>)

\* A CR LF pair is one terminator; LS and PS are three bytes each.
Continuation ==
    /\ At("escape")
    /\ \/ Next1({LF}) /\ Decoded(position + 1, <<>>)
       \/ /\ Next1({CR})
          /\ Decoded(position + (IF ByteIn(text, position + 1, {LF}) THEN 2 ELSE 1),
                     <<>>)
       \/ (Has(LS) \/ Has(PS)) /\ Decoded(position + 3, <<>>)

EscapeDigit ==
    /\ At("escape")
    /\ Next1(RejectedEscape)
    /\ FailAt(position + 1, "digits cannot be escaped")

SelfEscape ==
    /\ At("escape")
    /\ Next1(Byte \ (DOMAIN SimpleEscape \cup HexEscape \cup UnicodeEscape
                       \cup RejectedEscape \cup LineEnd))
    /\ ~Has(LS) /\ ~Has(PS)
    /\ Decoded(position + 1, <<text[position + 1]>>)

-----------------------------------------------------------------------------
(***************************************************************************)
(* \xHH and \uHHHH.  Room(p, n): the text has n more bytes at offset p;    *)
(* HexAt(p, n): they are hexadecimal digits.                               *)
(***************************************************************************)
Room(p, n)  == p + n <= Len(text)
HexAt(p, n) == \A k \in 1..n : text[p + k] \in HexDigit

\* Fault: \xHH is taken for a byte, not for a code point.
TwoDigitsFault(p) ==
    \/ ~Room(p, 2) /\ FailAt(p, "truncated \\x escape")
    \/ Room(p, 2) /\ ~HexAt(p, 2) /\ FailAt(p, "invalid \\x escape digit")
    \/ Room(p, 2) /\ HexAt(p, 2) /\ Decoded(p + 2, <<Hex2(text, p)>>)

\* \xHH with its digits at offset p.
TwoDigits(p) ==
    \/ ~Room(p, 2) /\ FailAt(p, "truncated \\x escape")
    \/ Room(p, 2) /\ ~HexAt(p, 2) /\ FailAt(p, "invalid \\x escape digit")
    \/ Room(p, 2) /\ HexAt(p, 2) /\ Decoded(p + 2, Utf8(Hex2(text, p)))

EscapeHex == At("escape") /\ Next1(HexEscape) /\ TwoDigits(position + 1)

\* parse_hex4 fails at offset p, where the digits should be.
NoHex4(p) ==
    \/ ~Room(p, 4) /\ FailAt(p, "truncated \\u escape")
    \/ Room(p, 4) /\ ~HexAt(p, 4) /\ FailAt(p, "invalid \\u escape digit")

\* Fault: the second half of a surrogate pair is not looked at.
SecondSurrogateFault(high, p) ==
    \/ ~OccursAt(text, p, <<BSlash, 117>>) /\ FailAt(p, "lone high surrogate")
    \/ OccursAt(text, p, <<BSlash, 117>>) /\ NoHex4(p + 2)
    \/ /\ OccursAt(text, p, <<BSlash, 117>>)
       /\ Room(p + 2, 4) /\ HexAt(p + 2, 4)
       /\ Decoded(p + 6, Utf8(SurrogatePair(high, Hex4(text, p + 2))))

\* p is the offset after a high surrogate: a \u with a low one must follow.
SecondSurrogate(high, p) ==
    \/ ~OccursAt(text, p, <<BSlash, 117>>) /\ FailAt(p, "lone high surrogate")
    \/ OccursAt(text, p, <<BSlash, 117>>) /\ NoHex4(p + 2)
    \/ /\ OccursAt(text, p, <<BSlash, 117>>)
       /\ Room(p + 2, 4) /\ HexAt(p + 2, 4)
       /\ LET low == Hex4(text, p + 2)
          IN  \/ /\ low \notin LowSurrogate
                 /\ FailAt(p + 6, "invalid low surrogate")
              \/ /\ low \in LowSurrogate
                 /\ Decoded(p + 6, Utf8(SurrogatePair(high, low)))

\* \uHHHH with its digits at offset p.
FourDigits(p) ==
    \/ NoHex4(p)
    \/ /\ Room(p, 4) /\ HexAt(p, 4)
       /\ LET unit == Hex4(text, p)
          IN  \/ unit \in HighSurrogate /\ SecondSurrogate(unit, p + 4)
              \/ unit \in LowSurrogate /\ FailAt(p + 4, "lone low surrogate")
              \/ /\ unit \notin HighSurrogate \cup LowSurrogate
                 /\ Decoded(p + 4, Utf8(unit))

EscapeUnicode == At("escape") /\ Next1(UnicodeEscape) /\ FourDigits(position + 1)

String == \/ UnterminatedString
          \/ CloseString
          \/ RawTerminator
          \/ StringByte
          \/ Backslash
          \/ TruncatedEscape
          \/ EscapeSimple
          \/ Continuation
          \/ EscapeDigit
          \/ SelfEscape
          \/ EscapeHex
          \/ EscapeUnicode

-----------------------------------------------------------------------------
(***************************************************************************)
(* The loops of objects and arrays.                                        *)
(***************************************************************************)
\* Fault: the place to go on at is computed before the container is left.
CloseFault ==
    /\ Next1({ClosingByte(Innermost)})
    /\ stack' = Pop(stack)
    /\ out' = Append(out, CloseMark(Innermost))
    /\ SkipTo(position + 1, AfterValue(stack))
    /\ UNCHANGED <<text, closing, buf, error>>

\* The closing byte completes the innermost container.
Close ==
    /\ Next1({ClosingByte(Innermost)})
    /\ stack' = Pop(stack)
    /\ out' = Append(out, CloseMark(Innermost))
    /\ SkipTo(position + 1, AfterValue(stack'))
    /\ UNCHANGED <<text, closing, buf, error>>

\* An empty container, or a trailing comma.
CloseEarly == pc \in {"member", "element"} /\ Close

KeyString == At("member") /\ OpenString("colon")

\* Fault: the last character of an identifier is lost.
KeyIdentifierFault ==
    /\ At("member")
    /\ Next1(IdStart)
    /\ LET end == RunEnd(text, position, IdContinue)
       IN  /\ SkipTo(end, "colon")
           /\ out' = Append(out, Leaf("key", Slice(text, position, end - 1)))
    /\ UNCHANGED <<text, stack, closing, buf, error>>

KeyIdentifier ==
    /\ At("member")
    /\ Next1(IdStart)
    /\ LET end == RunEnd(text, position, IdContinue)
       IN  /\ SkipTo(end, "colon")
           /\ out' = Append(out, Leaf("key", Slice(text, position, end)))
    /\ UNCHANGED <<text, stack, closing, buf, error>>

NoKey ==
    /\ At("member")
    /\ ~Next1({RBrace, Quote, Apostrophe} \cup IdStart)
    /\ Fail("an object key must be a string or an identifier")

Element ==
    /\ At("element")
    /\ ~Next1({RBracket})
    /\ pc' = "value"
    /\ UNCHANGED <<text, position, after, stack, closing, buf, out, error>>

\* Fault: the ':' is seen but not consumed.
ColonStepFault ==
    /\ At("colon")
    /\ \/ /\ Next1({Colon})
          /\ SkipTo(position, "value")
          /\ UNCHANGED <<text, stack, closing, buf, out, error>>
       \/ ~Next1({Colon}) /\ Fail("':' expected after an object key")

ColonStep ==
    /\ At("colon")
    /\ \/ /\ Next1({Colon})
          /\ SkipTo(position + 1, "value")
          /\ UNCHANGED <<text, stack, closing, buf, out, error>>
       \/ ~Next1({Colon}) /\ Fail("':' expected after an object key")

\* Fault: the ',' is seen but not consumed.
CommaStepFault ==
    /\ At("delimiter")
    /\ Next1({Comma})
    /\ SkipTo(position, FirstItem(Innermost))
    /\ UNCHANGED <<text, stack, closing, buf, out, error>>

CommaStep ==
    /\ At("delimiter")
    /\ Next1({Comma})
    /\ SkipTo(position + 1, FirstItem(Innermost))
    /\ UNCHANGED <<text, stack, closing, buf, out, error>>

CloseLate == At("delimiter") /\ Close

NoDelimiter ==
    /\ At("delimiter")
    /\ ~Next1({Comma, ClosingByte(Innermost)})
    /\ Fail(IF Innermost = "object" THEN "',' or '}' expected in an object"
                                    ELSE "',' or ']' expected in an array")

Containers == \/ CloseEarly
              \/ KeyString
              \/ KeyIdentifier
              \/ NoKey
              \/ Element
              \/ ColonStep
              \/ CommaStep
              \/ CloseLate
              \/ NoDelimiter

\* Fault: what follows the value is ignored.
FinishFault ==
    /\ At("end")
    /\ pc' = "accepted"
    /\ UNCHANGED <<text, position, after, stack, closing, buf, out, error>>

\* The last lines of parse_document.
Finish ==
    /\ At("end")
    /\ \/ /\ AtEnd
          /\ pc' = "accepted"
          /\ UNCHANGED <<text, position, after, stack, closing, buf, out, error>>
       \/ ~AtEnd /\ Fail("input continues after the value")

-----------------------------------------------------------------------------
Done == pc \in {"accepted", "failed"}

\* loads has returned: the only state in which nothing more happens.
Returned == Done /\ UNCHANGED vars

Next == Whitespace \/ Value \/ String \/ Containers \/ Finish \/ Returned

Spec == Init /\ [][Next]_vars

\* loads runs on the caller's thread without waiting for anything.
FairSpec == Spec /\ WF_vars(Next)

-----------------------------------------------------------------------------
(***************************************************************************)
(* Properties.                                                             *)
(***************************************************************************)
Labels == Places \cup {"skip", "string", "escape", "accepted", "failed"}

\* Type invariant of the parser's state.
TypeOK ==
    /\ text \in Seq(Byte)
    /\ position \in Nat
    /\ pc \in Labels
    /\ after \in Places
    /\ stack \in Seq(Container)
    /\ closing \in {Quote, Apostrophe}
    /\ buf \in Seq(Byte)
    /\ out \in Seq(Event)
    /\ error.position \in Nat

\* The parser never stands beyond the end of the text, although most handlers
\* advance by more than a byte: has and consume_literal call substr(position),
\* which throws beyond the end, inside noexcept functions.  The offset loads
\* turns into a line and a column is in the text too.
InBounds == position <= Len(text) /\ error.position <= Len(text)

\* The recursion of parse_value is bounded: it is entered with nesting at most
\* MaxNesting + 1, and in that last frame it does nothing but fail.
NestingBounded ==
    /\ Len(stack) <= MaxNesting + 1
    /\ pc \in {"string", "escape"} /\ after # "colon" => Len(stack) <= MaxNesting

\* The place in the handlers of objects and arrays that control is at, or
\* returns to when the skip or the string under way ends.
Place == IF pc \in {"skip", "string", "escape"} THEN after ELSE pc

ValueDue    == out = <<>> \/ out[Len(out)].kind = "key"
Inside(container) == stack # <<>> /\ Innermost = container

\* The place in the code agrees with the document: keys are read only inside
\* objects, the loop over elements runs only inside arrays, a ':' is looked
\* for only after a key, and the text may end only after a complete value.
PlaceAgrees ==
    /\ pc \in {"string", "escape"} => after \in {"colon", "delimiter", "end"}
    /\ Place = "value" =>
          IF ValueDue THEN out = <<>> <=> stack = <<>> ELSE Inside("array")
    /\ Place = "member" => Inside("object") /\ ~ValueDue
    /\ Place = "element" => Inside("array") /\ ~ValueDue
    /\ Place = "colon" => /\ Inside("object")
                          /\ pc \in {"string", "escape"} <=> ~ValueDue
    /\ Place = "delimiter" =>
          /\ stack # <<>>
          /\ IF pc \in {"string", "escape"}
             THEN ValueDue \/ Inside("array") ELSE ~ValueDue
    /\ Place = "end" =>
          /\ stack = <<>>
          /\ IF pc \in {"string", "escape"} THEN out = <<>> ELSE ~ValueDue
    /\ pc = "accepted" => stack = <<>> /\ ~ValueDue

\* Every step of the parser either consumes bytes or comes closer to a test
\* that does: the work is bounded by four steps for each byte of the text.
Rank == CASE pc = "skip"    -> 3
          [] pc = "element" -> 2
          [] Done           -> 0
          [] OTHER          -> 1

Variant == 4 * (Len(text) - position) + Rank

Progress == [][Variant' < Variant]_vars

\* loads returns on every text.
Termination == <>Done

\* The documents the parser builds, and accepts, are those of module Document.
Documents == INSTANCE Document
    WITH open <- stack, verdict <- IF Done THEN pc ELSE "reading"

WritesDocuments == Documents!Spec

=============================================================================

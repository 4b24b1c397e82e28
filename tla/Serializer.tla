----------------------------- MODULE Serializer -----------------------------
(***************************************************************************)
(* serialize of serialize.hpp: a document in static storage, rendered in   *)
(* two passes over its types.  serialized_size adds up how long the text   *)
(* will be, an array of that length is made, and serialize_to writes into  *)
(* it through a pointer.  Nothing but the agreement of the two keeps the   *)
(* second pass inside the array.                                           *)
(*                                                                         *)
(* Both passes go through the document alike, so a place in it is a        *)
(* record: the events handled, and the calls under way, of which the first *)
(* is the caller's.  A frame's index counts the bytes of a string or the   *)
(* elements or members begun.                                              *)
(***************************************************************************)
EXTENDS Bytes

CONSTANT Documents  \* the traversals of the documents that are serialized

Events == [kind : {"{", "}", "[", "]", "key", "string", "number", "true", "false", "null"},
           bytes : Seq(Byte)]

ASSUME DocumentsAssumption == Documents \subseteq Seq(Events)

VARIABLES
    doc,     \* the traversal
    pass,    \* "size", "write" or "done"
    place,   \* where in the document the pass is
    totals,  \* total of each call of serialized_size, and where its text starts
    length,  \* the length of the array
    buf,     \* what is written
    marks    \* history: the places of the size pass and what is written there

vars == <<doc, pass, place, totals, length, buf, marks>>

Frame(kind) == [kind |-> kind, index |-> 0]

Beginning == [i |-> 0, frames |-> <<Frame("document")>>]

Event(p) == doc[p.i + 1]
Top(p)   == p.frames[Len(p.frames)]

-----------------------------------------------------------------------------
(***************************************************************************)
(* Bytes of a string.  "u" is 117.                                         *)
(***************************************************************************)
Named == {Quote, BSlash, 8, 12, LF, CR, 9}

NeedsEscape(c) == c \in {Quote, BSlash} \/ c < 32

\* Fault: form feed is not among the names.
EscapedSizeFault(c) == IF ~NeedsEscape(c) THEN 1 ELSE IF c \in Named \ {12} THEN 2 ELSE 6

EscapedSize(c) == IF ~NeedsEscape(c) THEN 1 ELSE IF c \in Named THEN 2 ELSE 6

Letter(c) == CASE c = 8 -> 98 [] c = 12 -> 102 [] c = LF -> 110 [] c = CR -> 114
               [] c = 9 -> 116 [] OTHER -> c

HexByte(n) == IF n < 10 THEN 48 + n ELSE 87 + n

\* Fault: the digits change places.
WriteEscapedFault(c) ==
    IF ~NeedsEscape(c) THEN <<c>>
    ELSE IF c \in Named THEN <<BSlash, Letter(c)>>
    ELSE <<BSlash, 117, Zero, Zero, HexByte(c % 16), HexByte(c \div 16)>>

WriteEscaped(c) ==
    IF ~NeedsEscape(c) THEN <<c>>
    ELSE IF c \in Named THEN <<BSlash, Letter(c)>>
    ELSE <<BSlash, 117, Zero, Zero, HexByte(c \div 16), HexByte(c % 16)>>

-----------------------------------------------------------------------------
(***************************************************************************)
(* The traversal.                                                          *)
(***************************************************************************)
WithinString(p) == Top(p).kind = "string"

AtByte(p) == p.i < Len(doc) /\ WithinString(p) /\ Top(p).index < Len(Event(p).bytes)

AtOpening(p) == p.i < Len(doc) /\ ~WithinString(p)
                               /\ Event(p).kind \in {"{", "[", "string", "key"}

AtClosing(p) == p.i < Len(doc) /\ Len(p.frames) > 1
                               /\ IF WithinString(p) THEN Top(p).index = Len(Event(p).bytes)
                                                 ELSE Event(p).kind \in {"}", "]"}

AtScalar(p) == p.i < Len(doc) /\ ~WithinString(p)
                              /\ Event(p).kind \in {"number", "true", "false", "null"}

AtEnd(p) == p.i = Len(doc) /\ Len(p.frames) = 1

\* The fold over elements or members takes the next one here.
Counts(p) == \/ Top(p).kind = "array"
             \/ Top(p).kind = "object" /\ Event(p).kind = "key"

\* The frames, with the index of the last one more by one if `next`.
Counted(p, next) ==
    IF next THEN [p.frames EXCEPT ![Len(p.frames)] = [kind |-> @.kind, index |-> @.index + 1]]
            ELSE p.frames

Callee(p) == CASE Event(p).kind = "{" -> "object" [] Event(p).kind = "[" -> "array"
               [] OTHER -> "string"

\* The next place after an opening (a string's bytes are those of its event),
\* after a byte, an end and a scalar.
Entered(p)  == [i      |-> IF Callee(p) = "string" THEN p.i ELSE p.i + 1,
                frames |-> Append(Counted(p, Counts(p)), Frame(Callee(p)))]
Advanced(p) == [i |-> p.i, frames |-> Counted(p, TRUE)]
Left(p)     == [i |-> p.i + 1, frames |-> SubSeq(p.frames, 1, Len(p.frames) - 1)]
Passed(p)   == [i |-> p.i + 1, frames |-> Counted(p, Counts(p))]

-----------------------------------------------------------------------------
(***************************************************************************)
(* What the write pass writes at a place.                                  *)
(***************************************************************************)
\* index++ != 0
Separator(p) == IF Counts(p) /\ Top(p).index # 0 THEN <<Comma>> ELSE <<>>

OpeningText(p) == Separator(p) \o
    CASE Callee(p) = "object" -> <<LBrace>> [] Callee(p) = "array" -> <<LBracket>>
      [] Callee(p) = "string" -> <<Quote>>

ClosingText(p) ==
    CASE Top(p).kind = "object" -> <<RBrace>> [] Top(p).kind = "array" -> <<RBracket>>
      [] OTHER -> IF Event(p).kind = "key" THEN <<Quote, Colon>> ELSE <<Quote>>

ScalarText(p) == Separator(p) \o
    CASE Event(p).kind = "number" -> Event(p).bytes [] Event(p).kind = "true" -> WordTrue
      [] Event(p).kind = "false" -> WordFalse [] Event(p).kind = "null" -> WordNull

-----------------------------------------------------------------------------
(***************************************************************************)
(* The size pass.                                                          *)
(***************************************************************************)
ScalarSize(p) ==
    CASE Event(p).kind = "number" -> Len(Event(p).bytes) [] Event(p).kind = "true" -> 4
      [] Event(p).kind = "false" -> 5 [] Event(p).kind = "null" -> 4

\* The commas a fold adds for the elements or members it has begun.
Commas(frame) ==
    IF frame.kind \in {"array", "object"} /\ frame.index > 1 THEN frame.index - 1 ELSE 0

\* The last call's total grows.
Raised(t, n) == [t EXCEPT ![Len(t)] = [total |-> @.total + n, start |-> @.start]]

\* What the write pass will have written when a call has got so far: all but the
\* closing bracket or quote, which the total already counts.
WrittenBy(call, frame) ==
    call.start + call.total + Commas(frame) - IF frame.kind = "document" THEN 0 ELSE 1

Ahead(p, t) == WrittenBy(t[Len(t)], Top(p))

\* The size pass moves to place p with totals t.
Sized(p, t) == /\ pass = "size"
               /\ place' = p
               /\ totals' = t
               /\ marks' = Append(marks, [place |-> p, written |-> Ahead(p, t)])
               /\ UNCHANGED <<doc, pass, length, buf>>

SizeEnter ==
    /\ AtOpening(place)
    /\ Sized(Entered(place),
             Append(totals, [total |-> 2,
                             start |-> Ahead([i |-> place.i,
                                              frames |-> Counted(place, Counts(place))], totals)]))

SizeByte ==
    /\ AtByte(place)
    /\ Sized(Advanced(place),
             Raised(totals, EscapedSize(Event(place).bytes[Top(place).index + 1])))

\* A call returns its total, to which the fold over members adds the colon.
SizeLeave ==
    /\ AtClosing(place)
    /\ Sized(Left(place),
             Raised(SubSeq(totals, 1, Len(totals) - 1),
                   totals[Len(totals)].total + Commas(Top(place))
                     + IF Event(place).kind = "key" THEN 1 ELSE 0))

SizeScalar ==
    /\ AtScalar(place)
    /\ Sized(Passed(place), Raised(totals, ScalarSize(place)))

\* serialized_storage: the array has its length, the writer its beginning.
Allocate ==
    /\ pass = "size"
    /\ AtEnd(place)
    /\ pass' = "write"
    /\ length' = totals[1].total
    /\ place' = Beginning
    /\ UNCHANGED <<doc, totals, buf, marks>>

-----------------------------------------------------------------------------
(***************************************************************************)
(* The write pass.                                                         *)
(***************************************************************************)
Writes(p, bytes) == /\ pass = "write"
                    /\ place' = p
                    /\ buf' = buf \o bytes
                    /\ UNCHANGED <<doc, pass, totals, length, marks>>

WriteEnter  == AtOpening(place) /\ Writes(Entered(place), OpeningText(place))

WriteByte   == /\ AtByte(place)
               /\ Writes(Advanced(place),
                         WriteEscaped(Event(place).bytes[Top(place).index + 1]))

WriteLeave  == AtClosing(place) /\ Writes(Left(place), ClosingText(place))

WriteScalar == AtScalar(place) /\ Writes(Passed(place), ScalarText(place))

Finish == /\ pass = "write"
          /\ AtEnd(place)
          /\ pass' = "done"
          /\ UNCHANGED <<doc, place, totals, length, buf, marks>>

Rendered == pass = "done" /\ UNCHANGED vars

-----------------------------------------------------------------------------
Init == /\ doc \in Documents
        /\ pass = "size"
        /\ place = Beginning
        /\ totals = <<[total |-> 0, start |-> 0]>>
        /\ length = 0
        /\ buf = <<>>
        /\ marks = <<[place |-> Beginning, written |-> 0]>>

Next == \/ SizeEnter \/ SizeByte \/ SizeLeave \/ SizeScalar
        \/ Allocate
        \/ WriteEnter \/ WriteByte \/ WriteLeave \/ WriteScalar
        \/ Finish
        \/ Rendered

Spec == Init /\ [][Next]_vars

-----------------------------------------------------------------------------
\* The write pass never writes behind the text of the array, whose last byte
\* stays 0, and in the end has written all of it.  (serialized_storage::compute)
FillsArray == /\ pass = "write" => Len(buf) <= length
              /\ pass = "done"  => Len(buf) = length

=============================================================================

-------------------------- MODULE SerializerProofs --------------------------
(***************************************************************************)
(* Whatever the document, serialize_to writes exactly the bytes that       *)
(* serialized_size counted.  The argument: while the size pass is at a     *)
(* place, the totals of the calls under way say how many bytes the write   *)
(* pass will have written when it comes there (Ahead), because the text of *)
(* a call starts where that of its caller has got to (Nested).  The places *)
(* and these numbers are kept in marks, and the write pass goes from mark  *)
(* to mark.                                                                *)
(*                                                                         *)
(* Where the document is a traversal of a value, the text is read back as  *)
(* it.  The argument (ReadSoFar): whatever text begins with the bytes      *)
(* written so far, the grammar's run comes to a state behind them that has *)
(* made the events handled so far and has the same containers open, as     *)
(* long as what comes next separates values.  The last section shows that  *)
(* every document the compile-time parser makes is such a traversal.       *)
(***************************************************************************)
EXTENDS SerializerReadBack, GrammarProofs

Kinds     == {"document", "object", "array", "string"}
FrameType == [kind : Kinds, index : Nat]
Place     == [i : Nat, frames : Seq(FrameType) \ {<<>>}]
TotalType == [total : Nat, start : Nat]
Mark      == [place : Place, written : Int]

\* From mark a the write pass comes to mark b.
Follows(a, b) ==
    \/ /\ AtOpening(a.place)
       /\ b = [place   |-> Entered(a.place),
               written |-> a.written + Len(OpeningText(a.place))]
    \/ /\ AtByte(a.place)
       /\ b = [place   |-> Advanced(a.place),
               written |-> a.written
                   + Len(WriteEscaped(Event(a.place).bytes[Top(a.place).index + 1]))]
    \/ /\ AtClosing(a.place)
       /\ b = [place   |-> Left(a.place),
               written |-> a.written + Len(ClosingText(a.place))]
    \/ /\ AtScalar(a.place)
       /\ b = [place   |-> Passed(a.place),
               written |-> a.written + Len(ScalarText(a.place))]

Typed == /\ doc \in Seq(Events)
         /\ pass \in {"size", "write", "done"}
         /\ place \in Place
         /\ buf \in Seq(Byte)
         /\ marks \in Seq(Mark) \ {<<>>}

\* Text of call k + 1 starts where that of call k has got to.
Nested(frames, t) ==
    /\ t \in Seq(TotalType)
    /\ Len(t) = Len(frames)
    /\ t[1].start = 0
    /\ frames[1].kind = "document"
    /\ \A k \in 2..Len(frames) : frames[k].kind # "document"
    /\ \A k \in 2..Len(frames) : t[k].total > 0
    /\ \A k \in 1..(Len(frames) - 1) : t[k + 1].start = WrittenBy(t[k], frames[k])

LastMark == marks[Len(marks)]

Marked == /\ marks[1] = [place |-> Beginning, written |-> 0]
          /\ \A k \in 1..(Len(marks) - 1) : Follows(marks[k], marks[k + 1])
          /\ \A k \in 1..Len(marks) : marks[k].written <= LastMark.written

Sizing == pass = "size" => /\ buf = <<>>
                           /\ Nested(place.frames, totals)
                           /\ LastMark = [place |-> place, written |-> Ahead(place, totals)]

Writing == pass # "size" => /\ AtEnd(LastMark.place)
                            /\ length = LastMark.written
                            /\ \E n \in 1..Len(marks) :
                                  marks[n] = [place |-> place, written |-> Len(buf)]

IInv == Typed /\ Marked /\ Sizing /\ Writing /\ (pass = "done" => AtEnd(place))

-----------------------------------------------------------------------------
(***************************************************************************)
(* Places and texts.                                                       *)
(***************************************************************************)
LEMMA EscapedLength ==
    \A c \in Byte : WriteEscaped(c) \in Seq(Byte) /\ Len(WriteEscaped(c)) = EscapedSize(c)
<1> SUFFICES ASSUME NEW c \in Byte
             PROVE  WriteEscaped(c) \in Seq(Byte) /\ Len(WriteEscaped(c)) = EscapedSize(c)
    OBVIOUS
<1>1. CASE ~NeedsEscape(c)
    BY <1>1 DEF WriteEscaped, EscapedSize
<1>2. CASE NeedsEscape(c) /\ c \in Named
    <2>1. BSlash \in Byte /\ Letter(c) \in Byte
        BY DEF Letter, Byte, BSlash, LF, CR
    <2> HIDE DEF Letter, BSlash
    <2> QED BY <1>2, <2>1 DEF WriteEscaped, EscapedSize
<1>3. CASE NeedsEscape(c) /\ c \notin Named
    <2>1. c < 32 /\ c \in 0..31
        BY <1>3 DEF NeedsEscape, Named, Byte
    <2>2. c \div 16 \in 0..1 /\ c % 16 \in 0..15
        BY <2>1
    <2>3. \A n \in 0..15 : HexByte(n) \in Byte
        BY DEF HexByte, Byte
    <2>4. {BSlash, 117, Zero, HexByte(c \div 16), HexByte(c % 16)} \subseteq Byte
        BY <2>2, <2>3 DEF Byte, BSlash, Zero
    <2> QED BY <1>3, <2>4 DEF WriteEscaped, EscapedSize
<1> QED BY <1>1, <1>2, <1>3

LEMMA TopType == \A p \in Place : /\ Top(p) \in FrameType
                                  /\ Len(p.frames) \in Nat /\ Len(p.frames) >= 1
BY DEF Place, Top

LEMMA EventType == ASSUME doc \in Seq(Events)
                   PROVE  \A p \in Place : p.i < Len(doc) => Event(p) \in Events
BY DEF Place, Event

LEMMA CountedType ==
    \A p \in Place, next \in BOOLEAN :
        LET frames == Counted(p, next)
        IN  /\ frames \in Seq(FrameType)
            /\ Len(frames) = Len(p.frames)
            /\ \A k \in 1..(Len(frames) - 1) : frames[k] = p.frames[k]
            /\ frames[Len(frames)] =
                  [kind  |-> Top(p).kind,
                   index |-> IF next THEN Top(p).index + 1 ELSE Top(p).index]
<1> SUFFICES ASSUME NEW p \in Place, NEW next \in BOOLEAN
             PROVE  LET frames == Counted(p, next)
                    IN  /\ frames \in Seq(FrameType)
                        /\ Len(frames) = Len(p.frames)
                        /\ \A k \in 1..(Len(frames) - 1) : frames[k] = p.frames[k]
                        /\ frames[Len(frames)] =
                              [kind  |-> Top(p).kind,
                               index |-> IF next THEN Top(p).index + 1 ELSE Top(p).index]
    OBVIOUS
<1>1. Top(p) \in FrameType /\ Len(p.frames) \in Nat /\ Len(p.frames) >= 1 /\ p.frames \in Seq(FrameType)
    BY TopType DEF Place
<1>2. CASE next
    <2>1. [kind |-> Top(p).kind, index |-> Top(p).index + 1] \in FrameType
        BY <1>1 DEF FrameType
    <2> QED BY <1>1, <1>2, <2>1 DEF Counted, Top
<1>3. CASE ~next
    <2>1. Top(p) = [kind |-> Top(p).kind, index |-> Top(p).index]
        BY <1>1 DEF FrameType
    <2> QED BY <1>1, <1>3, <2>1 DEF Counted, Top
<1> QED BY <1>2, <1>3

LEMMA Nonempty == \A s \in Seq(FrameType), n \in Nat : Len(s) = n /\ n >= 1 => s # <<>>
OBVIOUS

LEMMA Shortened ==
    \A s \in Seq(FrameType), n \in Nat :
        Len(s) = n /\ n > 1 =>
            /\ s[n] \in FrameType /\ s[n - 1] \in FrameType
            /\ SubSeq(s, 1, n - 1) \in Seq(FrameType) /\ Len(SubSeq(s, 1, n - 1)) = n - 1
            /\ \A k \in 1..(n - 1) : SubSeq(s, 1, n - 1)[k] = s[k]
OBVIOUS

LEMMA PlacesType ==
    ASSUME doc \in Seq(Events)
    PROVE  \A p \in Place : /\ AtOpening(p) => Entered(p) \in Place
                            /\ AtByte(p)    => Advanced(p) \in Place
                            /\ AtClosing(p) => Left(p) \in Place
                            /\ AtScalar(p)  => Passed(p) \in Place
<1> SUFFICES ASSUME NEW p \in Place
             PROVE  /\ AtOpening(p) => Entered(p) \in Place
                    /\ AtByte(p)    => Advanced(p) \in Place
                    /\ AtClosing(p) => Left(p) \in Place
                    /\ AtScalar(p)  => Passed(p) \in Place
    OBVIOUS
<1>1. p.i \in Nat /\ p.frames \in Seq(FrameType) /\ Len(p.frames) \in Nat /\ Len(p.frames) >= 1
    BY DEF Place
<1>2. /\ Counted(p, Counts(p)) \in Seq(FrameType) /\ Len(Counted(p, Counts(p))) = Len(p.frames)
      /\ Counted(p, TRUE) \in Seq(FrameType) /\ Len(Counted(p, TRUE)) = Len(p.frames)
    BY CountedType DEF Counts
<1>3. Frame(Callee(p)) \in FrameType
    BY DEF Frame, Callee, FrameType, Kinds
<1>4. Entered(p) \in Place
    BY <1>1, <1>2, <1>3 DEF Entered, Place
<1>5. Advanced(p) \in Place
    <2>1. Counted(p, TRUE) # <<>>
        BY <1>1, <1>2, Nonempty
    <2> QED BY <1>1, <1>2, <2>1 DEF Advanced, Place
<1>6. AtClosing(p) => Left(p) \in Place
    <2> SUFFICES ASSUME AtClosing(p)
                 PROVE  Left(p) \in Place
        OBVIOUS
    <2>1. Len(p.frames) > 1
        BY DEF AtClosing
    <2>2. /\ SubSeq(p.frames, 1, Len(p.frames) - 1) \in Seq(FrameType)
          /\ Len(SubSeq(p.frames, 1, Len(p.frames) - 1)) = Len(p.frames) - 1
        BY <1>1, <2>1
    <2>3. SubSeq(p.frames, 1, Len(p.frames) - 1) # <<>>
        <3> DEFINE n == Len(p.frames) - 1
        <3>1. n \in Nat /\ n >= 1
            BY <1>1, <2>1
        <3> QED BY <2>2, <3>1, Nonempty
    <2> QED BY <1>1, <2>2, <2>3 DEF Left, Place
<1>7. Passed(p) \in Place
    BY <1>1, <1>2 DEF Passed, Place
<1> QED BY <1>4, <1>5, <1>6, <1>7

LEMMA TextsType ==
    ASSUME doc \in Seq(Events), NEW p \in Place
    PROVE  /\ Separator(p) \in Seq(Byte) /\ Len(Separator(p)) \in {0, 1}
           /\ AtOpening(p) => /\ OpeningText(p) \in Seq(Byte)
                              /\ Len(OpeningText(p)) = Len(Separator(p)) + 1
           /\ AtClosing(p) => /\ ClosingText(p) \in Seq(Byte)
                              /\ Len(ClosingText(p)) = 1 + IF Event(p).kind = "key" THEN 1 ELSE 0
           /\ AtScalar(p) => /\ ScalarText(p) \in Seq(Byte)
                             /\ ScalarSize(p) \in Nat
                             /\ Len(ScalarText(p)) = Len(Separator(p)) + ScalarSize(p)
<1>1. /\ \A b \in {Comma, LBrace, LBracket, RBrace, RBracket, Quote, Colon} : b \in Byte
      /\ WordTrue \in Seq(Byte) /\ WordFalse \in Seq(Byte) /\ WordNull \in Seq(Byte)
      /\ Len(WordTrue) = 4 /\ Len(WordFalse) = 5 /\ Len(WordNull) = 4
    BY DEF Byte, Comma, LBrace, LBracket, RBrace, RBracket, Quote, Colon,
           WordTrue, WordFalse, WordNull
<1> HIDE DEF Byte, Comma, LBrace, LBracket, RBrace, RBracket, Quote, Colon,
             WordTrue, WordFalse, WordNull
<1>2. Separator(p) \in Seq(Byte) /\ Len(Separator(p)) \in {0, 1}
    BY <1>1 DEF Separator
<1>6. /\ \A b \in Byte : <<b>> \in Seq(Byte) /\ Len(<<b>>) = 1
      /\ <<Quote, Colon>> \in Seq(Byte) /\ Len(<<Quote, Colon>>) = 2
    BY <1>1
<1>7. \A text \in Seq(Byte) : /\ Separator(p) \o text \in Seq(Byte)
                              /\ Len(Separator(p) \o text) = Len(Separator(p)) + Len(text)
    BY <1>2
<1>3. AtOpening(p) => /\ OpeningText(p) \in Seq(Byte)
                      /\ Len(OpeningText(p)) = Len(Separator(p)) + 1
    <2> DEFINE mark == CASE Callee(p) = "object" -> <<LBrace>>
                         [] Callee(p) = "array" -> <<LBracket>>
                         [] Callee(p) = "string" -> <<Quote>>
    <2>1. mark \in Seq(Byte) /\ Len(mark) = 1
        BY <1>1, <1>6 DEF Callee
    <2>2. OpeningText(p) = Separator(p) \o mark
        BY DEF OpeningText
    <2> HIDE DEF mark
    <2> QED BY <1>7, <2>1, <2>2
<1>4. AtClosing(p) => /\ ClosingText(p) \in Seq(Byte)
                      /\ Len(ClosingText(p)) = 1 + IF Event(p).kind = "key" THEN 1 ELSE 0
    <2>1. AtClosing(p) /\ Top(p).kind \in {"object", "array"} => Event(p).kind # "key"
        BY DEF AtClosing, WithinString
    <2> QED BY <1>1, <1>6, <2>1 DEF ClosingText
<1>5. AtScalar(p) => /\ ScalarText(p) \in Seq(Byte)
                     /\ ScalarSize(p) \in Nat
                     /\ Len(ScalarText(p)) = Len(Separator(p)) + ScalarSize(p)
    <2> SUFFICES ASSUME AtScalar(p)
                 PROVE  /\ ScalarText(p) \in Seq(Byte)
                        /\ ScalarSize(p) \in Nat
                        /\ Len(ScalarText(p)) = Len(Separator(p)) + ScalarSize(p)
        OBVIOUS
    <2> DEFINE word == CASE Event(p).kind = "number" -> Event(p).bytes
                         [] Event(p).kind = "true" -> WordTrue
                         [] Event(p).kind = "false" -> WordFalse
                         [] Event(p).kind = "null" -> WordNull
    <2>1. Event(p) \in Events /\ Event(p).bytes \in Seq(Byte)
        BY EventType DEF AtScalar, Events
    <2>2. word \in Seq(Byte) /\ Len(word) = ScalarSize(p) /\ ScalarSize(p) \in Nat
        <3>1. CASE Event(p).kind = "number"
            BY <2>1, <3>1 DEF ScalarSize
        <3>2. CASE Event(p).kind = "true"
            BY <1>1, <3>2 DEF ScalarSize
        <3>3. CASE Event(p).kind = "false"
            BY <1>1, <3>3 DEF ScalarSize
        <3>4. CASE Event(p).kind = "null"
            BY <1>1, <3>4 DEF ScalarSize
        <3> QED BY <3>1, <3>2, <3>3, <3>4 DEF AtScalar
    <2>3. ScalarText(p) = Separator(p) \o word
        BY DEF ScalarText
    <2> HIDE DEF word
    <2> QED BY <1>7, <2>2, <2>3
<1> QED BY <1>2, <1>3, <1>4, <1>5

LEMMA ByteType ==
    ASSUME doc \in Seq(Events), NEW p \in Place, AtByte(p)
    PROVE  /\ Event(p).bytes[Top(p).index + 1] \in Byte
           /\ EscapedSize(Event(p).bytes[Top(p).index + 1]) \in Nat
<1>1. Event(p).bytes \in Seq(Byte) /\ Top(p).index \in Nat
    BY EventType, TopType DEF AtByte, Events, FrameType
<1>2. Event(p).bytes[Top(p).index + 1] \in Byte
    BY <1>1 DEF AtByte
<1> QED BY <1>2 DEF EscapedSize

-----------------------------------------------------------------------------
(***************************************************************************)
(* The size pass counts what the write pass will write.                    *)
(***************************************************************************)
LEMMA CommasCounted ==
    ASSUME NEW p \in Place
    PROVE  /\ Commas(Top(p)) \in Nat
           /\ LET frames == Counted(p, Counts(p))
              IN  Commas(frames[Len(frames)]) = Commas(Top(p)) + Len(Separator(p))
<1>1. Top(p) \in FrameType /\ Top(p).index \in Nat
    BY TopType DEF FrameType
<1>2. Commas(Top(p)) \in Nat
    BY <1>1 DEF Commas
<1>3. LET frames == Counted(p, Counts(p))
      IN  frames[Len(frames)] =
             [kind  |-> Top(p).kind,
              index |-> IF Counts(p) THEN Top(p).index + 1 ELSE Top(p).index]
    BY CountedType DEF Counts
<1>4. CASE ~Counts(p)
    BY <1>1, <1>2, <1>3, <1>4 DEF Commas, Separator
<1>5. CASE Counts(p)
    <2>1. Top(p).kind \in {"array", "object"}
        BY <1>5 DEF Counts
    <2> QED BY <1>1, <1>2, <1>3, <1>5, <2>1 DEF Commas, Separator
<1> QED BY <1>2, <1>4, <1>5

LEMMA WrittenByFacts ==
    \A call \in TotalType, frame \in FrameType :
        /\ call.total \in Nat /\ call.start \in Nat /\ Commas(frame) \in Nat
        /\ WrittenBy(call, frame) =
              call.start + call.total + Commas(frame)
                - (IF frame.kind = "document" THEN 0 ELSE 1)
        /\ WrittenBy(call, frame) \in Int
        /\ call.total > 0 \/ frame.kind = "document" => WrittenBy(call, frame) \in Nat
<1> SUFFICES ASSUME NEW call \in TotalType, NEW frame \in FrameType
             PROVE  /\ call.total \in Nat /\ call.start \in Nat /\ Commas(frame) \in Nat
                    /\ WrittenBy(call, frame) =
                          call.start + call.total + Commas(frame)
                            - (IF frame.kind = "document" THEN 0 ELSE 1)
                    /\ WrittenBy(call, frame) \in Int
                    /\ call.total > 0 \/ frame.kind = "document" => WrittenBy(call, frame) \in Nat
    OBVIOUS
<1>1. call.total \in Nat /\ call.start \in Nat /\ Commas(frame) \in Nat
    BY DEF TotalType, FrameType, Commas
<1> QED BY <1>1 DEF WrittenBy

\* The totals t of the calls at p: types, and the last of them.
LEMMA NestedFacts ==
    ASSUME NEW p \in Place, NEW t, Nested(p.frames, t)
    PROVE  /\ t \in Seq(TotalType) /\ Len(t) = Len(p.frames) /\ Len(t) \in Nat /\ Len(t) >= 1
           /\ t[Len(t)] \in TotalType
           /\ t[Len(t)].total \in Nat /\ t[Len(t)].start \in Nat
           /\ Ahead(p, t) \in Int
<1>1. t \in Seq(TotalType) /\ Len(t) = Len(p.frames) /\ Len(t) \in Nat /\ Len(t) >= 1
    BY TopType DEF Nested
<1>2. t[Len(t)] \in TotalType
    BY <1>1
<1>3. t[Len(t)].total \in Nat /\ t[Len(t)].start \in Nat
    BY <1>2 DEF TotalType
<1>4. Ahead(p, t) \in Int
    BY <1>2, TopType, WrittenByFacts DEF Ahead
<1> QED BY <1>1, <1>2, <1>3, <1>4

LEMMA RaisedFacts ==
    ASSUME NEW t \in Seq(TotalType), Len(t) # 0, NEW n \in Nat
    PROVE  /\ Raised(t, n) \in Seq(TotalType)
           /\ Len(Raised(t, n)) = Len(t)
           /\ Raised(t, n)[Len(t)] = [total |-> t[Len(t)].total + n, start |-> t[Len(t)].start]
           /\ \A k \in 1..(Len(t) - 1) : Raised(t, n)[k] = t[k]
           /\ \A k \in 1..Len(t) : Raised(t, n)[k].start = t[k].start
<1>1. t[Len(t)] \in TotalType
    OBVIOUS
<1>2. [total |-> t[Len(t)].total + n, start |-> t[Len(t)].start] \in TotalType
    BY <1>1 DEF TotalType
<1> QED BY <1>1, <1>2 DEF Raised

\* Within a call: its total grows by what is written, its index by one or not.
LEMMA CallGrows ==
    ASSUME NEW p \in Place, NEW t, Nested(p.frames, t), NEW n \in Nat,
           NEW next \in BOOLEAN, NEW i \in Nat
    PROVE  LET q == [i |-> i, frames |-> Counted(p, next)]
               top == [kind  |-> Top(p).kind,
                       index |-> IF next THEN Top(p).index + 1 ELSE Top(p).index]
           IN  /\ Nested(q.frames, Raised(t, n))
               /\ Ahead(q, Raised(t, n)) = Ahead(p, t) + n + Commas(top) - Commas(Top(p))
<1> DEFINE q == [i |-> i, frames |-> Counted(p, next)]
           top == [kind  |-> Top(p).kind,
                   index |-> IF next THEN Top(p).index + 1 ELSE Top(p).index]
           u == Raised(t, n)
<1>1. /\ t \in Seq(TotalType) /\ Len(t) = Len(p.frames) /\ Len(t) \in Nat /\ Len(t) >= 1
      /\ t[Len(t)].total \in Nat /\ t[Len(t)].start \in Nat
    BY NestedFacts
<1>2. /\ u \in Seq(TotalType) /\ Len(u) = Len(t)
      /\ u[Len(t)] = [total |-> t[Len(t)].total + n, start |-> t[Len(t)].start]
      /\ \A k \in 1..(Len(t) - 1) : u[k] = t[k]
      /\ \A k \in 1..Len(t) : u[k].start = t[k].start
    BY <1>1, RaisedFacts
<1>3. /\ q.frames \in Seq(FrameType) /\ Len(q.frames) = Len(p.frames)
      /\ \A k \in 1..(Len(p.frames) - 1) : q.frames[k] = p.frames[k]
      /\ q.frames[Len(p.frames)] = top /\ Top(q) = top
      /\ top.kind = Top(p).kind /\ Top(p) = p.frames[Len(p.frames)]
    BY CountedType DEF Top
<1>4. \A k \in 1..Len(p.frames) : q.frames[k].kind = p.frames[k].kind
    BY <1>1, <1>3
<1> HIDE DEF q, top, u
<1>5. Nested(q.frames, u)
    <2>1. u \in Seq(TotalType) /\ Len(u) = Len(q.frames) /\ u[1].start = 0
        BY <1>1, <1>2, <1>3 DEF Nested
    <2>2. /\ q.frames[1].kind = "document"
          /\ \A k \in 2..Len(q.frames) : q.frames[k].kind # "document"
        BY <1>1, <1>3, <1>4 DEF Nested
    <2>3. ASSUME NEW k \in 2..Len(q.frames)
          PROVE  u[k].total > 0
        <3>1. t[k].total > 0
            BY <1>1, <1>3 DEF Nested
        <3>2. CASE k = Len(t)
            BY <1>1, <1>2, <3>1, <3>2
        <3>3. CASE k # Len(t)
            <4>1. k \in 1..(Len(t) - 1)
                BY <1>1, <1>3, <3>3
            <4> QED BY <1>2, <3>1, <4>1
        <3> QED BY <3>2, <3>3
    <2>4. ASSUME NEW k \in 1..(Len(q.frames) - 1)
          PROVE  u[k + 1].start = WrittenBy(u[k], q.frames[k])
        <3>1. /\ k \in 1..(Len(t) - 1) /\ k + 1 \in 1..Len(t)
              /\ t[k + 1].start = WrittenBy(t[k], p.frames[k])
            BY <1>1, <1>3 DEF Nested
        <3> QED BY <1>1, <1>2, <1>3, <3>1
    <2> QED BY <2>1, <2>2, <2>3, <2>4 DEF Nested
<1>6. Commas(Top(p)) \in Nat /\ Commas(top) \in Nat
    BY <1>3, CommasCounted, TopType DEF Commas, FrameType, top
<1>7. Ahead(q, u) = Ahead(p, t) + n + Commas(top) - Commas(Top(p))
    <2>1. t[Len(t)] \in TotalType /\ u[Len(t)] \in TotalType
        BY <1>1, <1>2
    <2>2. top \in FrameType /\ Top(p) \in FrameType
        BY <1>1, <1>3, TopType
    <2>3. /\ u[Len(t)].total = t[Len(t)].total + n /\ u[Len(t)].start = t[Len(t)].start
          /\ Ahead(q, u) = WrittenBy(u[Len(t)], top) /\ Ahead(p, t) = WrittenBy(t[Len(t)], Top(p))
        BY <1>2, <1>3 DEF Ahead
    <2>4. /\ WrittenBy(u[Len(t)], top) = u[Len(t)].start + u[Len(t)].total + Commas(top)
                                            - (IF top.kind = "document" THEN 0 ELSE 1)
          /\ WrittenBy(t[Len(t)], Top(p)) = t[Len(t)].start + t[Len(t)].total + Commas(Top(p))
                                            - (IF top.kind = "document" THEN 0 ELSE 1)
        BY <1>3, <2>1, <2>2, WrittenByFacts
    <2> DEFINE less == IF top.kind = "document" THEN 0 ELSE 1
    <2>5. less \in Nat
        OBVIOUS
    <2>6. /\ Ahead(q, u) = t[Len(t)].start + (t[Len(t)].total + n) + Commas(top) - less
          /\ Ahead(p, t) = t[Len(t)].start + t[Len(t)].total + Commas(Top(p)) - less
        BY <2>3, <2>4
    <2>7. t[Len(t)].start \in Nat /\ t[Len(t)].total \in Nat
        BY <2>1 DEF TotalType
    <2> HIDE DEF less
    <2>8. PICK a \in Nat, b \in Nat, c \in Nat, d \in Nat :
              /\ a = t[Len(t)].start /\ b = t[Len(t)].total
              /\ c = Commas(top) /\ d = Commas(Top(p))
        BY <1>6, <2>7
    <2>9. Ahead(q, u) = a + (b + n) + c - less /\ Ahead(p, t) = a + b + d - less
        BY <2>6, <2>8
    <2>10. a + (b + n) + c - less = (a + b + d - less) + n + c - d
        BY <2>5
    <2> QED BY <2>8, <2>9, <2>10
<1> QED BY <1>5, <1>7 DEF q, top, u

LEMMA ScalarCounts ==
    ASSUME doc \in Seq(Events), NEW p \in Place, NEW t, Nested(p.frames, t), AtScalar(p)
    PROVE  LET u == Raised(t, ScalarSize(p))
           IN  /\ Nested(Passed(p).frames, u)
               /\ Ahead(Passed(p), u) = Ahead(p, t) + Len(ScalarText(p))
<1>1. /\ ScalarSize(p) \in Nat
      /\ Len(ScalarText(p)) = Len(Separator(p)) + ScalarSize(p)
      /\ Len(Separator(p)) \in {0, 1} /\ Ahead(p, t) \in Int
    BY TextsType, NestedFacts
<1>2. p.i + 1 \in Nat /\ Counts(p) \in BOOLEAN
    BY DEF Place, Counts
<1> DEFINE top == [kind  |-> Top(p).kind,
                   index |-> IF Counts(p) THEN Top(p).index + 1 ELSE Top(p).index]
<1>3. Counted(p, Counts(p))[Len(Counted(p, Counts(p)))] = top
    BY <1>2, CountedType
<1>4. Commas(Top(p)) \in Nat /\ Commas(top) = Commas(Top(p)) + Len(Separator(p))
    BY <1>3, CommasCounted
<1>5. /\ Nested(Passed(p).frames, Raised(t, ScalarSize(p)))
      /\ Ahead(Passed(p), Raised(t, ScalarSize(p)))
            = Ahead(p, t) + ScalarSize(p) + Commas(top) - Commas(Top(p))
    BY <1>1, <1>2, CallGrows DEF Passed
<1> HIDE DEF top
<1> QED BY <1>1, <1>4, <1>5

LEMMA ByteCounts ==
    ASSUME doc \in Seq(Events), NEW p \in Place, NEW t, Nested(p.frames, t), AtByte(p)
    PROVE  LET c == Event(p).bytes[Top(p).index + 1]
               u == Raised(t, EscapedSize(c))
           IN  /\ Nested(Advanced(p).frames, u)
               /\ Ahead(Advanced(p), u) = Ahead(p, t) + Len(WriteEscaped(c))
<1> DEFINE c == Event(p).bytes[Top(p).index + 1]
           top == [kind |-> Top(p).kind, index |-> IF TRUE THEN Top(p).index + 1 ELSE Top(p).index]
<1>1. c \in Byte /\ EscapedSize(c) \in Nat /\ Len(WriteEscaped(c)) = EscapedSize(c)
    BY ByteType, EscapedLength
<1> HIDE DEF c
<1>2. Commas(Top(p)) = 0 /\ Commas(top) = 0
    BY DEF AtByte, WithinString, Commas
<1>3. p.i \in Nat /\ Ahead(p, t) \in Int
    BY NestedFacts DEF Place
<1>4. /\ Nested(Advanced(p).frames, Raised(t, EscapedSize(c)))
      /\ Ahead(Advanced(p), Raised(t, EscapedSize(c)))
            = Ahead(p, t) + EscapedSize(c) + Commas(top) - Commas(Top(p))
    BY <1>1, <1>3, CallGrows DEF Advanced
<1> QED BY <1>1, <1>2, <1>3, <1>4 DEF c

\* A new call: its text starts where its caller's has got to.
LEMMA OpeningCounts ==
    ASSUME doc \in Seq(Events), NEW p \in Place, NEW t, Nested(p.frames, t), AtOpening(p)
    PROVE  LET q == [i |-> p.i, frames |-> Counted(p, Counts(p))]
               u == Append(t, [total |-> 2, start |-> Ahead(q, t)])
           IN  /\ Nested(Entered(p).frames, u)
               /\ Ahead(Entered(p), u) = Ahead(p, t) + Len(OpeningText(p))
<1> DEFINE q == [i |-> p.i, frames |-> Counted(p, Counts(p))]
           top == [kind  |-> Top(p).kind,
                   index |-> IF Counts(p) THEN Top(p).index + 1 ELSE Top(p).index]
           u == Append(t, [total |-> 2, start |-> Ahead(q, t)])
           r == Entered(p)
<1>1. /\ t \in Seq(TotalType) /\ Len(t) = Len(p.frames) /\ Len(t) \in Nat /\ Len(t) >= 1
      /\ t[Len(t)].total \in Nat /\ t[Len(t)].start \in Nat /\ Ahead(p, t) \in Int
    BY NestedFacts
<1>2. p.i \in Nat /\ Counts(p) \in BOOLEAN
    BY DEF Place, Counts
<1>3. /\ q.frames \in Seq(FrameType) /\ Len(q.frames) = Len(p.frames)
      /\ \A k \in 1..(Len(p.frames) - 1) : q.frames[k] = p.frames[k]
      /\ q.frames[Len(p.frames)] = top /\ Top(q) = top
      /\ top.kind = Top(p).kind /\ Top(p) = p.frames[Len(p.frames)]
    BY <1>2, CountedType DEF Top
<1>4. Commas(Top(p)) \in Nat /\ Commas(top) = Commas(Top(p)) + Len(Separator(p))
    BY <1>3, CommasCounted
<1>5. /\ Len(Separator(p)) \in {0, 1} /\ Len(OpeningText(p)) = Len(Separator(p)) + 1
    BY TextsType
<1> HIDE DEF top
<1>6. /\ Ahead(q, t) = Ahead(p, t) + Len(Separator(p))
      /\ Ahead(q, t) \in Nat
      /\ Ahead(q, t) = WrittenBy(t[Len(t)], q.frames[Len(t)])
    <2>1. /\ Ahead(q, t) = WrittenBy(t[Len(t)], top) /\ q.frames[Len(t)] = top
          /\ Ahead(p, t) = WrittenBy(t[Len(t)], Top(p))
        BY <1>1, <1>3 DEF Ahead
    <2>2. t[Len(t)] \in TotalType /\ top \in FrameType /\ Top(p) \in FrameType
        BY <1>1, <1>3, TopType
    <2>3. t[Len(t)].total > 0 \/ top.kind = "document"
        <3>1. CASE Len(t) = 1
            BY <1>1, <1>3, <3>1 DEF Nested
        <3>2. CASE Len(t) # 1
            <4>1. PICK n \in Nat : n = Len(t) /\ n = Len(p.frames)
                BY <1>1
            <4>2. n >= 1 /\ n # 1
                BY <1>1, <3>2, <4>1
            <4>3. \A k \in 2..n : t[k].total > 0
                BY <4>1 DEF Nested
            <4>4. n \in 2..n
                BY <4>2
            <4> QED BY <4>1, <4>3, <4>4
        <3> QED BY <3>1, <3>2
    <2>4. /\ WrittenBy(t[Len(t)], top) = t[Len(t)].start + t[Len(t)].total + Commas(top)
                                            - (IF top.kind = "document" THEN 0 ELSE 1)
          /\ WrittenBy(t[Len(t)], Top(p)) = t[Len(t)].start + t[Len(t)].total + Commas(Top(p))
                                            - (IF top.kind = "document" THEN 0 ELSE 1)
          /\ WrittenBy(t[Len(t)], top) \in Nat
        BY <1>3, <2>2, <2>3, WrittenByFacts
    <2> DEFINE less == IF top.kind = "document" THEN 0 ELSE 1
    <2>5. WrittenBy(t[Len(t)], top) = WrittenBy(t[Len(t)], Top(p)) + Len(Separator(p))
        <3>1. less \in Nat
            OBVIOUS
        <3>2. /\ WrittenBy(t[Len(t)], top) = t[Len(t)].start + t[Len(t)].total + Commas(top) - less
              /\ WrittenBy(t[Len(t)], Top(p)) = t[Len(t)].start + t[Len(t)].total + Commas(Top(p)) - less
            BY <2>4
        <3> HIDE DEF less
        <3> QED BY <1>1, <1>4, <1>5, <3>1, <3>2
    <2> QED BY <2>1, <2>4, <2>5
<1>7. /\ r.frames = Append(q.frames, [kind |-> Callee(p), index |-> 0])
      /\ Callee(p) \in {"object", "array", "string"}
    BY DEF Entered, Callee, Frame
<1> HIDE DEF q, r
<1>8. [total |-> 2, start |-> Ahead(q, t)] \in TotalType
    BY <1>6 DEF TotalType
<1>9. /\ u \in Seq(TotalType) /\ Len(u) = Len(t) + 1
      /\ \A k \in 1..Len(t) : u[k] = t[k]
      /\ u[Len(t) + 1] = [total |-> 2, start |-> Ahead(q, t)]
    BY <1>1, <1>8
<1>10. /\ Len(r.frames) = Len(t) + 1
       /\ \A k \in 1..Len(t) : r.frames[k] = q.frames[k]
       /\ r.frames[Len(t) + 1] = [kind |-> Callee(p), index |-> 0]
       /\ Top(r) = [kind |-> Callee(p), index |-> 0]
    BY <1>1, <1>3, <1>7 DEF Top
<1>11. \A k \in 1..Len(t) : q.frames[k].kind = p.frames[k].kind
    <2>1. ASSUME NEW k \in 1..Len(t)
          PROVE  q.frames[k].kind = p.frames[k].kind
        <3>1. k = Len(t) \/ k \in 1..(Len(p.frames) - 1)
            BY <1>1
        <3> QED BY <1>1, <1>3, <3>1
    <2> QED BY <2>1
<1> HIDE DEF u
<1>12. Nested(r.frames, u)
    <2>1. u \in Seq(TotalType) /\ Len(u) = Len(r.frames) /\ u[1].start = 0
        BY <1>1, <1>9, <1>10 DEF Nested
    <2>2. r.frames[1].kind = "document"
        BY <1>1, <1>10, <1>11 DEF Nested
    <2>3. ASSUME NEW k \in 2..Len(r.frames)
          PROVE  r.frames[k].kind # "document" /\ u[k].total > 0
        <3>1. CASE k = Len(t) + 1
            BY <1>7, <1>9, <1>10, <3>1
        <3>2. CASE k # Len(t) + 1
            <4>1. k \in 2..Len(p.frames) /\ k \in 1..Len(t)
                BY <1>1, <1>10, <3>2
            <4>2. p.frames[k].kind # "document" /\ t[k].total > 0
                BY <4>1 DEF Nested
            <4> QED BY <1>9, <1>10, <1>11, <4>1, <4>2
        <3> QED BY <3>1, <3>2
    <2>4. ASSUME NEW k \in 1..(Len(r.frames) - 1)
          PROVE  u[k + 1].start = WrittenBy(u[k], r.frames[k])
        <3>1. k \in 1..Len(t) /\ u[k] = t[k] /\ r.frames[k] = q.frames[k]
            BY <1>1, <1>9, <1>10
        <3>2. CASE k = Len(t)
            BY <1>6, <1>9, <3>1, <3>2
        <3>3. CASE k # Len(t)
            <4>1. /\ k \in 1..(Len(p.frames) - 1) /\ k + 1 \in 1..Len(t)
                  /\ q.frames[k] = p.frames[k]
                BY <1>1, <1>3, <3>1, <3>3
            <4>2. t[k + 1].start = WrittenBy(t[k], p.frames[k])
                BY <4>1 DEF Nested
            <4> QED BY <1>9, <3>1, <4>1, <4>2
        <3> QED BY <3>2, <3>3
    <2> QED BY <2>1, <2>2, <2>3, <2>4 DEF Nested
<1>13. Ahead(r, u) = Ahead(q, t) + 1
    <2>1. Ahead(r, u) = WrittenBy(u[Len(t) + 1], [kind |-> Callee(p), index |-> 0])
        BY <1>9, <1>10 DEF Ahead
    <2>2. /\ [kind |-> Callee(p), index |-> 0].kind # "document"
          /\ Commas([kind |-> Callee(p), index |-> 0]) = 0
        BY <1>7 DEF Commas
    <2>3. u[Len(t) + 1].total = 2 /\ u[Len(t) + 1].start = Ahead(q, t)
        BY <1>9
    <2> QED BY <1>6, <2>1, <2>2, <2>3 DEF WrittenBy
<1> QED BY <1>1, <1>5, <1>6, <1>12, <1>13 DEF q, r, u

\* A call returns: what it has counted is what its caller has got further by.
LEMMA ClosingCounts ==
    ASSUME doc \in Seq(Events), NEW p \in Place, NEW t, Nested(p.frames, t), AtClosing(p)
    PROVE  LET u == Raised(SubSeq(t, 1, Len(t) - 1),
                           t[Len(t)].total + Commas(Top(p))
                             + IF Event(p).kind = "key" THEN 1 ELSE 0)
           IN  /\ Nested(Left(p).frames, u)
               /\ Ahead(Left(p), u) = Ahead(p, t) + Len(ClosingText(p))
<1>0. PICK n \in Nat : n = Len(t)
    BY NestedFacts
<1> DEFINE key == IF Event(p).kind = "key" THEN 1 ELSE 0
           more == t[n].total + Commas(Top(p)) + key
           s == SubSeq(t, 1, n - 1)
           u == Raised(s, more)
           r == Left(p)
<1>1. /\ t \in Seq(TotalType) /\ n = Len(p.frames) /\ n = Len(t) /\ n > 1
      /\ t[n].total \in Nat /\ t[n].start \in Nat /\ Ahead(p, t) \in Int
      /\ Commas(Top(p)) \in Nat
    BY <1>0, NestedFacts, CommasCounted DEF AtClosing
<1>2. key \in {0, 1} /\ Len(ClosingText(p)) = 1 + key
    BY TextsType
<1>3. more \in Nat
    BY <1>1, <1>2
<1>4. /\ s \in Seq(TotalType) /\ Len(s) = n - 1 /\ \A k \in 1..(n - 1) : s[k] = t[k]
    BY <1>1
<1>5. /\ p.frames \in Seq(FrameType) /\ r.frames \in Seq(FrameType)
      /\ Len(r.frames) = n - 1 /\ \A k \in 1..(n - 1) : r.frames[k] = p.frames[k]
      /\ Top(r) = p.frames[n - 1] /\ Top(p) = p.frames[n]
    <2>1. p.frames \in Seq(FrameType) /\ r.frames = SubSeq(p.frames, 1, n - 1)
        BY <1>1 DEF Left, Place
    <2> HIDE DEF r
    <2>2. /\ r.frames \in Seq(FrameType) /\ Len(r.frames) = n - 1
          /\ \A k \in 1..(n - 1) : r.frames[k] = p.frames[k]
        <3>1. Len(p.frames) = n /\ n > 1
            BY <1>1
        <3>2. /\ SubSeq(p.frames, 1, n - 1) \in Seq(FrameType)
              /\ Len(SubSeq(p.frames, 1, n - 1)) = n - 1
              /\ \A k \in 1..(n - 1) : SubSeq(p.frames, 1, n - 1)[k] = p.frames[k]
            BY <2>1, <3>1, Shortened
        <3> QED BY <2>1, <3>2
    <2>3. Top(r) = r.frames[n - 1] /\ n - 1 \in 1..(n - 1) /\ Top(p) = p.frames[n]
        BY <1>1, <2>2 DEF Top
    <2> QED BY <2>1, <2>2, <2>3
<1> HIDE DEF s, r, key
<1>6. /\ u \in Seq(TotalType) /\ Len(u) = n - 1
      /\ u[n - 1] = [total |-> t[n - 1].total + more, start |-> t[n - 1].start]
      /\ \A k \in 1..(n - 2) : u[k] = t[k]
      /\ \A k \in 1..(n - 1) : u[k].start = t[k].start
    <2>1. Len(s) # 0
        BY <1>1, <1>4
    <2>2. /\ Raised(s, more) \in Seq(TotalType) /\ Len(Raised(s, more)) = Len(s)
          /\ Raised(s, more)[Len(s)] = [total |-> s[Len(s)].total + more, start |-> s[Len(s)].start]
          /\ \A k \in 1..(Len(s) - 1) : Raised(s, more)[k] = s[k]
          /\ \A k \in 1..Len(s) : Raised(s, more)[k].start = s[k].start
        BY <1>3, <1>4, <2>1, RaisedFacts
    <2>3. s[n - 1] = t[n - 1] /\ n - 1 \in 1..(n - 1)
        BY <1>1, <1>4
    <2> HIDE DEF more
    <2>4. \A k \in 1..(n - 2) : k \in 1..(Len(s) - 1) /\ k \in 1..(n - 1)
        BY <1>1, <1>4
    <2> QED BY <1>4, <2>2, <2>3, <2>4
<1> HIDE DEF u
<1>7. /\ t[n].start = WrittenBy(t[n - 1], p.frames[n - 1])
      /\ p.frames[n].kind # "document"
    <2>1. n - 1 \in 1..(Len(p.frames) - 1) /\ n \in 2..Len(p.frames) /\ (n - 1) + 1 = n
        BY <1>1
    <2> QED BY <2>1 DEF Nested
<1>8. Nested(r.frames, u)
    <2>1. u \in Seq(TotalType) /\ Len(u) = Len(r.frames) /\ u[1].start = 0
        <3>1. 1 \in 1..(n - 1) /\ t[1].start = 0
            BY <1>1 DEF Nested
        <3> QED BY <1>5, <1>6, <3>1
    <2>2. ASSUME NEW k \in 1..(n - 1)
          PROVE  /\ r.frames[k] = p.frames[k] /\ k \in 1..Len(p.frames)
                 /\ k = 1 => p.frames[k].kind = "document"
                 /\ k # 1 => p.frames[k].kind # "document" /\ t[k].total > 0
        <3>1. k \in 1..n /\ (k # 1 => k \in 2..n)
            BY <1>1
        <3>2. /\ p.frames[1].kind = "document"
              /\ \A j \in 2..n : p.frames[j].kind # "document" /\ t[j].total > 0
            BY <1>1 DEF Nested
        <3> QED BY <1>1, <1>5, <3>1, <3>2
    <2>3. ASSUME NEW k \in 2..Len(r.frames)
          PROVE  u[k].total > 0
        <3>1. k \in 1..(n - 1) /\ t[k].total > 0
            BY <1>1, <1>5, <2>2
        <3>2. CASE k = n - 1
            <4> HIDE DEF more
            <4>0. t[k] \in TotalType
                BY <1>1, <3>1
            <4>1. u[k].total = t[k].total + more /\ t[k].total \in Nat
                BY <1>6, <3>2, <4>0 DEF TotalType
            <4> QED BY <1>3, <3>1, <4>1
        <3>3. CASE k # n - 1
            <4>1. k \in 1..(n - 2)
                BY <1>1, <3>1, <3>3
            <4> QED BY <1>6, <3>1, <4>1
        <3> QED BY <3>2, <3>3
    <2>4. ASSUME NEW k \in 1..(Len(r.frames) - 1)
          PROVE  u[k + 1].start = WrittenBy(u[k], r.frames[k])
        <3>1. /\ k \in 1..(n - 2) /\ k \in 1..(n - 1) /\ k + 1 \in 1..(n - 1)
              /\ k \in 1..(Len(p.frames) - 1)
            BY <1>1, <1>5
        <3>2. t[k + 1].start = WrittenBy(t[k], p.frames[k])
            BY <3>1 DEF Nested
        <3> QED BY <1>6, <2>2, <3>1, <3>2
    <2>5. r.frames[1].kind = "document" /\ \A k \in 2..Len(r.frames) : r.frames[k].kind # "document"
        <3>1. 1 \in 1..(n - 1) /\ \A k \in 2..Len(r.frames) : k \in 1..(n - 1) /\ k # 1
            BY <1>1, <1>5
        <3> QED BY <2>2, <3>1
    <2> QED BY <2>1, <2>3, <2>4, <2>5 DEF Nested
<1>9. /\ t[n] \in TotalType /\ t[n - 1] \in TotalType /\ u[n - 1] \in TotalType
      /\ p.frames[n] \in FrameType /\ p.frames[n - 1] \in FrameType
    <2>1. n \in 1..n /\ n - 1 \in 1..n /\ n - 1 \in 1..(n - 1)
        BY <1>1
    <2>2. t[n] \in TotalType /\ t[n - 1] \in TotalType
        BY <1>1, <2>1
    <2>3. u[n - 1] \in TotalType
        BY <1>6, <2>1
    <2>4. p.frames[n] \in FrameType /\ p.frames[n - 1] \in FrameType
        BY <1>1, <1>5, Shortened
    <2> QED BY <2>2, <2>3, <2>4
<1>10. /\ Ahead(r, u) = WrittenBy(u[n - 1], p.frames[n - 1])
       /\ Ahead(p, t) = WrittenBy(t[n], p.frames[n])
    BY <1>1, <1>5, <1>6 DEF Ahead
<1>11. Ahead(r, u) = WrittenBy(t[n - 1], p.frames[n - 1]) + more
    <2>1. u[n - 1].total = t[n - 1].total + more /\ u[n - 1].start = t[n - 1].start
        BY <1>6
    <2> HIDE DEF more
    <2>2. /\ WrittenBy(u[n - 1], p.frames[n - 1])
                = u[n - 1].start + u[n - 1].total + Commas(p.frames[n - 1])
                    - (IF p.frames[n - 1].kind = "document" THEN 0 ELSE 1)
          /\ WrittenBy(t[n - 1], p.frames[n - 1])
                = t[n - 1].start + t[n - 1].total + Commas(p.frames[n - 1])
                    - (IF p.frames[n - 1].kind = "document" THEN 0 ELSE 1)
          /\ t[n - 1].start \in Nat /\ t[n - 1].total \in Nat /\ Commas(p.frames[n - 1]) \in Nat
        BY <1>9, WrittenByFacts
    <2> QED BY <1>3, <1>10, <2>1, <2>2
<1>12. Ahead(p, t) = t[n].start + t[n].total + Commas(Top(p)) - 1
    BY <1>5, <1>7, <1>9, <1>10, WrittenByFacts
<1>13. Ahead(r, u) = Ahead(p, t) + 1 + key
    <2>1. Ahead(r, u) = t[n].start + (t[n].total + Commas(Top(p)) + key)
        BY <1>7, <1>11
    <2>2. Ahead(p, t) = t[n].start + t[n].total + Commas(Top(p)) - 1
        BY <1>12
    <2>3. PICK a \in Nat, b \in Nat, c \in Nat, d \in Nat :
             a = t[n].start /\ b = t[n].total /\ c = Commas(Top(p)) /\ d = key
        BY <1>1, <1>2
    <2>4. Ahead(r, u) = a + (b + c + d) /\ Ahead(p, t) = a + b + c - 1
        BY <2>1, <2>2, <2>3
    <2>5. Ahead(r, u) = Ahead(p, t) + 1 + d
        BY <2>4
    <2> QED BY <2>3, <2>5
<1>14. Ahead(r, u) = Ahead(p, t) + Len(ClosingText(p))
    BY <1>1, <1>2, <1>13
<1> QED BY <1>0, <1>8, <1>14 DEF u, s, r, key

-----------------------------------------------------------------------------
(***************************************************************************)
(* The two passes.                                                         *)
(***************************************************************************)
LEMMA SameMoves == ASSUME doc' = doc
                   PROVE  \A a, b : Follows(a, b)' <=> Follows(a, b)
BY DEF Follows, AtOpening, AtByte, AtClosing, AtScalar, WithinString, Top, Event, Entered, Advanced,
       Left, Passed, Counted, Counts, Callee, Frame, OpeningText, ClosingText, ScalarText,
       Separator, WriteEscaped

LEMMA MarkedKept == ASSUME Marked, UNCHANGED <<doc, marks>>
                    PROVE  Marked'
BY SameMoves DEF Marked, LastMark

LEMMA Grows ==
    ASSUME IInv, NEW p \in Place, NEW t, NEW w \in Nat,
           Sized(p, t), Nested(p.frames, t), Ahead(p, t) = Ahead(place, totals) + w,
           Follows(LastMark, [place |-> p, written |-> Ahead(p, t)])
    PROVE  IInv'
<1> DEFINE m == [place |-> p, written |-> Ahead(p, t)]
           n == Len(marks)
<1>1. /\ pass = "size" /\ pass' = "size" /\ place' = p /\ totals' = t /\ marks' = Append(marks, m)
      /\ doc' = doc /\ buf' = buf /\ buf = <<>> /\ LastMark.written = Ahead(place, totals)
      /\ marks \in Seq(Mark) /\ marks # <<>>
    BY DEF IInv, Sizing, Typed, Sized
<1>2. Ahead(place, totals) \in Int
    BY <1>1, NestedFacts DEF IInv, Sizing, Typed
<1>3. m \in Mark
    BY <1>2 DEF Mark
<1> HIDE DEF m
<1>4. /\ n \in Nat /\ n >= 1 /\ Len(marks') = n + 1 /\ marks'[n + 1] = m
      /\ marks' \in Seq(Mark) /\ marks' # <<>> /\ \A k \in 1..n : marks'[k] = marks[k]
    BY <1>1, <1>3
<1> HIDE DEF n
<1>5. LastMark' = m
    BY <1>4 DEF LastMark
<1>6. Typed'
    BY <1>1, <1>4 DEF IInv, Typed
<1>7. Marked'
    <2>1. marks'[1] = [place |-> Beginning, written |-> 0]
        BY <1>4 DEF IInv, Marked
    <2>2. ASSUME NEW k \in 1..(Len(marks') - 1)
          PROVE  Follows(marks'[k], marks'[k + 1])
        <3>1. k \in 1..n /\ marks'[k] = marks[k]
            BY <1>4
        <3>2. CASE k = n
            BY <1>4, <3>1, <3>2 DEF LastMark, m, n
        <3>3. CASE k # n
            <4>1. k \in 1..(Len(marks) - 1) /\ k + 1 \in 1..n /\ marks'[k + 1] = marks[k + 1]
                BY <1>4, <3>1, <3>3 DEF n
            <4> QED BY <3>1, <4>1 DEF IInv, Marked
        <3> QED BY <3>2, <3>3
    <2>3. ASSUME NEW k \in 1..Len(marks')
          PROVE  marks'[k].written <= m.written
        <3>0. m.written = Ahead(place, totals) + w
            BY DEF m
        <3>1. CASE k = n + 1
            BY <1>2, <1>4, <3>0, <3>1
        <3>2. CASE k # n + 1
            <4>1. k \in 1..n /\ marks'[k] = marks[k] /\ marks[k] \in Mark
                BY <1>1, <1>4, <3>2 DEF n
            <4>2. marks[k].written \in Int /\ marks[k].written <= Ahead(place, totals)
                BY <1>1, <4>1 DEF IInv, Marked, Mark, n
            <4> QED BY <1>2, <3>0, <4>1, <4>2
        <3> QED BY <3>1, <3>2
    <2> QED BY <1>1, <1>5, <2>1, <2>2, <2>3, SameMoves DEF Marked
<1>8. Sizing'
    BY <1>1, <1>5 DEF Sizing, m
<1> QED BY <1>1, <1>6, <1>7, <1>8 DEF IInv, Writing

\* The write pass makes the only move there is, which is the one to the next mark.
LEMMA Fills ==
    ASSUME IInv, NEW p \in Place, NEW bytes \in Seq(Byte), Writes(p, bytes), ~AtEnd(place),
           \A b : Follows([place |-> place, written |-> Len(buf)], b) =>
                     b = [place |-> p, written |-> Len(buf) + Len(bytes)]
    PROVE  IInv'
<1>1. /\ pass = "write" /\ pass' = "write" /\ place' = p /\ buf' = buf \o bytes
      /\ UNCHANGED <<doc, totals, length, marks>>
    BY DEF Writes
<1>2. buf \in Seq(Byte) /\ buf' \in Seq(Byte) /\ Len(buf') = Len(buf) + Len(bytes)
    BY <1>1 DEF IInv, Typed
<1>3. PICK n \in 1..Len(marks) : marks[n] = [place |-> place, written |-> Len(buf)]
    BY <1>1 DEF IInv, Writing
<1>4. n # Len(marks)
    <2>1. ASSUME n = Len(marks)
          PROVE  FALSE
        <3>1. LastMark.place = place
            BY <1>3, <2>1 DEF LastMark
        <3> QED BY <1>1, <3>1 DEF IInv, Writing
    <2> QED BY <2>1
<1>5. Len(marks) \in Nat
    BY DEF IInv, Typed
<1>6. n \in 1..(Len(marks) - 1) /\ n + 1 \in 1..Len(marks)
    BY <1>4, <1>5
<1>7. Follows(marks[n], marks[n + 1])
    BY <1>6 DEF IInv, Marked
<1>8. marks'[n + 1] = [place |-> place', written |-> Len(buf')]
    BY <1>1, <1>2, <1>3, <1>7
<1>9. Typed'
    BY <1>1, <1>2 DEF IInv, Typed
<1>10. Writing'
    <2>1. AtEnd(LastMark.place)'
        BY <1>1 DEF IInv, Writing, AtEnd, LastMark
    <2>2. length' = LastMark'.written
        BY <1>1 DEF IInv, Writing, LastMark
    <2> QED BY <1>1, <1>6, <1>8, <2>1, <2>2 DEF Writing
<1> QED BY <1>1, <1>9, <1>10, MarkedKept DEF IInv, Sizing

LEMMA OneMove ==
    ASSUME doc \in Seq(Events), NEW p \in Place
    PROVE  /\ AtOpening(p) => ~AtByte(p) /\ ~AtClosing(p) /\ ~AtScalar(p)
           /\ AtByte(p)    => ~AtClosing(p) /\ ~AtScalar(p)
           /\ AtClosing(p) => ~AtScalar(p)
           /\ AtEnd(p)     => ~AtOpening(p) /\ ~AtByte(p) /\ ~AtClosing(p) /\ ~AtScalar(p)
<1>1. p.i \in Nat /\ Len(doc) \in Nat
    BY DEF Place
<1>2. AtEnd(p) => ~AtOpening(p) /\ ~AtByte(p) /\ ~AtClosing(p) /\ ~AtScalar(p)
    <2>1. AtEnd(p) => ~(p.i < Len(doc))
        BY <1>1 DEF AtEnd
    <2> QED BY <2>1 DEF AtOpening, AtByte, AtClosing, AtScalar
<1>3. AtByte(p) => ~AtClosing(p)
    <2> SUFFICES ASSUME AtByte(p)
                 PROVE  ~AtClosing(p)
        OBVIOUS
    <2>1. Event(p) \in Events /\ Top(p) \in FrameType /\ WithinString(p)
        BY EventType, TopType DEF AtByte
    <2>2. Event(p).bytes \in Seq(Byte) /\ Top(p).index \in Nat
        BY <2>1 DEF Events, FrameType
    <2>3. Len(Event(p).bytes) \in Nat /\ Top(p).index < Len(Event(p).bytes)
        BY <2>2 DEF AtByte
    <2>4. Top(p).index # Len(Event(p).bytes)
        BY <2>2, <2>3
    <2> QED BY <2>1, <2>4 DEF AtClosing
<1> QED BY <1>2, <1>3 DEF AtOpening, AtByte, AtClosing, AtScalar

LEMMA Invariant == Spec => []IInv
<1>1. Init => IInv
    <2> SUFFICES ASSUME Init PROVE IInv
        OBVIOUS
    <2>1. Frame("document") \in FrameType /\ Beginning \in Place
        BY DEF Frame, FrameType, Kinds, Beginning, Place
    <2>2. /\ doc \in Seq(Events) /\ pass = "size" /\ buf = <<>> /\ place = Beginning
          /\ totals = <<[total |-> 0, start |-> 0]>>
          /\ marks = <<[place |-> Beginning, written |-> 0]>>
        BY DocumentsAssumption DEF Init
    <2>3. [place |-> Beginning, written |-> 0] \in Mark
        BY <2>1 DEF Mark
    <2>4. Typed
        BY <2>1, <2>2, <2>3 DEF Typed
    <2>5. LastMark = [place |-> Beginning, written |-> 0] /\ Len(marks) = 1
        BY <2>2 DEF LastMark
    <2>6. Marked
        BY <2>2, <2>5 DEF Marked
    <2>7. Nested(Beginning.frames, totals)
        <3>1. /\ Beginning.frames = <<[kind |-> "document", index |-> 0]>>
              /\ [total |-> 0, start |-> 0] \in TotalType
            BY DEF Beginning, Frame, TotalType
        <3> QED BY <2>2, <3>1 DEF Nested
    <2>8. Ahead(Beginning, totals) = 0
        BY <2>2 DEF Ahead, WrittenBy, Top, Beginning, Frame, Commas
    <2> QED BY <2>2, <2>4, <2>5, <2>6, <2>7, <2>8 DEF IInv, Sizing, Writing
<1>2. IInv /\ [Next]_vars => IInv'
    <2> SUFFICES ASSUME IInv, [Next]_vars
                 PROVE  IInv'
        OBVIOUS
    <2>0. doc \in Seq(Events) /\ place \in Place
        BY DEF IInv, Typed
    <2> DEFINE c == Event(place).bytes[Top(place).index + 1]
    <2>1. CASE SizeEnter
        <3> DEFINE q == [i |-> place.i, frames |-> Counted(place, Counts(place))]
                   t == Append(totals, [total |-> 2, start |-> Ahead(q, totals)])
        <3>1. /\ AtOpening(place) /\ Sized(Entered(place), t) /\ Nested(place.frames, totals)
              /\ LastMark = [place |-> place, written |-> Ahead(place, totals)]
            BY <2>1 DEF SizeEnter, IInv, Sizing, Sized
        <3>2. /\ Nested(Entered(place).frames, t) /\ Entered(place) \in Place
              /\ Ahead(Entered(place), t) = Ahead(place, totals) + Len(OpeningText(place))
            BY <2>0, <3>1, OpeningCounts, PlacesType
        <3>3. Len(OpeningText(place)) \in Nat
            BY <2>0, <3>1, TextsType
        <3> HIDE DEF t
        <3>4. Follows(LastMark, [place |-> Entered(place), written |-> Ahead(Entered(place), t)])
            BY <3>1, <3>2 DEF Follows
        <3> QED BY <3>1, <3>2, <3>3, <3>4, Grows
    <2>2. CASE SizeByte
        <3> DEFINE t == Raised(totals, EscapedSize(c))
        <3>1. /\ AtByte(place) /\ Sized(Advanced(place), t) /\ Nested(place.frames, totals)
              /\ LastMark = [place |-> place, written |-> Ahead(place, totals)]
            BY <2>2 DEF SizeByte, IInv, Sizing, Sized
        <3>2. /\ Nested(Advanced(place).frames, t) /\ Advanced(place) \in Place
              /\ Ahead(Advanced(place), t) = Ahead(place, totals) + Len(WriteEscaped(c))
            BY <2>0, <3>1, ByteCounts, PlacesType
        <3>3. Len(WriteEscaped(c)) \in Nat
            BY <2>0, <3>1, ByteType, EscapedLength
        <3> HIDE DEF t
        <3>4. Follows(LastMark, [place |-> Advanced(place), written |-> Ahead(Advanced(place), t)])
            BY <3>1, <3>2 DEF Follows
        <3> QED BY <3>1, <3>2, <3>3, <3>4, Grows
    <2>3. CASE SizeLeave
        <3> DEFINE t == Raised(SubSeq(totals, 1, Len(totals) - 1),
                               totals[Len(totals)].total + Commas(Top(place))
                                 + IF Event(place).kind = "key" THEN 1 ELSE 0)
        <3>1. /\ AtClosing(place) /\ Sized(Left(place), t) /\ Nested(place.frames, totals)
              /\ LastMark = [place |-> place, written |-> Ahead(place, totals)]
            BY <2>3 DEF SizeLeave, IInv, Sizing, Sized
        <3>2. /\ Nested(Left(place).frames, t) /\ Left(place) \in Place
              /\ Ahead(Left(place), t) = Ahead(place, totals) + Len(ClosingText(place))
            BY <2>0, <3>1, ClosingCounts, PlacesType
        <3>3. Len(ClosingText(place)) \in Nat
            BY <2>0, <3>1, TextsType
        <3> HIDE DEF t
        <3>4. Follows(LastMark, [place |-> Left(place), written |-> Ahead(Left(place), t)])
            BY <3>1, <3>2 DEF Follows
        <3> QED BY <3>1, <3>2, <3>3, <3>4, Grows
    <2>4. CASE SizeScalar
        <3> DEFINE t == Raised(totals, ScalarSize(place))
        <3>1. /\ AtScalar(place) /\ Sized(Passed(place), t) /\ Nested(place.frames, totals)
              /\ LastMark = [place |-> place, written |-> Ahead(place, totals)]
            BY <2>4 DEF SizeScalar, IInv, Sizing, Sized
        <3>2. /\ Nested(Passed(place).frames, t) /\ Passed(place) \in Place
              /\ Ahead(Passed(place), t) = Ahead(place, totals) + Len(ScalarText(place))
            BY <2>0, <3>1, ScalarCounts, PlacesType
        <3>3. Len(ScalarText(place)) \in Nat
            BY <2>0, <3>1, TextsType
        <3> HIDE DEF t
        <3>4. Follows(LastMark, [place |-> Passed(place), written |-> Ahead(Passed(place), t)])
            BY <3>1, <3>2 DEF Follows
        <3> QED BY <3>1, <3>2, <3>3, <3>4, Grows
    <2>5. CASE Allocate
        <3>1. /\ AtEnd(place) /\ pass' = "write" /\ length' = totals[1].total /\ place' = Beginning
              /\ UNCHANGED <<doc, totals, buf, marks>>
              /\ buf = <<>> /\ Nested(place.frames, totals)
              /\ LastMark = [place |-> place, written |-> Ahead(place, totals)]
            BY <2>5 DEF Allocate, IInv, Sizing
        <3>2. Beginning \in Place
            BY DEF Frame, FrameType, Kinds, Beginning, Place
        <3>3. Ahead(place, totals) = totals[1].total
            <4>1. /\ totals[1] \in TotalType /\ totals[1].start = 0 /\ totals[1].total \in Nat
                  /\ Len(totals) = 1 /\ Top(place).kind = "document"
                BY <2>0, <3>1, NestedFacts DEF Nested, AtEnd, Top, TotalType
            <4>2. Commas(Top(place)) = 0
                BY <4>1 DEF Commas
            <4> QED BY <4>1, <4>2 DEF Ahead, WrittenBy
        <3>4. Typed'
            BY <3>1, <3>2 DEF IInv, Typed
        <3>5. Writing'
            <4>1. AtEnd(LastMark.place)' /\ length' = LastMark'.written
                BY <3>1, <3>3 DEF AtEnd, LastMark
            <4>2. marks'[1] = [place |-> place', written |-> Len(buf')]
                BY <3>1 DEF IInv, Marked
            <4>3. 1 \in 1..Len(marks')
                BY <3>4 DEF Typed
            <4> QED BY <4>1, <4>2, <4>3 DEF Writing
        <3> QED BY <3>1, <3>4, <3>5, MarkedKept DEF IInv, Sizing
    <2>6. CASE WriteEnter
        <3>1. AtOpening(place) /\ Writes(Entered(place), OpeningText(place))
            BY <2>6 DEF WriteEnter
        <3>2. Entered(place) \in Place /\ OpeningText(place) \in Seq(Byte)
            BY <2>0, <3>1, PlacesType, TextsType
        <3> QED BY <2>0, <3>1, <3>2, Fills, OneMove DEF Follows
    <2>7. CASE WriteByte
        <3>1. AtByte(place) /\ Writes(Advanced(place), WriteEscaped(c))
            BY <2>7 DEF WriteByte
        <3>2. Advanced(place) \in Place /\ WriteEscaped(c) \in Seq(Byte)
            BY <2>0, <3>1, PlacesType, ByteType, EscapedLength
        <3> QED BY <2>0, <3>1, <3>2, Fills, OneMove DEF Follows
    <2>8. CASE WriteLeave
        <3>1. AtClosing(place) /\ Writes(Left(place), ClosingText(place))
            BY <2>8 DEF WriteLeave
        <3>2. Left(place) \in Place /\ ClosingText(place) \in Seq(Byte)
            BY <2>0, <3>1, PlacesType, TextsType
        <3> QED BY <2>0, <3>1, <3>2, Fills, OneMove DEF Follows
    <2>9. CASE WriteScalar
        <3>1. AtScalar(place) /\ Writes(Passed(place), ScalarText(place))
            BY <2>9 DEF WriteScalar
        <3>2. Passed(place) \in Place /\ ScalarText(place) \in Seq(Byte)
            BY <2>0, <3>1, PlacesType, TextsType
        <3> QED BY <2>0, <3>1, <3>2, Fills, OneMove DEF Follows
    <2>10. CASE Finish
        <3>1. /\ pass = "write" /\ AtEnd(place) /\ pass' = "done"
              /\ UNCHANGED <<doc, place, totals, length, buf, marks>>
            BY <2>10 DEF Finish
        <3> QED BY <3>1, MarkedKept DEF IInv, Typed, Sizing, Writing, AtEnd, LastMark
    <2>11. CASE Rendered \/ UNCHANGED vars
        <3>1. UNCHANGED <<doc, pass, place, totals, length, buf, marks>>
            BY <2>11 DEF Rendered, vars
        <3> QED BY <3>1, MarkedKept DEF IInv, Typed, Sizing, Writing, AtEnd, LastMark
    <2> QED BY <2>1, <2>2, <2>3, <2>4, <2>5, <2>6, <2>7, <2>8, <2>9, <2>10, <2>11 DEF Next
<1> QED BY <1>1, <1>2, PTL DEF Spec

\* serialize_to never writes past the length serialized_size has added up, and
\* comes to exactly that length, whatever the document.
THEOREM WritePassFillsArray == Spec => []FillsArray
<1>1. IInv => FillsArray
    <2> SUFFICES ASSUME IInv, pass # "size"
                 PROVE  Len(buf) <= length /\ (pass = "done" => Len(buf) = length)
        BY DEF FillsArray
    <2>1. PICK n \in 1..Len(marks) : marks[n] = [place |-> place, written |-> Len(buf)]
        BY DEF IInv, Writing
    <2>2. Len(buf) <= length
        BY <2>1 DEF IInv, Marked, Writing
    <2>3. ASSUME pass = "done"
          PROVE  Len(buf) = length
        <3>1. AtEnd(place) /\ place \in Place /\ doc \in Seq(Events) /\ Len(marks) \in Nat
            BY <2>3 DEF IInv, Typed
        <3>2. \A b : ~Follows(marks[n], b)
            BY <2>1, <3>1, OneMove DEF Follows
        <3>3. n = Len(marks)
            BY <3>1, <3>2 DEF IInv, Marked
        <3> QED BY <2>1, <3>3 DEF IInv, Writing, LastMark
    <2> QED BY <2>2, <2>3
<1> QED BY <1>1, Invariant, PTL

-----------------------------------------------------------------------------
(***************************************************************************)
(* A number among other text: w stands in s from offset p on, and what     *)
(* follows it, if anything, separates values.                              *)
(***************************************************************************)
Separators == {Comma, RBracket, RBrace}

Separated(s, p) == p = Len(s) \/ ByteIn(s, p, Separators)

StandsIn(w, s, p) == /\ p + Len(w) <= Len(s)
                     /\ \A k \in 1..Len(w) : s[p + k] = w[k]
                     /\ Separated(s, p + Len(w))

\* The offsets of w as offsets of s: I is what J is there.
Moved(p, J) == {p + j : j \in J}

Same(w, p, I, J) == J \in SUBSET (0..Len(w)) /\ I = Moved(p, J)

LEMMA MovedUnion ==
    ASSUME NEW w, NEW p, NEW I, NEW J, Same(w, p, I, J), NEW K, NEW L, Same(w, p, K, L)
    PROVE  Same(w, p, I \cup K, J \cup L)
BY DEF Same, Moved

LEMMA MovedByte ==
    ASSUME NEW s \in Seq(Byte), NEW w \in Seq(Byte), NEW p \in Nat, StandsIn(w, s, p),
           NEW S, S \cap Separators = {}, NEW i \in 0..Len(w)
    PROVE  ByteIn(s, p + i, S) <=> ByteIn(w, i, S)
<1>1. CASE i < Len(w)
    <2>1. i + 1 \in 1..Len(w) /\ p + (i + 1) = (p + i) + 1 /\ p + i < Len(s)
        BY <1>1 DEF StandsIn
    <2>2. s[(p + i) + 1] = w[i + 1]
        BY <2>1 DEF StandsIn
    <2> QED BY <1>1, <2>1, <2>2 DEF ByteIn
<1>2. CASE i = Len(w)
    BY <1>2 DEF StandsIn, Separated, ByteIn
<1> QED BY <1>1, <1>2

LEMMA MovedClass ==
    ASSUME NEW s \in Seq(Byte), NEW w \in Seq(Byte), NEW p \in Nat, StandsIn(w, s, p),
           NEW S, S \cap Separators = {}, NEW I, NEW J, Same(w, p, I, J)
    PROVE  Same(w, p, Class(s, I, S), Class(w, J, S))
<1>1. J \in SUBSET (0..Len(w)) /\ I = Moved(p, J)
    BY DEF Same
<1>2. Class(w, J, S) \in SUBSET (0..Len(w))
    BY <1>1, ClassFacts
<1>3. \A i \in J : ByteIn(s, p + i, S) <=> ByteIn(w, i, S)
    BY <1>1, MovedByte
<1>4. ASSUME NEW e PROVE e \in Class(s, I, S) <=> e \in Moved(p, Class(w, J, S))
    <2>1. e \in Class(s, I, S) <=> \E i \in J : e = (p + i) + 1 /\ ByteIn(s, p + i, S)
        BY <1>1 DEF Class, Moved
    <2>2. e \in Moved(p, Class(w, J, S)) <=> \E i \in J : e = p + (i + 1) /\ ByteIn(w, i, S)
        BY DEF Class, Moved
    <2>3. \A i \in J : (p + i) + 1 = p + (i + 1)
        BY <1>1
    <2> QED BY <1>3, <2>1, <2>2, <2>3
<1> QED BY <1>2, <1>4 DEF Same

\* A run of bytes does not reach beyond w.
LEMMA RunInside ==
    ASSUME NEW s \in Seq(Byte), NEW w \in Seq(Byte), NEW p \in Nat, StandsIn(w, s, p),
           NEW S, S \cap Separators = {}, NEW i \in 0..Len(w), NEW e, Spans(s, p + i, e, S)
    PROVE  \E f \in i..Len(w) : e = p + f
<1>1. e \in 0..Len(s) /\ p + i <= e /\ \A k \in (p + i)..(e - 1) : s[k + 1] \in S
    BY DEF Spans
<1>2. ASSUME p + Len(w) < e PROVE FALSE
    <2>1. p + Len(w) \in (p + i)..(e - 1) /\ p + Len(w) < Len(s)
        BY <1>1, <1>2
    <2>2. ByteIn(s, p + Len(w), S)
        BY <1>1, <2>1 DEF ByteIn
    <2>3. ByteIn(w, Len(w), S)
        BY <2>2, MovedByte
    <2> QED BY <2>3 DEF ByteIn
<1>3. e - p \in i..Len(w) /\ e = p + (e - p)
    BY <1>1, <1>2
<1> QED BY <1>3

LEMMA MovedSpans ==
    ASSUME NEW s \in Seq(Byte), NEW w \in Seq(Byte), NEW p \in Nat, StandsIn(w, s, p),
           NEW S, NEW i \in 0..Len(w), NEW f \in 0..Len(w)
    PROVE  Spans(s, p + i, p + f, S) <=> Spans(w, i, f, S)
<1>1. p + f \in 0..Len(s) /\ (p + i <= p + f <=> i <= f)
    BY DEF StandsIn
<1>2. ASSUME NEW k \in i..(f - 1) PROVE s[(p + k) + 1] = w[k + 1]
    <2>1. k + 1 \in 1..Len(w) /\ p + (k + 1) = (p + k) + 1
        OBVIOUS
    <2> QED BY <2>1 DEF StandsIn
<1>3. ASSUME Spans(s, p + i, p + f, S) PROVE Spans(w, i, f, S)
    <2>1. \A k \in i..(f - 1) : p + k \in (p + i)..((p + f) - 1)
        OBVIOUS
    <2>2. \A k \in i..(f - 1) : s[(p + k) + 1] \in S
        BY <1>3, <2>1 DEF Spans
    <2>3. i <= f
        BY <1>1, <1>3 DEF Spans
    <2> QED BY <1>2, <2>2, <2>3 DEF Spans
<1>4. ASSUME Spans(w, i, f, S) PROVE Spans(s, p + i, p + f, S)
    <2>1. \A k \in (p + i)..((p + f) - 1) : k - p \in i..(f - 1) /\ p + (k - p) = k
        OBVIOUS
    <2>2. \A k \in i..(f - 1) : s[(p + k) + 1] \in S
        BY <1>2, <1>4 DEF Spans
    <2>3. \A k \in (p + i)..((p + f) - 1) : s[k + 1] \in S
        BY <2>1, <2>2
    <2>4. i <= f
        BY <1>4 DEF Spans
    <2> QED BY <1>1, <2>3, <2>4 DEF Spans
<1> QED BY <1>3, <1>4

LEMMA MovedSome ==
    ASSUME NEW s \in Seq(Byte), NEW w \in Seq(Byte), NEW p \in Nat, StandsIn(w, s, p),
           NEW S, S \cap Separators = {}, NEW I, NEW J, Same(w, p, I, J)
    PROVE  Same(w, p, Some(s, I, S), Some(w, J, S))
<1>1. J \in SUBSET (0..Len(w)) /\ I = Moved(p, J)
    BY DEF Same
<1>2. I \in SUBSET (0..Len(s))
    BY <1>1 DEF Moved, StandsIn
<1>3. Some(w, J, S) \in SUBSET (0..Len(w))
    BY <1>1, SomeFacts
<1>4. ASSUME NEW e \in Some(s, I, S) PROVE e \in Moved(p, Some(w, J, S))
    <2>1. PICK x \in I : x < e /\ Spans(s, x, e, S)
        BY <1>2, SomeFacts
    <2>2. PICK i \in J : x = p + i
        BY <1>1 DEF Moved
    <2>3. i \in 0..Len(w) /\ Spans(s, p + i, e, S)
        BY <1>1, <2>1, <2>2
    <2>4. PICK f \in i..Len(w) : e = p + f
        BY <2>3, RunInside
    <2>5. f \in 0..Len(w) /\ i < f
        BY <2>1, <2>2, <2>3, <2>4
    <2>6. Spans(w, i, f, S)
        BY <2>3, <2>4, <2>5, MovedSpans
    <2>7. f \in Some(w, J, S)
        BY <1>1, <2>5, <2>6, SomeFacts
    <2> QED BY <2>4, <2>7 DEF Moved
<1>5. ASSUME NEW e \in Moved(p, Some(w, J, S)) PROVE e \in Some(s, I, S)
    <2>1. PICK f \in Some(w, J, S) : e = p + f
        BY DEF Moved
    <2>2. PICK i \in J : i < f /\ Spans(w, i, f, S)
        BY <1>1, SomeFacts
    <2>3. i \in 0..Len(w) /\ f \in 0..Len(w)
        BY <1>1, <1>3
    <2>4. Spans(s, p + i, p + f, S)
        BY <2>2, <2>3, MovedSpans
    <2>5. p + i \in I /\ p + i < p + f
        BY <1>1, <2>2, <2>3 DEF Moved
    <2> QED BY <1>2, <2>1, <2>4, <2>5, SomeFacts
<1> QED BY <1>3, <1>4, <1>5 DEF Same

LEMMA MovedMany ==
    ASSUME NEW s \in Seq(Byte), NEW w \in Seq(Byte), NEW p \in Nat, StandsIn(w, s, p),
           NEW S, S \cap Separators = {}, NEW I, NEW J, Same(w, p, I, J)
    PROVE  Same(w, p, Many(s, I, S), Many(w, J, S))
BY MovedSome, MovedUnion DEF Many

LEMMA MovedOccurs ==
    ASSUME NEW s \in Seq(Byte), NEW w \in Seq(Byte), NEW p \in Nat, StandsIn(w, s, p),
           NEW v \in Seq(Byte), \A k \in 1..Len(v) : v[k] \notin Separators,
           NEW i \in 0..Len(w)
    PROVE  OccursAt(s, p + i, v) <=> OccursAt(w, i, v)
<1>1. i \in Nat /\ Len(v) \in Nat /\ Len(w) \in Nat
    OBVIOUS
<1>2. ASSUME i + Len(v) <= Len(w)
      PROVE  OccursAt(s, p + i, v) <=> OccursAt(w, i, v)
    <2>1. \A k \in 1..Len(v) : i + k \in 1..Len(w) /\ p + (i + k) = (p + i) + k
        BY <1>1, <1>2
    <2>2. \A k \in 1..Len(v) : s[(p + i) + k] = w[i + k]
        BY <2>1 DEF StandsIn
    <2>3. (p + i) + Len(v) <= Len(s)
        BY <1>1, <1>2 DEF StandsIn
    <2> QED BY <1>2, <2>2, <2>3 DEF OccursAt
<1>3. ASSUME Len(w) < i + Len(v), OccursAt(s, p + i, v) PROVE FALSE
    <2>1. PICK k \in 1..Len(v) : k = (Len(w) + 1) - i
        <3>1. i <= Len(w)
            OBVIOUS
        <3>2. (Len(w) + 1) - i \in 1..Len(v)
            BY <1>1, <1>3, <3>1
        <3> QED BY <3>2
    <2>2. (p + i) + k = (p + Len(w)) + 1
        BY <1>1, <2>1
    <2>3. (p + i) + Len(v) <= Len(s) /\ s[(p + i) + k] = v[k]
        BY <1>3 DEF OccursAt
    <2>4. p + Len(w) < Len(s)
        BY <1>1, <2>1, <2>3
    <2>5. s[(p + Len(w)) + 1] \notin Separators
        BY <2>2, <2>3
    <2> QED BY <2>4, <2>5 DEF StandsIn, Separated, ByteIn
<1>4. OccursAt(w, i, v) => i + Len(v) <= Len(w)
    BY DEF OccursAt
<1> QED BY <1>1, <1>2, <1>3, <1>4

LEMMA MovedWord ==
    ASSUME NEW s \in Seq(Byte), NEW w \in Seq(Byte), NEW p \in Nat, StandsIn(w, s, p),
           NEW v \in Seq(Byte), \A k \in 1..Len(v) : v[k] \notin Separators,
           NEW I, NEW J, Same(w, p, I, J)
    PROVE  Same(w, p, Word(s, I, v), Word(w, J, v))
<1>1. J \in SUBSET (0..Len(w)) /\ I = Moved(p, J)
    BY DEF Same
<1>2. Word(w, J, v) \in SUBSET (0..Len(w))
    BY <1>1, WordFacts
<1>3. \A i \in J : OccursAt(s, p + i, v) <=> OccursAt(w, i, v)
    BY <1>1, MovedOccurs
<1>4. ASSUME NEW e PROVE e \in Word(s, I, v) <=> e \in Moved(p, Word(w, J, v))
    <2>1. e \in Word(s, I, v) <=> \E i \in J : e = (p + i) + Len(v) /\ OccursAt(s, p + i, v)
        BY <1>1 DEF Word, Moved
    <2>2. e \in Moved(p, Word(w, J, v)) <=> \E i \in J : e = p + (i + Len(v)) /\ OccursAt(w, i, v)
        BY DEF Word, Moved
    <2>3. \A i \in J : (p + i) + Len(v) = p + (i + Len(v))
        BY <1>1
    <2> QED BY <1>3, <2>1, <2>2, <2>3
<1> QED BY <1>2, <1>4 DEF Same

LEMMA MovedSign ==
    ASSUME NEW s \in Seq(Byte), NEW w \in Seq(Byte), NEW p \in Nat, StandsIn(w, s, p),
           NEW I, NEW J, Same(w, p, I, J)
    PROVE  Same(w, p, Signed(s, I), Signed(w, J))
<1>1. PICK S : S = {Plus, Minus}
    OBVIOUS
<1>2. S \cap Separators = {}
    BY <1>1 DEF Separators, Plus, Minus, Comma, RBracket, RBrace
<1>3. Same(w, p, Class(s, I, S), Class(w, J, S))
    BY <1>2, MovedClass
<1>4. Same(w, p, I \cup Class(s, I, S), J \cup Class(w, J, S))
    BY <1>3, MovedUnion
<1> QED BY <1>1, <1>4 DEF Signed

\* None of the bytes of a number separates values.
LEMMA NumberBytes ==
    /\ \A S \in {{Zero}, 49..57, Digit, {Dot}, {69, 101}, {88, 120}, HexDigit} :
          S \cap Separators = {}
    /\ \A k \in 1..Len(WordInfinity) : WordInfinity[k] \notin Separators
    /\ \A k \in 1..Len(WordNaN) : WordNaN[k] \notin Separators
<1>1. Separators = {44, 93, 125}
    BY DEF Separators, Comma, RBracket, RBrace
<1>2. \A S \in {{Zero}, 49..57, Digit, {Dot}, {69, 101}, {88, 120}, HexDigit} :
         S \cap Separators = {}
    BY <1>1 DEF Zero, Digit, HexDigit, Dot
<1>3. \A k \in 1..Len(WordInfinity) : WordInfinity[k] \notin Separators
    <2>1. \A k \in 1..8 : WordInfinity[k] \in {73, 110, 102, 105, 116, 121}
        BY DEF WordInfinity
    <2>2. \A b \in {73, 110, 102, 105, 116, 121} : b \notin Separators
        BY <1>1
    <2>3. Len(WordInfinity) = 8
        BY NumberWords
    <2> QED BY <2>1, <2>2, <2>3
<1>4. \A k \in 1..Len(WordNaN) : WordNaN[k] \notin Separators
    <2>1. \A k \in 1..3 : WordNaN[k] \in {78, 97}
        BY DEF WordNaN
    <2>2. \A b \in {78, 97} : b \notin Separators
        BY <1>1
    <2>3. Len(WordNaN) = 3
        BY NumberWords
    <2> QED BY <2>1, <2>2, <2>3
<1> QED BY <1>2, <1>3, <1>4

\* NUMBER matches the same in w alone and where it stands.
LEMMA MovedNumber ==
    ASSUME NEW s \in Seq(Byte), NEW w \in Seq(Byte), NEW p \in Nat, StandsIn(w, s, p)
    PROVE  Same(w, p, NumberEnds(s, p), NumberEnds(w, 0))
<1> DEFINE At(I, J) == Same(w, p, I, J)
<1>1. PICK zero, one, digit, dot, e, x, hex :
         /\ zero = {Zero} /\ one = 49..57 /\ digit = Digit /\ dot = {Dot}
         /\ e = {69, 101} /\ x = {88, 120} /\ hex = HexDigit
    OBVIOUS
<1>2. PICK Free : Free = {S \in {zero, one, digit, dot, e, x, hex} : S \cap Separators = {}}
    OBVIOUS
<1>3. /\ zero \in Free /\ one \in Free /\ digit \in Free /\ dot \in Free
      /\ e \in Free /\ x \in Free /\ hex \in Free
    BY <1>1, <1>2, NumberBytes
<1>4. /\ \A I, J : At(I, J) => At(Signed(s, I), Signed(w, J))
      /\ \A S \in Free : \A I, J : At(I, J) => /\ At(Class(s, I, S), Class(w, J, S))
                                               /\ At(Some(s, I, S), Some(w, J, S))
                                               /\ At(Many(s, I, S), Many(w, J, S))
      /\ \A I, J : At(I, J) => /\ At(Word(s, I, WordInfinity), Word(w, J, WordInfinity))
                               /\ At(Word(s, I, WordNaN), Word(w, J, WordNaN))
    <2>1. ASSUME NEW I, NEW J, At(I, J) PROVE At(Signed(s, I), Signed(w, J))
        BY <2>1, MovedSign
    <2>2. ASSUME NEW S \in Free, NEW I, NEW J, At(I, J)
          PROVE  /\ At(Class(s, I, S), Class(w, J, S))
                 /\ At(Some(s, I, S), Some(w, J, S))
                 /\ At(Many(s, I, S), Many(w, J, S))
        <3>1. S \cap Separators = {}
            BY <1>2
        <3> QED BY <2>2, <3>1, MovedClass, MovedSome, MovedMany
    <2>3. ASSUME NEW I, NEW J, At(I, J)
          PROVE  /\ At(Word(s, I, WordInfinity), Word(w, J, WordInfinity))
                 /\ At(Word(s, I, WordNaN), Word(w, J, WordNaN))
        BY <2>3, MovedWord, NumberBytes, NumberWords
    <2> QED BY <2>1, <2>2, <2>3
<1>5. At({p}, {0})
    BY DEF Same, Moved
<1>6. \A I, J, K, L : At(I, J) /\ At(K, L) => At(I \cup K, J \cup L)
    BY MovedUnion
<1> HIDE DEF At
<1>7. At(Signed(s, {p}), Signed(w, {0}))
    BY <1>4, <1>5
<1>8. PICK sign, sign0 : sign = Signed(s, {p}) /\ sign0 = Signed(w, {0}) /\ At(sign, sign0)
    BY <1>7
<1>9. PICK z, z0 : z = Class(s, sign, zero) /\ z0 = Class(w, sign0, zero) /\ At(z, z0)
    BY <1>3, <1>4, <1>8
<1>10. PICK int, int0 : /\ int = z \cup Many(s, Class(s, sign, one), digit)
                        /\ int0 = z0 \cup Many(w, Class(w, sign0, one), digit)
                        /\ At(int, int0)
    <2>1. At(Class(s, sign, one), Class(w, sign0, one))
        BY <1>3, <1>4, <1>8
    <2>2. At(Many(s, Class(s, sign, one), digit), Many(w, Class(w, sign0, one), digit))
        BY <1>3, <1>4, <2>1
    <2>3. At(z \cup Many(s, Class(s, sign, one), digit), z0 \cup Many(w, Class(w, sign0, one), digit))
        BY <1>6, <1>9, <2>2
    <2> QED BY <2>3
<1>11. PICK dec, dec0 : /\ dec = int \cup Many(s, Class(s, int, dot), digit)
                                     \cup Some(s, Class(s, sign, dot), digit)
                        /\ dec0 = int0 \cup Many(w, Class(w, int0, dot), digit)
                                       \cup Some(w, Class(w, sign0, dot), digit)
                        /\ At(dec, dec0)
    <2>1. At(Class(s, int, dot), Class(w, int0, dot)) /\ At(Class(s, sign, dot), Class(w, sign0, dot))
        BY <1>3, <1>4, <1>8, <1>10
    <2>2. PICK f, f0 : /\ f = Many(s, Class(s, int, dot), digit)
                       /\ f0 = Many(w, Class(w, int0, dot), digit)
                       /\ At(f, f0)
        BY <1>3, <1>4, <2>1
    <2>3. PICK g, g0 : /\ g = Some(s, Class(s, sign, dot), digit)
                       /\ g0 = Some(w, Class(w, sign0, dot), digit)
                       /\ At(g, g0)
        BY <1>3, <1>4, <2>1
    <2>4. At((int \cup f) \cup g, (int0 \cup f0) \cup g0)
        BY <1>6, <1>10, <2>2, <2>3
    <2> QED BY <2>2, <2>3, <2>4
<1>12. PICK exp, exp0 : /\ exp = Signed(s, Class(s, dec, e)) /\ exp0 = Signed(w, Class(w, dec0, e))
                        /\ At(exp, exp0)
    BY <1>3, <1>4, <1>11
<1>13. PICK a, a0 : a = Some(s, exp, digit) /\ a0 = Some(w, exp0, digit) /\ At(a, a0)
    BY <1>3, <1>4, <1>12
<1>14. PICK b, b0 : /\ b = Some(s, Class(s, z, x), hex) /\ b0 = Some(w, Class(w, z0, x), hex)
                    /\ At(b, b0)
    BY <1>3, <1>4, <1>9
<1>15. PICK c, c0 : /\ c = Word(s, sign, WordInfinity) /\ c0 = Word(w, sign0, WordInfinity)
                    /\ At(c, c0)
    BY <1>4, <1>8
<1>16. PICK d, d0 : d = Word(s, sign, WordNaN) /\ d0 = Word(w, sign0, WordNaN) /\ At(d, d0)
    BY <1>4, <1>8
<1>17. /\ NumberEnds(s, p) = dec \cup a \cup b \cup c \cup d
       /\ NumberEnds(w, 0) = dec0 \cup a0 \cup b0 \cup c0 \cup d0
    <2>1. NumberEnds(s, p) = dec \cup a \cup b \cup c \cup d
        BY <1>1, <1>8, <1>9, <1>10, <1>11, <1>12, <1>13, <1>14, <1>15, <1>16 DEF NumberEnds
    <2>2. NumberEnds(w, 0) = dec0 \cup a0 \cup b0 \cup c0 \cup d0
        BY <1>1, <1>8, <1>9, <1>10, <1>11, <1>12, <1>13, <1>14, <1>15, <1>16 DEF NumberEnds
    <2> QED BY <2>1, <2>2
<1>18. At(dec \cup a \cup b \cup c \cup d, dec0 \cup a0 \cup b0 \cup c0 \cup d0)
    BY <1>6, <1>11, <1>13, <1>14, <1>15, <1>16
<1> QED BY <1>17, <1>18 DEF At

-----------------------------------------------------------------------------
(***************************************************************************)
(* Text that goes on.                                                      *)
(***************************************************************************)
Extends(s, text) == s \in Seq(Byte) /\ Len(text) <= Len(s) /\ \A k \in 1..Len(text) : s[k] = text[k]

LEMMA ExtendsFurther ==
    ASSUME NEW text \in Seq(Byte), NEW more \in Seq(Byte), NEW s, Extends(s, text \o more)
    PROVE  /\ s \in Seq(Byte) /\ Extends(s, text)
           /\ Len(text \o more) = Len(text) + Len(more)
           /\ OccursAt(s, Len(text), more)
<1>1. /\ Len(text \o more) = Len(text) + Len(more) /\ Len(text) \in Nat /\ Len(more) \in Nat
      /\ \A k \in 1..Len(text) : (text \o more)[k] = text[k]
      /\ \A k \in 1..Len(more) : (text \o more)[Len(text) + k] = more[k]
    OBVIOUS
<1>2. /\ s \in Seq(Byte) /\ Len(s) \in Nat /\ Len(text) + Len(more) <= Len(s)
      /\ \A k \in 1..(Len(text) + Len(more)) : s[k] = (text \o more)[k]
    BY <1>1 DEF Extends
<1>3. \A k \in 1..Len(text) : k \in 1..(Len(text) + Len(more))
    BY <1>1
<1>4. \A k \in 1..Len(more) : Len(text) + k \in 1..(Len(text) + Len(more))
    BY <1>1
<1>5. Extends(s, text)
    BY <1>1, <1>2, <1>3 DEF Extends
<1>6. OccursAt(s, Len(text), more)
    BY <1>1, <1>2, <1>4 DEF OccursAt
<1> QED BY <1>1, <1>2, <1>5, <1>6

LEMMA OccursParts ==
    ASSUME NEW s \in Seq(Byte), NEW p \in Nat, NEW v \in Seq(Byte), NEW w \in Seq(Byte),
           OccursAt(s, p, v \o w)
    PROVE  OccursAt(s, p, v) /\ OccursAt(s, p + Len(v), w)
<1>1. /\ Len(v \o w) = Len(v) + Len(w) /\ Len(v) \in Nat /\ Len(w) \in Nat
      /\ \A k \in 1..Len(v) : (v \o w)[k] = v[k]
      /\ \A k \in 1..Len(w) : (v \o w)[Len(v) + k] = w[k]
    OBVIOUS
<1>2. /\ p + (Len(v) + Len(w)) <= Len(s) /\ Len(s) \in Nat
      /\ \A k \in 1..(Len(v) + Len(w)) : s[p + k] = (v \o w)[k]
    BY <1>1 DEF OccursAt
<1>3. \A k \in 1..Len(v) : k \in 1..(Len(v) + Len(w))
    BY <1>1
<1>4. \A k \in 1..Len(w) : /\ Len(v) + k \in 1..(Len(v) + Len(w))
                           /\ p + (Len(v) + k) = (p + Len(v)) + k
    BY <1>1
<1>5. OccursAt(s, p, v)
    BY <1>1, <1>2, <1>3 DEF OccursAt
<1>6. \A k \in 1..Len(w) : s[(p + Len(v)) + k] = w[k]
    BY <1>1, <1>2, <1>4
<1>7. OccursAt(s, p + Len(v), w)
    BY <1>1, <1>2, <1>6 DEF OccursAt
<1> QED BY <1>5, <1>7

LEMMA OccursByte ==
    ASSUME NEW s \in Seq(Byte), NEW p \in Nat, NEW b, OccursAt(s, p, <<b>>)
    PROVE  ByteIn(s, p, {b}) /\ p < Len(s) /\ s[p + 1] = b
BY DEF OccursAt, ByteIn

-----------------------------------------------------------------------------
(***************************************************************************)
(* Escapes.                                                                *)
(***************************************************************************)
LEMMA DigitValue ==
    /\ \A h \in 48..57 : HexVal(h) = h - 48
    /\ \A h \in 97..102 : HexVal(h) = h - 87
<1>1. /\ \A h \in 48..57 : h \notin 97..102 /\ h \notin 65..70
      /\ \A h \in 97..102 : h \notin 48..57 /\ h \notin 65..70
    OBVIOUS
<1>2. ASSUME NEW h, h \in 48..57, h \notin 97..102, h \notin 65..70 PROVE HexVal(h) = h - 48
    BY <1>2 DEF HexVal, Digit
<1>3. ASSUME NEW h, h \in 97..102, h \notin 48..57, h \notin 65..70 PROVE HexVal(h) = h - 87
    BY <1>3 DEF HexVal, Digit
<1> QED BY <1>1, <1>2, <1>3

LEMMA DigitWritten ==
    ASSUME NEW n \in 0..15
    PROVE  HexByte(n) \in HexDigit /\ HexVal(HexByte(n)) = n
<1>1. CASE n < 10
    <2>1. PICK h \in 48..57 : h = 48 + n /\ h - 48 = n
        BY <1>1
    <2>2. HexByte(n) = h
        BY <1>1, <2>1 DEF HexByte
    <2>3. HexVal(h) = n
        BY <2>1, DigitValue
    <2> QED BY <2>2, <2>3 DEF HexDigit, Digit
<1>2. CASE ~(n < 10)
    <2>1. PICK h \in 97..102 : h = 87 + n /\ h - 87 = n
        BY <1>2
    <2>2. HexByte(n) = h
        BY <1>2, <2>1 DEF HexByte
    <2>3. HexVal(h) = n
        BY <2>1, DigitValue
    <2> QED BY <2>2, <2>3 DEF HexDigit
<1> QED BY <1>1, <1>2

LEMMA ControlByte ==
    ASSUME NEW c \in 0..31
    PROVE  c \notin HighSurrogate \cup LowSurrogate /\ Utf8(c) = <<c>>
<1>1. c < 128
    OBVIOUS
<1>2. c \notin HighSurrogate
    BY <1>1 DEF HighSurrogate
<1>3. c \notin LowSurrogate
    BY <1>1 DEF LowSurrogate
<1> QED BY <1>1, <1>2, <1>3 DEF Utf8

LEMMA NamedLetter ==
    ASSUME NEW c \in Named
    PROVE  Letter(c) \in {34, 92, 98, 102, 110, 114, 116} /\ SelfPiece(Letter(c)) = c
<1>1. c \in {34, 92, 8, 12, 10, 13, 9}
    BY DEF Named, Quote, BSlash, LF, CR
<1>2. /\ Letter(8) = 98 /\ Letter(12) = 102 /\ Letter(10) = 110 /\ Letter(13) = 114
      /\ Letter(9) = 116 /\ Letter(34) = 34 /\ Letter(92) = 92
    BY DEF Letter, LF, CR
<1>3. /\ SelfPiece(98) = 8 /\ SelfPiece(102) = 12 /\ SelfPiece(110) = 10 /\ SelfPiece(114) = 13
      /\ SelfPiece(116) = 9 /\ SelfPiece(34) = 34 /\ SelfPiece(92) = 92
    BY DEF SelfPiece
<1> QED BY <1>1, <1>2, <1>3

\* What write_escaped writes for c is decoded as c.
LEMMA EscapeRead ==
    ASSUME NEW s \in Seq(Byte), NEW p \in Nat, NEW x \in Nat, NEW bytes,
           StringSoFar(s, Quote, p, x, bytes),
           NEW c \in Byte, NEW w, w = WriteEscaped(c), OccursAt(s, x, w),
           NEW y, y = x + Len(w), NEW all, all = bytes \o <<c>>
    PROVE  StringSoFar(s, Quote, p, y, all)
<1>0. Quote \in Quotes
    BY DEF Quotes
<1>1. CASE ~NeedsEscape(c)
    <2>1. w = <<c>>
        BY <1>1 DEF WriteEscaped
    <2>2. ByteIn(s, x, {c}) /\ s[x + 1] = c /\ y = x + 1
        BY <2>1, OccursByte
    <2>3. c \in Plain(Quote)
        BY <1>1 DEF NeedsEscape, Plain, LF, CR, Byte
    <2>4. ByteIn(s, x, Plain(Quote))
        BY <2>2, <2>3 DEF ByteIn
    <2> QED BY <1>0, <2>2, <2>4, StringPlain
<1>2. CASE NeedsEscape(c) /\ c \in Named
    <2>1. PICK e : e = Letter(c)
        OBVIOUS
    <2>2. w = <<BSlash, e>>
        BY <1>2, <2>1 DEF WriteEscaped
    <2>3. x + 2 <= Len(s) /\ s[x + 1] = BSlash /\ s[x + 2] = e /\ y = x + 2
        <3>1. Len(w) = 2 /\ w[1] = BSlash /\ w[2] = e
            BY <2>2
        <3>2. 1 \in 1..Len(w) /\ 2 \in 1..Len(w)
            BY <3>1
        <3> QED BY <3>1, <3>2 DEF OccursAt
    <2>4. e \in {34, 92, 98, 102, 110, 114, 116}
        BY <1>2, <2>1, NamedLetter
    <2>5. SelfPiece(e) = c
        BY <1>2, <2>1, NamedLetter
    <2>6. ByteIn(s, x, {BSlash}) /\ ByteIn(s, x + 1, SelfEscaped \ {LF, CR})
        <3>1. e \in SelfEscaped \ {LF, CR}
            BY <2>4 DEF SelfEscaped, Byte, LF, CR
        <3>2. (x + 1) + 1 = x + 2 /\ x < Len(s) /\ x + 1 < Len(s)
            BY <2>3
        <3> QED BY <2>3, <3>1, <3>2 DEF ByteIn
    <2>7. ~OccursAt(s, x + 1, LS) /\ ~OccursAt(s, x + 1, PS)
        <3>1. e # 226 /\ (x + 1) + 1 = x + 2
            BY <2>4
        <3>2. LS[1] = 226 /\ Len(LS) = 3 /\ PS[1] = 226 /\ Len(PS) = 3
            BY DEF LS, PS
        <3>3. 1 \in 1..Len(LS) /\ 1 \in 1..Len(PS)
            BY <3>2
        <3> QED BY <2>3, <3>1, <3>2, <3>3 DEF OccursAt
    <2>8. all = bytes \o <<SelfPiece(e)>>
        BY <2>5
    <2> QED BY <1>0, <2>3, <2>6, <2>7, <2>8, StringSelf
<1>3. CASE NeedsEscape(c) /\ c \notin Named
    <2>1. c \in 0..31
        BY <1>3 DEF NeedsEscape, Named, Byte
    <2>2. c \div 16 \in 0..1 /\ c % 16 \in 0..15 /\ c = 16 * (c \div 16) + (c % 16)
        BY <2>1
    <2>3. PICK h, l : h = HexByte(c \div 16) /\ l = HexByte(c % 16)
        OBVIOUS
    <2>4. /\ h \in HexDigit /\ l \in HexDigit /\ HexVal(h) = c \div 16 /\ HexVal(l) = c % 16
          /\ Zero \in HexDigit /\ HexVal(Zero) = 0
        <3>1. c \div 16 \in 0..15 /\ c % 16 \in 0..15
            BY <2>2
        <3>2. Zero \in HexDigit /\ HexVal(Zero) = 0
            BY DEF Zero, HexDigit, HexVal, Digit
        <3> QED BY <2>3, <3>1, <3>2, DigitWritten, ZenonT(60)
    <2>5. w = <<BSlash, 117, Zero, Zero, h, l>>
        BY <1>3, <2>3 DEF WriteEscaped
    <2>6. /\ x + 6 <= Len(s) /\ y = x + 6
          /\ s[x + 1] = BSlash /\ s[x + 2] = 117 /\ s[x + 3] = Zero /\ s[x + 4] = Zero
          /\ s[x + 5] = h /\ s[x + 6] = l
        <3>1. /\ Len(w) = 6 /\ w[1] = BSlash /\ w[2] = 117 /\ w[3] = Zero /\ w[4] = Zero
              /\ w[5] = h /\ w[6] = l
            BY <2>5
        <3>2. \A k \in 1..6 : s[x + k] = w[k]
            BY <3>1 DEF OccursAt
        <3> QED BY <3>1, <3>2 DEF OccursAt
    <2>7. OccursAt(s, x, UnicodeMark)
        <3>1. Len(UnicodeMark) = 2 /\ UnicodeMark[1] = BSlash /\ UnicodeMark[2] = 117
            BY DEF UnicodeMark
        <3> QED BY <2>6, <3>1 DEF OccursAt
    <2>8. HexRun(s, x + 2, 4)
        <3>1. \A k \in 1..4 : (x + 2) + k = x + (k + 2) /\ k \in {1, 2, 3, 4}
            OBVIOUS
        <3>2. \A k \in 1..4 : s[(x + 2) + k] \in HexDigit
            BY <2>4, <2>6, <3>1
        <3> QED BY <2>6, <3>2 DEF HexRun
    <2>9. Hex4(s, x + 2) = c
        <3>1. /\ (x + 2) + 1 = x + 3 /\ (x + 2) + 2 = x + 4
              /\ ((x + 2) + 2) + 1 = x + 5 /\ ((x + 2) + 2) + 2 = x + 6
            OBVIOUS
        <3>2. Hex2(s, x + 2) = 16 * HexVal(Zero) + HexVal(Zero)
            BY <2>6, <3>1 DEF Hex2
        <3>3. Hex2(s, (x + 2) + 2) = 16 * HexVal(h) + HexVal(l)
            BY <2>6, <3>1 DEF Hex2
        <3>4. Hex2(s, x + 2) = 0 /\ Hex2(s, (x + 2) + 2) = c
            BY <2>2, <2>4, <3>2, <3>3
        <3> QED BY <2>1, <3>4 DEF Hex4
    <2>10. c \notin HighSurrogate \cup LowSurrogate /\ Utf8(c) = <<c>>
        BY <2>1, ControlByte
    <2>11. all = bytes \o Utf8(c)
        BY <2>10
    <2>12. PICK unit : unit = Hex4(s, x + 2) /\ unit = c
        BY <2>9
    <2>13. /\ HexRun(s, x + 2, 4) /\ unit \notin HighSurrogate \cup LowSurrogate =>
                 StringSoFar(s, Quote, p, y, all)
        <3>1. y = x + 6 /\ all = bytes \o Utf8(unit)
            BY <2>6, <2>11, <2>12
        <3> QED BY <1>0, <2>7, <2>12, <3>1, StringFourDigits
    <2> QED BY <2>8, <2>10, <2>12, <2>13
<1> QED BY <1>1, <1>2, <1>3

-----------------------------------------------------------------------------
(***************************************************************************)
(* Where the grammar stands in a text, however deep.                       *)
(***************************************************************************)
Stands(s, p, phase, open, done) ==
    \E M \in Nat : Len(open) <= M /\ Where(s, M, p, phase, open, done)

LEMMA WhereDeeper ==
    ASSUME NEW s, NEW M \in Nat, NEW N \in Nat, M <= N, NEW p, NEW phase, NEW open, NEW done,
           Where(s, M, p, phase, open, done)
    PROVE  Where(s, N, p, phase, open, done)
<1>1. PICK d \in Nat : d <= M /\ Reached(s, St(p, phase, open, done, d))
    BY DEF Where
<1>2. d <= N
    BY <1>1
<1> QED BY <1>1, <1>2 DEF Where

LEMMA StandsType ==
    ASSUME NEW s, NEW p, NEW phase, NEW open, NEW done, Stands(s, p, phase, open, done)
    PROVE  p \in 0..Len(s) /\ phase \in Phases /\ open \in Seq(Nest)
BY DEF Stands, Where

LEMMA StandsStart ==
    ASSUME NEW s \in Seq(Byte)
    PROVE  Stands(s, 0, "value", <<>>, <<>>)
<1>1. Where(s, 0, 0, "value", <<>>, <<>>) /\ Len(<<>>) <= 0
    BY WhereStart
<1> QED BY <1>1 DEF Stands

LEMMA StandsOpens ==
    ASSUME NEW s \in Seq(Byte), NEW p, NEW phase \in ValuePhases, NEW open, NEW done,
           Stands(s, p, phase, open, done), NEW c \in Nest, ByteIn(s, p, {OpenByte(c)}),
           NEW e, e = p + 1
    PROVE  Stands(s, e, FirstPhase(c), Append(open, c), Append(done, OpenEvent(c)))
<1>1. PICK M \in Nat : Len(open) <= M /\ Where(s, M, p, phase, open, done)
    BY DEF Stands
<1>2. open \in Seq(Nest)
    BY StandsType
<1>3. Where(s, M, e, FirstPhase(c), Append(open, c), Append(done, OpenEvent(c)))
    BY <1>1, WhereOpens
<1>4. Where(s, M + 1, e, FirstPhase(c), Append(open, c), Append(done, OpenEvent(c)))
    <2>1. M <= M + 1 /\ M + 1 \in Nat
        OBVIOUS
    <2> QED BY <1>3, <2>1, WhereDeeper
<1>5. M + 1 \in Nat /\ Len(Append(open, c)) <= M + 1
    <2>1. Len(Append(open, c)) = Len(open) + 1 /\ Len(open) \in Nat
        BY <1>2
    <2> QED BY <1>1, <2>1
<1> QED BY <1>4, <1>5 DEF Stands

LEMMA StandsCloses ==
    ASSUME NEW s \in Seq(Byte), NEW p, NEW c \in Nest, NEW phase \in {c, FirstPhase(c)},
           NEW open, open # <<>>, NEW done, Stands(s, p, phase, open, done),
           ByteIn(s, p, {CloseByte(c)}), NEW e, e = p + 1,
           NEW open2, open2 = SubSeq(open, 1, Len(open) - 1)
    PROVE  Stands(s, e, Follow(open2), open2, Append(done, CloseEvent(c)))
<1>1. PICK M \in Nat : Len(open) <= M /\ Where(s, M, p, phase, open, done)
    BY DEF Stands
<1>2. open \in Seq(Nest)
    BY StandsType
<1>3. Where(s, M, e, Follow(open2), open2, Append(done, CloseEvent(c)))
    BY <1>1, WhereCloses
<1>4. Len(open2) <= M
    <2>1. PICK n \in Nat : n = Len(open) /\ n > 0
        BY <1>2
    <2>2. Len(open2) = n - 1
        BY <1>2, <2>1
    <2>3. n <= M /\ n - 1 <= n
        BY <1>1, <2>1
    <2> QED BY <2>2, <2>3
<1> QED BY <1>3, <1>4 DEF Stands

LEMMA StandsComma ==
    ASSUME NEW s \in Seq(Byte), NEW p, NEW c \in Nest, NEW open, NEW done,
           Stands(s, p, c, open, done), ByteIn(s, p, {Comma}), NEW e, e = p + 1
    PROVE  Stands(s, e, FirstPhase(c), open, done)
BY WhereComma DEF Stands

LEMMA StandsColon ==
    ASSUME NEW s \in Seq(Byte), NEW p, NEW open, NEW done,
           Stands(s, p, "colon", open, done), ByteIn(s, p, {Colon}), NEW e, e = p + 1
    PROVE  Stands(s, e, "value", open, done)
BY WhereColon DEF Stands

LEMMA StandsKey ==
    ASSUME NEW s \in Seq(Byte), NEW p, NEW open, NEW done, Stands(s, p, "pair", open, done),
           NEW x, NEW bytes, StringSoFar(s, Quote, p, x, bytes), ByteIn(s, x, {Quote}),
           NEW e, e = x + 1
    PROVE  Stands(s, e, "colon", open, Append(done, Ev("key", bytes)))
<1>1. Quote \in Quotes
    BY DEF Quotes
<1> QED BY <1>1, WhereKey DEF Stands

LEMMA StandsString ==
    ASSUME NEW s \in Seq(Byte), NEW p, NEW phase \in ValuePhases, NEW open, NEW done,
           Stands(s, p, phase, open, done),
           NEW x, NEW bytes, StringSoFar(s, Quote, p, x, bytes), ByteIn(s, x, {Quote}),
           NEW e, e = x + 1
    PROVE  Stands(s, e, Follow(open), open, Append(done, Ev("string", bytes)))
<1>1. Quote \in Quotes
    BY DEF Quotes
<1> QED BY <1>1, WhereString DEF Stands

LEMMA StandsWord ==
    ASSUME NEW s \in Seq(Byte), NEW p, NEW phase \in ValuePhases, NEW open, NEW done,
           Stands(s, p, phase, open, done), NEW t \in Words,
           NEW w, w = WordOf(t), OccursAt(s, p, w), NEW e, e = p + Len(w)
    PROVE  Stands(s, e, Follow(open), open, Append(done, Ev(t, <<>>)))
BY WhereWord DEF Stands

\* A number, if it is one on its own.
LEMMA StandsNumber ==
    ASSUME NEW s \in Seq(Byte), NEW p, NEW phase \in ValuePhases, NEW open, NEW done,
           Stands(s, p, phase, open, done),
           NEW w \in Seq(Byte), Len(w) \in NumberEnds(w, 0), OccursAt(s, p, w),
           NEW e, e = p + Len(w), Separated(s, e)
    PROVE  Stands(s, e, Follow(open), open, Append(done, Ev("number", w)))
<1>1. PICK M \in Nat : Len(open) <= M /\ Where(s, M, p, phase, open, done)
    BY DEF Stands
<1>2. p \in 0..Len(s) /\ p \in Nat /\ Len(w) \in Nat
    BY StandsType
<1>3. StandsIn(w, s, p)
    BY <1>2 DEF StandsIn, OccursAt
<1>4. PICK ends, ends0 : ends = NumberEnds(s, p) /\ ends0 = NumberEnds(w, 0)
    OBVIOUS
<1>5. ends0 \in SUBSET (0..Len(w)) /\ ends = Moved(p, ends0)
    BY <1>2, <1>3, <1>4, MovedNumber DEF Same
<1>6. e \in ends
    BY <1>4, <1>5 DEF Moved
<1>7. \A n \in ends : n <= e
    <2> SUFFICES ASSUME NEW n \in ends PROVE n <= e
        OBVIOUS
    <2>1. PICK j \in ends0 : n = p + j
        BY <1>5 DEF Moved
    <2>2. j \in 0..Len(w)
        BY <1>5
    <2> QED BY <1>2, <2>1, <2>2
<1>8. ByteIn(s, p, NumberFirst)
    BY <1>2, <1>4, <1>6, NumberStarts
<1>9. w = Slice(s, p, e)
    <2>1. Slice(s, p, e) = SubSeq(s, p + 1, e) /\ e <= Len(s) /\ e \in Nat
        BY <1>2, <1>3 DEF Slice, StandsIn
    <2>2. PICK v : v = SubSeq(s, p + 1, e)
        OBVIOUS
    <2>3. v \in Seq(Byte) /\ Len(v) = Len(w)
        <3>1. e - (p + 1) + 1 = Len(w)
            BY <1>2
        <3>2. \A k \in (p + 1)..e : k \in 1..Len(s)
            BY <1>2, <2>1
        <3> QED BY <1>2, <2>1, <2>2, <3>1, <3>2
    <2>4. \A k \in 1..Len(w) : v[k] = w[k]
        <3> SUFFICES ASSUME NEW k \in 1..Len(w) PROVE v[k] = w[k]
            OBVIOUS
        <3>1. v[k] = s[(p + 1) + k - 1] /\ (p + 1) + k - 1 = p + k
            BY <1>2, <2>1, <2>2, <2>3
        <3> QED BY <1>3, <3>1 DEF StandsIn
    <2>5. v = w
        BY <2>3, <2>4
    <2> QED BY <2>1, <2>2, <2>5
<1>10. Where(s, M, e, Follow(open), open, Append(done, Ev("number", w)))
    BY <1>1, <1>4, <1>6, <1>7, <1>8, <1>9, WhereDigits
<1> QED BY <1>1, <1>10 DEF Stands

-----------------------------------------------------------------------------
(***************************************************************************)
(* The containers around each event of a traversal.                        *)
(***************************************************************************)
ContainersNext(event, w) ==
    IF event.kind = "{" THEN Append(w, "object")
    ELSE IF event.kind = "[" THEN Append(w, "array")
    ELSE IF event.kind \in {"}", "]"} THEN SubSeq(w, 1, Len(w) - 1)
    ELSE w

LEMMA ContainersSteps ==
    ASSUME NEW d, Len(d) \in Nat
    PROVE  /\ Containers(d)[0] = <<>>
           /\ \A n \in 0..Len(d) : Containers(d)[n] \in Seq(Nest)
           /\ \A n \in 1..Len(d) : Containers(d)[n] = ContainersNext(d[n], Containers(d)[n - 1])
<1> DEFINE N == Len(d)
           V == Seq(Nest)
           Move == [n \in 1..N |-> [w \in V |-> ContainersNext(d[n], w)]]
           Computes(f) == f = [n \in 0..N |->
                                  IF n = 0 THEN <<>>
                                  ELSE IF d[n].kind = "{" THEN Append(f[n - 1], "object")
                                  ELSE IF d[n].kind = "[" THEN Append(f[n - 1], "array")
                                  ELSE IF d[n].kind \in {"}", "]"}
                                       THEN SubSeq(f[n - 1], 1, Len(f[n - 1]) - 1)
                                  ELSE f[n - 1]]
           around == CHOOSE f : Computes(f)
<1>1. N \in Nat /\ 0 \in 0..N /\ <<>> \in V
    OBVIOUS
<1>2. ASSUME NEW n \in 1..N, NEW w \in V PROVE ContainersNext(d[n], w) \in V
    <2>1. Append(w, "object") \in V /\ Append(w, "array") \in V
        BY DEF Nest
    <2>2. SubSeq(w, 1, Len(w) - 1) \in V
        <3>1. \A k \in 1..(Len(w) - 1) : w[k] \in Nest
            OBVIOUS
        <3> QED BY <3>1
    <2> HIDE DEF V
    <2> QED BY <2>1, <2>2 DEF ContainersNext
<1>3. Containers(d) = around
    BY DEF Containers
<1> HIDE DEF N, V
<1>4. Move \in [1..N -> [V -> V]]
    BY <1>2
<1>5. PICK h \in [0..N -> V] : Iterates(h, <<>>, Move, N)
    <2> HIDE DEF Move
    <2> QED BY <1>1, <1>4, Recursion
<1>6. h[0] = <<>> /\ \A n \in 1..N : h[n] = ContainersNext(d[n], h[n - 1])
    <2>1. \A n \in 1..N : n - 1 \in 0..N
        BY <1>1
    <2> QED BY <1>5, <2>1 DEF Iterates
<1>7. Computes(h)
    <2>1. h = [n \in 0..N |-> IF n = 0 THEN <<>> ELSE ContainersNext(d[n], h[n - 1])]
        <3>1. \A n \in 0..N : n # 0 => n \in 1..N
            BY <1>1
        <3> QED BY <1>5, <1>6, <3>1
    <2> QED BY <2>1 DEF ContainersNext
<1>8. Computes(around)
    BY <1>7
<1>9. around[0] = <<>> /\ \A n \in 1..N : around[n] = ContainersNext(d[n], around[n - 1])
    <2> HIDE DEF around
    <2>1. around = [n \in 0..N |-> IF n = 0 THEN <<>> ELSE ContainersNext(d[n], around[n - 1])]
        BY <1>8 DEF ContainersNext
    <2>2. \A n \in 1..N : n \in 0..N /\ n # 0
        BY <1>1
    <2> QED BY <1>1, <2>1, <2>2
<1> DEFINE T == {n \in 0..N : around[n] \in V}
<1> HIDE DEF around
<1>10. 0 \in T
    BY <1>1, <1>9
<1>11. ASSUME NEW n \in 1..N, n - 1 \in T PROVE n \in T
    BY <1>2, <1>9, <1>11
<1>12. 0..N \subseteq T
    <2> HIDE DEF T
    <2> QED BY <1>1, <1>10, <1>11, BoundedInduction
<1> QED BY <1>3, <1>9, <1>12 DEF N, V

\* Event e ends a container, or begins one.  (The names of such events are kept out
\* of arithmetic, for the provers' sake.)
Closes(e) == e.kind \in {"}", "]"}
Begins(e) == e.kind \in {"{", "["}

\* Event n of d begins a container.
Opened(d, n) == n > 0 /\ Begins(d[n])

\* What the grammar expects behind the first n events of d, before a comma.
PhaseAt(d, n) ==
    IF n = 0 \/ AfterKey(d, n) THEN "value"
    ELSE IF Opened(d, n) THEN FirstPhase(Follow(Containers(d)[n]))
    ELSE Follow(Containers(d)[n])

\* The phase in which event e is read.
ReadIn(e, phase) == IF e.kind = "key" THEN phase = "pair" ELSE phase \in ValuePhases

LEMMA CountFacts == \A n \in Nat : (n = 0 \/ n > 0) /\ n + 1 # 0 /\ n + 1 > 0 /\ ~(0 > 0)
OBVIOUS

LEMMA FollowNone == Follow(<<>>) = "nothing"
BY DEF Follow

LEMMA FollowLast ==
    ASSUME NEW w \in Seq(Nest), w # <<>>
    PROVE  Follow(w) \in Nest /\ Follow(w) = w[Len(w)]
<1>1. Len(w) \in 1..Len(w)
    OBVIOUS
<1>2. w[Len(w)] \in Nest
    BY <1>1
<1>3. Follow(w) = w[Len(w)]
    BY DEF Follow
<1> QED BY <1>2, <1>3

LEMMA FollowAppend ==
    ASSUME NEW w \in Seq(Nest), NEW c \in Nest, NEW v, v = Append(w, c)
    PROVE  Follow(v) = c /\ v # <<>>
<1>1. Len(v) = Len(w) + 1 /\ v[Len(w) + 1] = c /\ v # <<>>
    OBVIOUS
<1> QED BY <1>1 DEF Follow

LEMMA EventIndex == \A d \in Seq(Events) : \A n \in Nat :
    n < Len(d) => n \in 0..Len(d) /\ n + 1 \in 1..Len(d) /\ (n + 1) - 1 = n
OBVIOUS

\* Event e = d[n + 1] of a traversal, and what may be said of those before it.
EventAt(d, n, e, w) ==
    /\ e \in Events /\ Spelled(e) /\ e = Ev(e.kind, e.bytes) /\ e.bytes \in Seq(Byte)
    /\ w \in Seq(Nest)
    /\ n > 0 => w # <<>>
    /\ n = 0 => w = <<>>
    /\ e.kind = "]" => Follow(w) = "array"
    /\ e.kind \in {"}", "key"} => Follow(w) = "object" /\ ~AfterKey(d, n)
    /\ e.kind \notin {"}", "]", "key"} => (Follow(w) = "object" <=> AfterKey(d, n))
    /\ Containers(d)[n + 1] = ContainersNext(e, w)

LEMMA EventFacts ==
    ASSUME NEW d \in Seq(Events), Traversal(d), NEW n \in Nat, n < Len(d),
           NEW e, e = d[n + 1], NEW w, w = Containers(d)[n]
    PROVE  EventAt(d, n, e, w)
<1>1. Len(d) \in Nat
    OBVIOUS
<1>2. n \in 0..Len(d) /\ n + 1 \in 1..Len(d) /\ (n + 1) - 1 = n
    BY EventIndex
<1>3. e \in Events
    BY <1>2
<1>4. e = Ev(e.kind, e.bytes) /\ e.bytes \in Seq(Byte)
    BY <1>3 DEF Events, Ev
<1>5. Spelled(e) /\ MayStand(d, n, w)
    BY <1>2 DEF Traversal
<1>6. w \in Seq(Nest) /\ (n = 0 => w = <<>>) /\ Containers(d)[n + 1] = ContainersNext(e, w)
    BY <1>1, <1>2, ContainersSteps
<1> QED BY <1>2, <1>3, <1>4, <1>5, <1>6 DEF MayStand, EventAt

LEMMA AfterKeyInObject ==
    ASSUME NEW d \in Seq(Events), Traversal(d), NEW n \in 0..Len(d), AfterKey(d, n)
    PROVE  Follow(Containers(d)[n]) = "object"
<1>1. n > 0 /\ d[n].kind = "key"
    BY DEF AfterKey
<1>2. PICK m \in Nat : m + 1 = n /\ m < Len(d)
    <2>1. n - 1 \in Nat /\ (n - 1) + 1 = n /\ n - 1 < Len(d)
        BY <1>1
    <2> QED BY <2>1
<1>3. PICK e, w : e = d[m + 1] /\ w = Containers(d)[m]
    OBVIOUS
<1>4. Follow(w) = "object" /\ Containers(d)[m + 1] = ContainersNext(e, w)
    <2>1. EventAt(d, m, e, w) /\ e.kind = "key"
        BY <1>1, <1>2, <1>3, EventFacts
    <2> QED BY <2>1 DEF EventAt
<1>5. ContainersNext(e, w) = w
    BY <1>1, <1>2, <1>3 DEF ContainersNext
<1> QED BY <1>2, <1>4, <1>5

\* A comma is expected where the event is not the first of its container, nor the
\* value of a member.
LEMMA PhaseBefore ==
    ASSUME NEW d \in Seq(Events), Traversal(d), NEW n \in Nat, n < Len(d),
           NEW e, e = d[n + 1], ~Closes(e), NEW w, w = Containers(d)[n],
           NEW phase, phase = PhaseAt(d, n)
    PROVE  /\ phase # "nothing"
           /\ phase \in Nest => /\ n > 0 /\ ~Opened(d, n) /\ phase = Follow(w)
                                /\ ReadIn(e, FirstPhase(phase))
                                /\ phase = "object" => e.kind = "key"
           /\ phase \notin Nest => /\ ReadIn(e, phase)
                                   /\ Opened(d, n) \/ n = 0
                                        \/ (Follow(w) = "object" /\ e.kind # "key")
<1>1. /\ w \in Seq(Nest) /\ (n > 0 => w # <<>>) /\ (n = 0 => w = <<>>)
      /\ e.kind = "key" => Follow(w) = "object" /\ ~AfterKey(d, n)
      /\ e.kind # "key" => (Follow(w) = "object" <=> AfterKey(d, n))
    <2>1. EventAt(d, n, e, w)
        BY EventFacts
    <2> QED BY <2>1 DEF EventAt, Closes
<1>2. /\ n = 0 => Follow(w) = "nothing"
      /\ n > 0 => Follow(w) \in {"object", "array"}
    BY <1>1, FollowNone, FollowLast DEF Nest
<1>7. n = 0 \/ n > 0
    BY CountFacts
<1>3. CASE n = 0
    <2>1. phase = "value" /\ e.kind # "key"
        BY <1>1, <1>2, <1>3 DEF PhaseAt
    <2> QED BY <1>3, <2>1 DEF Nest, ReadIn, ValuePhases
<1>4. CASE AfterKey(d, n)
    <2>1. phase = "value" /\ e.kind # "key" /\ Follow(w) = "object"
        BY <1>1, <1>4 DEF PhaseAt
    <2> QED BY <2>1 DEF Nest, ReadIn, ValuePhases
<1>5. CASE n > 0 /\ ~AfterKey(d, n) /\ Opened(d, n)
    <2>1. phase = FirstPhase(Follow(w)) /\ (e.kind = "key" <=> Follow(w) = "object")
        BY <1>1, <1>5 DEF PhaseAt
    <2> QED BY <1>2, <1>5, <2>1 DEF Nest, ReadIn, ValuePhases, FirstPhase
<1>6. CASE n > 0 /\ ~AfterKey(d, n) /\ ~Opened(d, n)
    <2>1. phase = Follow(w) /\ (e.kind = "key" <=> Follow(w) = "object")
        BY <1>1, <1>6 DEF PhaseAt
    <2> QED BY <1>2, <1>6, <2>1 DEF Nest, ReadIn, ValuePhases, FirstPhase
<1> QED BY <1>3, <1>7, <1>4, <1>5, <1>6

\* A closing bracket stands behind the first or a later element of its container.
ClosedAt(d, n, e, w) ==
    /\ n > 0 /\ w \in Seq(Nest) /\ w # <<>> /\ Follow(w) \in Nest
    /\ e = CloseEvent(Follow(w))
    /\ PhaseAt(d, n) \in {Follow(w), FirstPhase(Follow(w))}
    /\ Containers(d)[n + 1] = SubSeq(w, 1, Len(w) - 1)
    /\ PhaseAt(d, n + 1) = Follow(Containers(d)[n + 1])
    /\ ~Opened(d, n + 1)

LEMMA PhaseClosing ==
    ASSUME NEW d \in Seq(Events), Traversal(d), NEW n \in Nat, n < Len(d),
           NEW e, e = d[n + 1], Closes(e), NEW w, w = Containers(d)[n]
    PROVE  ClosedAt(d, n, e, w)
<1>1. /\ w \in Seq(Nest) /\ (n > 0 => w # <<>>) /\ (n = 0 => w = <<>>)
      /\ e = Ev(e.kind, e.bytes) /\ Spelled(e)
      /\ e.kind = "]" => Follow(w) = "array"
      /\ e.kind = "}" => Follow(w) = "object" /\ ~AfterKey(d, n)
      /\ Containers(d)[n + 1] = ContainersNext(e, w)
    <2>1. EventAt(d, n, e, w)
        BY EventFacts
    <2> QED BY <2>1 DEF EventAt
<1>0. n \in 0..Len(d) /\ (n = 0 \/ n > 0)
    BY CountFacts, EventIndex
<1>2. Follow(w) \in Nest
    BY <1>1 DEF Nest, Closes
<1>3. w # <<>> /\ n > 0
    <2>1. "nothing" \notin Nest
        BY DEF Nest
    <2>2. w # <<>>
        BY <1>1, <1>2, <2>1, FollowNone, FollowLast
    <2> QED BY <1>0, <1>1, <2>2
<1>4. e = CloseEvent(Follow(w))
    <2>1. e.bytes = <<>>
        BY <1>1 DEF Spelled, Closes
    <2>2. e.kind = CloseToken(Follow(w))
        BY <1>1 DEF CloseToken, Closes
    <2> QED BY <1>1, <2>1, <2>2 DEF CloseEvent
<1>5. ~AfterKey(d, n)
    <2>1. AfterKey(d, n) => Follow(w) = "object"
        BY <1>0, AfterKeyInObject
    <2>2. CASE e.kind = "}"
        BY <1>1, <2>2
    <2>3. CASE e.kind = "]"
        <3>1. Follow(w) = "array"
            BY <1>1, <2>3
        <3> QED BY <2>1, <3>1
    <2> QED BY <2>2, <2>3 DEF Closes
<1>6. PhaseAt(d, n) \in {Follow(w), FirstPhase(Follow(w))}
    <2>1. n # 0
        BY <1>3, CountFacts
    <2> QED BY <1>5, <2>1 DEF PhaseAt
<1>7. Containers(d)[n + 1] = SubSeq(w, 1, Len(w) - 1)
    BY <1>1 DEF ContainersNext, Closes
<1>8. PhaseAt(d, n + 1) = Follow(Containers(d)[n + 1]) /\ ~Opened(d, n + 1)
    <2>0. e.kind # "key" /\ ~Begins(e)
        BY DEF Begins, Closes
    <2>1. n + 1 # 0 /\ ~AfterKey(d, n + 1) /\ ~Opened(d, n + 1)
        BY <2>0, CountFacts DEF AfterKey, Opened
    <2> QED BY <2>1 DEF PhaseAt
<1> QED BY <1>1, <1>2, <1>3, <1>4, <1>6, <1>7, <1>8 DEF ClosedAt

\* The phase behind an event that begins a container,
OpenedAt(d, n, c) ==
    /\ d[n + 1] = OpenEvent(c)
    /\ Containers(d)[n + 1] = Append(Containers(d)[n], c)
    /\ PhaseAt(d, n + 1) = FirstPhase(c)
    /\ Opened(d, n + 1)

LEMMA PhaseOpened ==
    ASSUME NEW d \in Seq(Events), Traversal(d), NEW n \in Nat, n < Len(d),
           NEW c \in Nest, d[n + 1].kind = OpenToken(c)
    PROVE  OpenedAt(d, n, c)
<1>0. PICK e, w : e = d[n + 1] /\ w = Containers(d)[n] /\ e.kind = OpenToken(c)
    OBVIOUS
<1>1. /\ w \in Seq(Nest) /\ e = Ev(e.kind, e.bytes) /\ Spelled(e)
      /\ Containers(d)[n + 1] = ContainersNext(e, w)
    <2>1. EventAt(d, n, e, w)
        BY <1>0, EventFacts
    <2> QED BY <2>1 DEF EventAt
<1>2. n + 1 # 0 /\ n + 1 > 0
    BY CountFacts
<1>3. Begins(e)
    BY <1>0 DEF OpenToken, Begins
<1>4. e.bytes = <<>>
    BY <1>1, <1>3 DEF Spelled, Begins
<1>5. e = OpenEvent(c)
    BY <1>0, <1>1, <1>4 DEF OpenEvent
<1>6. Containers(d)[n + 1] = Append(w, c)
    BY <1>0, <1>1 DEF ContainersNext, OpenToken, Nest
<1>7. Opened(d, n + 1) /\ ~AfterKey(d, n + 1)
    <2>1. e.kind # "key"
        BY <1>3 DEF Begins
    <2> QED BY <1>0, <1>2, <1>3, <2>1 DEF Opened, AfterKey
<1>8. Follow(Append(w, c)) = c
    BY <1>1, FollowAppend
<1>9. PhaseAt(d, n + 1) = FirstPhase(c)
    BY <1>2, <1>6, <1>7, <1>8 DEF PhaseAt
<1> QED BY <1>0, <1>5, <1>6, <1>7, <1>9 DEF OpenedAt

\* and behind one that neither begins nor ends one.
LEMMA PhaseBehind ==
    ASSUME NEW d \in Seq(Events), Traversal(d), NEW n \in Nat, n < Len(d),
           NEW e, e = d[n + 1], ~Closes(e), ~Begins(e), NEW w, w = Containers(d)[n]
    PROVE  /\ Containers(d)[n + 1] = w
           /\ ~Opened(d, n + 1)
           /\ e.kind = "key" => PhaseAt(d, n + 1) = "value"
           /\ e.kind # "key" => PhaseAt(d, n + 1) = Follow(w)
<1>1. Containers(d)[n + 1] = ContainersNext(e, w)
    <2>1. EventAt(d, n, e, w)
        BY EventFacts
    <2> QED BY <2>1 DEF EventAt
<1>2. n + 1 # 0 /\ n + 1 > 0
    BY CountFacts
<1>3. Containers(d)[n + 1] = w
    BY <1>1 DEF ContainersNext, Begins, Closes
<1>4. ~Opened(d, n + 1)
    BY DEF Opened
<1>5. e.kind = "key" => PhaseAt(d, n + 1) = "value"
    BY <1>2 DEF PhaseAt, AfterKey
<1>6. e.kind # "key" => PhaseAt(d, n + 1) = Follow(w)
    BY <1>2, <1>3, <1>4 DEF PhaseAt, AfterKey
<1> QED BY <1>3, <1>4, <1>5, <1>6

\* Behind the last event nothing is expected.
LEMMA PhaseLast ==
    ASSUME NEW d \in Seq(Events), Traversal(d)
    PROVE  Containers(d)[Len(d)] = <<>> /\ PhaseAt(d, Len(d)) = "nothing"
<1>1. d # <<>> /\ Len(d) \in Nat /\ Len(d) > 0 /\ Len(d) \in 0..Len(d)
    BY DEF Traversal
<1>2. PICK m \in Nat : m + 1 = Len(d) /\ m < Len(d)
    <2>1. Len(d) - 1 \in Nat /\ (Len(d) - 1) + 1 = Len(d) /\ Len(d) - 1 < Len(d)
        BY <1>1
    <2> QED BY <2>1
<1>3. Containers(d)[Len(d)] = <<>> /\ Follow(<<>>) = "nothing"
    BY DEF Traversal, Follow
<1>4. ~AfterKey(d, Len(d))
    BY <1>1, <1>3, AfterKeyInObject
<1>5. ~Opened(d, Len(d))
    <2> SUFFICES ASSUME Opened(d, Len(d)) PROVE FALSE
        OBVIOUS
    <2>1. PICK e, w : e = d[m + 1] /\ w = Containers(d)[m]
        OBVIOUS
    <2>2. w \in Seq(Nest) /\ Containers(d)[m + 1] = ContainersNext(e, w)
        <3>1. EventAt(d, m, e, w)
            BY <1>2, <2>1, EventFacts
        <3> QED BY <3>1 DEF EventAt
    <2>3. Begins(e)
        BY <1>2, <2>1 DEF Opened
    <2>4. ContainersNext(e, w) # <<>>
        <3>1. Append(w, "object") # <<>> /\ Append(w, "array") # <<>>
            BY <2>2, FollowAppend DEF Nest
        <3> QED BY <2>3, <3>1 DEF ContainersNext, Begins
    <2> QED BY <1>2, <1>3, <2>2, <2>4
<1> QED BY <1>1, <1>3, <1>4, <1>5 DEF PhaseAt
-----------------------------------------------------------------------------
(***************************************************************************)
(* The calls under way.                                                    *)
(***************************************************************************)
\* Under the caller's frame there is one for each of the containers w.  Only the
\* innermost may have begun no element or member yet, and has not if it is fresh.
Calls(frames, w, fresh) ==
    /\ frames \in Seq(FrameType)
    /\ Len(w) < Len(frames)
    /\ frames[1].kind = "document"
    /\ \A k \in 1..Len(w) : /\ frames[k + 1].kind = w[k]
                            /\ frames[k + 1].index = 0 <=> (k = Len(w) /\ fresh)

\* A place of the write pass, by the events handled and the calls under way.
Standing(d, p) ==
    /\ p \in Place
    /\ p.i \in 0..Len(d)
    /\ Calls(p.frames, Containers(d)[p.i], ~WithinString(p) /\ Opened(d, p.i))
    /\ Len(p.frames) = Len(Containers(d)[p.i]) + (IF WithinString(p) THEN 2 ELSE 1)
    /\ WithinString(p) => /\ p.i < Len(d)
                          /\ d[p.i + 1].kind \in {"key", "string"}
                          /\ Top(p).index <= Len(d[p.i + 1].bytes)

\* The last call, outside of strings.
LEMMA CallsTop ==
    ASSUME NEW w \in Seq(Nest), NEW f, NEW fresh \in BOOLEAN, Calls(f, w, fresh),
           NEW n, n = Len(f), n = Len(w) + 1
    PROVE  /\ w = <<>> => f[n].kind = "document"
           /\ w # <<>> => f[n].kind = Follow(w) /\ (f[n].index = 0 <=> fresh)
           /\ n \in Nat /\ n >= 1
<1>1. Len(w) \in Nat /\ (w # <<>> => Len(w) \in 1..Len(w)) /\ (w = <<>> => Len(w) = 0)
    OBVIOUS
<1>2. w = <<>> => f[n].kind = "document"
    BY <1>1 DEF Calls
<1>3. w # <<>> => f[n].kind = Follow(w) /\ (f[n].index = 0 <=> fresh)
    BY <1>1, FollowLast DEF Calls
<1> QED BY <1>1, <1>2, <1>3

\* The last call has begun an element or member.
LEMMA CallsCounted ==
    ASSUME NEW w \in Seq(Nest), NEW f, NEW fresh \in BOOLEAN, Calls(f, w, fresh),
           NEW n, n = Len(f), n = Len(w) + 1,
           NEW g \in Seq(FrameType), Len(g) = n, \A k \in 1..(n - 1) : g[k] = f[k],
           g[n].kind = f[n].kind, w # <<>> => g[n].index # 0
    PROVE  Calls(g, w, FALSE)
<1>1. Len(w) \in Nat /\ Len(w) < Len(g) /\ n - 1 = Len(w)
    OBVIOUS
<1>2. g[1].kind = "document"
    <2>1. CASE n = 1
        BY <2>1 DEF Calls
    <2>2. CASE n # 1
        <3>1. 1 \in 1..(n - 1)
            BY <2>2
        <3> QED BY <3>1 DEF Calls
    <2> QED BY <2>1, <2>2
<1>3. ASSUME NEW k \in 1..Len(w)
      PROVE  g[k + 1].kind = w[k] /\ g[k + 1].index # 0
    <2>0. f[k + 1].kind = w[k] /\ (f[k + 1].index = 0 => k = Len(w))
        BY DEF Calls
    <2>1. CASE k = Len(w)
        <3>1. k + 1 = n /\ w # <<>>
            BY <2>1
        <3> QED BY <2>0, <3>1
    <2>2. CASE k # Len(w)
        <3>1. k + 1 \in 1..(n - 1)
            <4>1. k \in Nat /\ k < Len(w) /\ Len(w) \in Nat
                BY <2>2
            <4>2. k + 1 <= Len(w)
                BY <4>1
            <4> QED BY <1>1, <4>1, <4>2
        <3> QED BY <2>0, <2>2, <3>1
    <2> QED BY <2>1, <2>2
<1> QED BY <1>1, <1>2, <1>3 DEF Calls

\* A call for a container c is made.
LEMMA CallsNested ==
    ASSUME NEW w \in Seq(Nest), NEW f, Calls(f, w, FALSE), Len(f) = Len(w) + 1,
           NEW c \in Nest, NEW g, g = Append(f, Frame(c)), NEW v, v = Append(w, c)
    PROVE  Calls(g, v, TRUE) /\ Len(g) = Len(v) + 1 /\ g[Len(g)].kind = c
<1>1. Frame(c) \in FrameType /\ Frame(c).kind = c /\ Frame(c).index = 0
    BY DEF Frame, FrameType, Kinds, Nest
<1>2. PICK n \in Nat : n = Len(w)
    OBVIOUS
<1>3. f \in Seq(FrameType) /\ Len(f) = n + 1
    BY <1>2 DEF Calls
<1>4. /\ g \in Seq(FrameType) /\ Len(g) = n + 2 /\ g[n + 2] = Frame(c)
      /\ \A k \in 1..(n + 1) : g[k] = f[k]
    <2>1. (n + 1) + 1 = n + 2
        BY <1>2
    <2> QED BY <1>1, <1>3, <2>1
<1>5. Len(v) = n + 1 /\ v[n + 1] = c /\ \A k \in 1..n : v[k] = w[k]
    BY <1>2
<1>6. g[1].kind = "document"
    <2>1. 1 \in 1..(n + 1)
        BY <1>2
    <2> QED BY <1>4, <2>1 DEF Calls
<1>7. ASSUME NEW k \in 1..(n + 1)
      PROVE  g[k + 1].kind = v[k] /\ (g[k + 1].index = 0 <=> k = n + 1)
    <2>1. CASE k = n + 1
        <3>1. k + 1 = n + 2
            BY <2>1
        <3> QED BY <1>1, <1>4, <1>5, <2>1, <3>1
    <2>2. CASE k # n + 1
        <3>1. k \in 1..n /\ k + 1 \in 1..(n + 1)
            BY <1>2, <2>2
        <3>2. f[k + 1].kind = w[k] /\ f[k + 1].index # 0
            BY <1>2, <3>1 DEF Calls
        <3> QED BY <1>4, <1>5, <2>2, <3>1, <3>2
    <2> QED BY <2>1, <2>2
<1>8. Len(v) < Len(g) /\ Len(g) = Len(v) + 1
    BY <1>4, <1>5
<1> QED BY <1>1, <1>4, <1>5, <1>6, <1>7, <1>8 DEF Calls

\* The first calls are the same.
LEMMA CallsPrefix ==
    ASSUME NEW w \in Seq(Nest), NEW f, NEW fresh \in BOOLEAN, Calls(f, w, fresh),
           NEW v \in Seq(Nest), Len(v) <= Len(w), \A k \in 1..Len(v) : v[k] = w[k],
           fresh => Len(v) < Len(w),
           NEW g \in Seq(FrameType), Len(v) < Len(g), \A k \in 1..(Len(v) + 1) : g[k] = f[k]
    PROVE  Calls(g, v, FALSE)
<1>1. g[1].kind = "document"
    <2>1. 1 \in 1..(Len(v) + 1)
        OBVIOUS
    <2> QED BY <2>1 DEF Calls
<1>2. ASSUME NEW k \in 1..Len(v) PROVE g[k + 1].kind = v[k] /\ g[k + 1].index # 0
    <2>1. k \in 1..Len(w) /\ k + 1 \in 1..(Len(v) + 1) /\ (fresh => k # Len(w))
        OBVIOUS
    <2>2. f[k + 1].kind = w[k] /\ f[k + 1].index # 0
        BY <2>1 DEF Calls
    <2> QED BY <2>1, <2>2
<1> QED BY <1>1, <1>2 DEF Calls

\* A call for a string is made.
LEMMA CallsString ==
    ASSUME NEW w \in Seq(Nest), NEW f, Calls(f, w, FALSE), Len(f) = Len(w) + 1,
           NEW g, g = Append(f, Frame("string"))
    PROVE  Calls(g, w, FALSE) /\ Len(g) = Len(w) + 2 /\ g[Len(g)] = Frame("string")
<1>1. Frame("string") \in FrameType
    BY DEF Frame, FrameType, Kinds
<1>2. PICK n \in Nat : n = Len(w)
    OBVIOUS
<1>3. f \in Seq(FrameType) /\ Len(f) = n + 1
    BY <1>2 DEF Calls
<1>4. /\ g \in Seq(FrameType) /\ Len(g) = n + 2 /\ g[n + 2] = Frame("string")
      /\ \A k \in 1..(n + 1) : g[k] = f[k]
    <2>1. (n + 1) + 1 = n + 2
        BY <1>2
    <2> QED BY <1>1, <1>3, <2>1
<1>5. Len(w) <= Len(w) /\ Len(w) < Len(g) /\ FALSE \in BOOLEAN
    BY <1>2, <1>4
<1>6. Calls(g, w, FALSE)
    BY <1>2, <1>4, <1>5, CallsPrefix
<1> QED BY <1>2, <1>4, <1>6

\* A byte of a string is counted.
LEMMA CallsByte ==
    ASSUME NEW w \in Seq(Nest), NEW f, Calls(f, w, FALSE), Len(f) = Len(w) + 2,
           NEW g \in Seq(FrameType), Len(g) = Len(f), \A k \in 1..(Len(f) - 1) : g[k] = f[k]
    PROVE  Calls(g, w, FALSE)
<1>1. PICK n \in Nat : n = Len(w)
    OBVIOUS
<1>2. Len(g) = n + 2 /\ \A k \in 1..(n + 1) : g[k] = f[k]
    <2>1. (n + 2) - 1 = n + 1
        BY <1>1
    <2> QED BY <1>1, <2>1
<1>3. Len(w) <= Len(w) /\ Len(w) < Len(g) /\ FALSE \in BOOLEAN
    BY <1>1, <1>2
<1> QED BY <1>1, <1>2, <1>3, CallsPrefix

\* The call for a string returns,
LEMMA CallsEnd ==
    ASSUME NEW w \in Seq(Nest), NEW f, Calls(f, w, FALSE), Len(f) = Len(w) + 2,
           NEW g, g = SubSeq(f, 1, Len(f) - 1)
    PROVE  Calls(g, w, FALSE) /\ Len(g) = Len(w) + 1
<1>1. PICK n \in Nat : n = Len(w)
    OBVIOUS
<1>2. f \in Seq(FrameType) /\ Len(f) = n + 2 /\ (n + 2) - 1 = n + 1
    BY <1>1 DEF Calls
<1>3. g \in Seq(FrameType) /\ Len(g) = n + 1 /\ \A k \in 1..(n + 1) : g[k] = f[k]
    <2>1. g = SubSeq(f, 1, n + 1)
        BY <1>2
    <2>2. \A k \in 1..(n + 1) : k \in 1..Len(f)
        BY <1>1, <1>2
    <2> QED BY <1>1, <1>2, <2>1, <2>2
<1>4. Len(w) <= Len(w) /\ Len(w) < Len(g) /\ FALSE \in BOOLEAN
    BY <1>1, <1>3
<1> QED BY <1>1, <1>3, <1>4, CallsPrefix

\* or that for a container.
LEMMA CallsReturn ==
    ASSUME NEW w \in Seq(Nest), w # <<>>, NEW f, NEW fresh \in BOOLEAN, Calls(f, w, fresh),
           Len(f) = Len(w) + 1, NEW g, g = SubSeq(f, 1, Len(f) - 1),
           NEW v, v = SubSeq(w, 1, Len(w) - 1)
    PROVE  v \in Seq(Nest) /\ Calls(g, v, FALSE) /\ Len(g) = Len(v) + 1
<1>1. PICK n \in Nat : Len(w) = n + 1
    <2>1. Len(w) - 1 \in Nat /\ Len(w) = (Len(w) - 1) + 1
        OBVIOUS
    <2> QED BY <2>1
<1>2. f \in Seq(FrameType) /\ Len(f) = n + 2 /\ (n + 2) - 1 = n + 1 /\ (n + 1) - 1 = n
    BY <1>1 DEF Calls
<1>3. g \in Seq(FrameType) /\ Len(g) = n + 1 /\ \A k \in 1..(n + 1) : g[k] = f[k]
    <2>1. g = SubSeq(f, 1, n + 1)
        BY <1>2
    <2>2. \A k \in 1..(n + 1) : k \in 1..Len(f)
        BY <1>1, <1>2
    <2> QED BY <1>1, <1>2, <2>1, <2>2
<1>4. v \in Seq(Nest) /\ Len(v) = n /\ \A k \in 1..n : v[k] = w[k]
    <2>1. v = SubSeq(w, 1, n)
        BY <1>1, <1>2
    <2>2. \A k \in 1..n : k \in 1..Len(w)
        BY <1>1
    <2> QED BY <1>1, <2>1, <2>2
<1>5. Len(v) <= Len(w) /\ Len(v) < Len(w) /\ Len(v) < Len(g)
    BY <1>1, <1>3, <1>4
<1>6. Calls(g, v, FALSE)
    <2>1. /\ \A k \in 1..Len(v) : v[k] = w[k]
          /\ \A k \in 1..(Len(v) + 1) : g[k] = f[k]
        BY <1>3, <1>4
    <2>2. v \in Seq(Nest) /\ g \in Seq(FrameType)
        BY <1>3, <1>4
    <2>3. Len(v) <= Len(w) /\ Len(v) < Len(g) /\ (fresh => Len(v) < Len(w))
        BY <1>5
    <2> QED BY <2>1, <2>2, <2>3, CallsPrefix, ZenonT(40)
<1> QED BY <1>3, <1>4, <1>6
-----------------------------------------------------------------------------
(***************************************************************************)
(* The places of the write pass.                                           *)
(***************************************************************************)
\* What is known at a place before the end: the next event and the containers around.
LEMMA StandingFacts ==
    ASSUME doc \in Seq(Events), Traversal(doc), NEW p, Standing(doc, p), p.i < Len(doc)
    PROVE  /\ p \in Place /\ p.i \in Nat
           /\ EventAt(doc, p.i, Event(p), Containers(doc)[p.i])
           /\ Containers(doc)[p.i] \in Seq(Nest)
<1>1. p \in Place /\ p.i \in Nat
    BY DEF Standing, Place
<1>2. EventAt(doc, p.i, Event(p), Containers(doc)[p.i])
    BY <1>1, EventFacts DEF Event
<1> QED BY <1>1, <1>2 DEF EventAt

\* The comma is written where the grammar expects it, and the element or member is
\* counted.
LEMMA SeparatorIs ==
    ASSUME doc \in Seq(Events), Traversal(doc), NEW p, Standing(doc, p), p.i < Len(doc),
           ~WithinString(p), ~Closes(Event(p)),
           NEW w, w = Containers(doc)[p.i], NEW phase, phase = PhaseAt(doc, p.i),
           NEW f, f = Counted(p, Counts(p))
    PROVE  /\ Separator(p) = IF phase \in Nest THEN <<Comma>> ELSE <<>>
           /\ Calls(f, w, FALSE) /\ Len(f) = Len(w) + 1
<1>1. /\ p \in Place /\ p.i \in Nat /\ w \in Seq(Nest)
    BY StandingFacts
<1>2. PICK fresh \in BOOLEAN : fresh = Opened(doc, p.i)
    BY DEF Opened
<1>3. Calls(p.frames, w, fresh) /\ Len(p.frames) = Len(w) + 1
    <2>1. fresh <=> ~WithinString(p) /\ Opened(doc, p.i)
        BY <1>2
    <2> QED BY <2>1, <1>2 DEF Standing
<1>4. PICK top : top = Top(p)
    OBVIOUS
<1>5. /\ w = <<>> => top.kind = "document"
      /\ w # <<>> => top.kind = Follow(w) /\ (top.index = 0 <=> fresh)
      /\ top \in FrameType /\ top.index \in Nat
    <2>1. top = p.frames[Len(p.frames)]
        BY <1>4 DEF Top
    <2>2. top \in FrameType /\ top.index \in Nat
        BY <1>1, <1>4, TopType DEF FrameType
    <2> QED BY <1>1, <1>3, <2>1, <2>2, CallsTop
<1>6. /\ phase \in Nest => /\ p.i > 0 /\ ~fresh /\ phase = Follow(w)
                           /\ phase = "object" => Event(p).kind = "key"
      /\ phase \notin Nest => fresh \/ p.i = 0 \/ (Follow(w) = "object" /\ Event(p).kind # "key")
    BY <1>1, <1>2, PhaseBefore DEF Event
<1>7. (p.i = 0 => w = <<>>) /\ (p.i > 0 => w # <<>>)
    <2>1. EventAt(doc, p.i, Event(p), w)
        BY StandingFacts
    <2> QED BY <2>1 DEF EventAt
<1>8. Counts(p) <=> top.kind = "array" \/ (top.kind = "object" /\ Event(p).kind = "key")
    BY <1>4 DEF Counts
<1>9. ASSUME phase \in Nest PROVE Separator(p) = <<Comma>>
    <2>1. Counts(p) /\ top.index # 0
        BY <1>5, <1>6, <1>7, <1>8, <1>9 DEF Nest
    <2> QED BY <1>4, <1>9, <2>1 DEF Separator
<1>10. ASSUME phase \notin Nest PROVE Separator(p) = <<>>
    <2>1. ~(Counts(p) /\ top.index # 0)
        BY <1>5, <1>6, <1>7, <1>8, <1>10 DEF Nest
    <2> QED BY <1>4, <1>10, <2>1 DEF Separator
<1>11. Separator(p) = IF phase \in Nest THEN <<Comma>> ELSE <<>>
    BY <1>9, <1>10
<1>12. PICK next \in BOOLEAN : next = Counts(p)
    BY DEF Counts
<1>13. /\ f \in Seq(FrameType) /\ Len(f) = Len(p.frames)
       /\ \A k \in 1..(Len(p.frames) - 1) : f[k] = p.frames[k]
       /\ f[Len(p.frames)].kind = top.kind
       /\ f[Len(p.frames)].index = IF next THEN top.index + 1 ELSE top.index
    <2>1. f = Counted(p, next)
        BY <1>12
    <2>2. /\ f \in Seq(FrameType) /\ Len(f) = Len(p.frames)
          /\ \A k \in 1..(Len(f) - 1) : f[k] = p.frames[k]
          /\ f[Len(f)] = [kind  |-> Top(p).kind,
                          index |-> IF next THEN Top(p).index + 1 ELSE Top(p).index]
        BY <1>1, <2>1, CountedType
    <2> QED BY <1>4, <2>2
<1>14. w # <<>> => f[Len(p.frames)].index # 0
    <2> SUFFICES ASSUME w # <<>> PROVE f[Len(p.frames)].index # 0
        OBVIOUS
    <2>1. CASE next
        BY <1>5, <1>13, <2>1
    <2>2. CASE ~next
        <3>1. ~fresh
            <4>1. Follow(w) = "object" /\ Event(p).kind # "key"
                BY <1>1, <1>5, <1>8, <1>12, <2>2, FollowLast DEF Nest
            <4>2. AfterKey(doc, p.i)
                <5>1. EventAt(doc, p.i, Event(p), w)
                    BY StandingFacts
                <5> QED BY <4>1, <5>1 DEF EventAt, Closes
            <4>3. ~Begins(doc[p.i])
                BY <4>2 DEF AfterKey, Begins
            <4> QED BY <1>2, <4>3 DEF Opened
        <3> QED BY <1>5, <1>13, <2>2, <3>1
    <2> QED BY <2>1, <2>2
<1>15. f[Len(p.frames)].kind = p.frames[Len(p.frames)].kind
    BY <1>4, <1>13 DEF Top
<1>16. Calls(f, w, FALSE)
    <2>1. PICK n : n = Len(p.frames)
        OBVIOUS
    <2>2. n = Len(w) + 1 /\ Len(f) = n /\ \A k \in 1..(n - 1) : f[k] = p.frames[k]
        BY <1>3, <1>13, <2>1
    <2>3. f[n].kind = p.frames[n].kind /\ (w # <<>> => f[n].index # 0)
        BY <1>14, <1>15, <2>1
    <2> QED BY <1>1, <1>2, <1>3, <1>13, <2>1, <2>2, <2>3, CallsCounted, ZenonT(40)
<1> QED BY <1>3, <1>11, <1>13, <1>16

LEMMA StandingBeginning ==
    ASSUME doc \in Seq(Events)
    PROVE  Standing(doc, Beginning)
<1>1. Frame("document") \in FrameType /\ Frame("document").kind = "document"
    BY DEF Frame, FrameType, Kinds
<1>2. /\ Beginning.i = 0 /\ Beginning.frames = <<Frame("document")>> /\ Beginning \in Place
      /\ Len(Beginning.frames) = 1 /\ Beginning.frames[1].kind = "document"
      /\ Beginning.frames \in Seq(FrameType)
    BY <1>1 DEF Beginning, Place
<1>3. ~WithinString(Beginning)
    BY <1>2 DEF WithinString, Top
<1>4. Containers(doc)[0] = <<>> /\ 0 \in 0..Len(doc) /\ Len(<<>>) = 0
    <2>1. Len(doc) \in Nat
        OBVIOUS
    <2> QED BY <2>1, ContainersSteps
<1>5. Calls(Beginning.frames, Containers(doc)[Beginning.i], ~WithinString(Beginning) /\ Opened(doc, Beginning.i))
    BY <1>2, <1>4 DEF Calls
<1> QED BY <1>2, <1>3, <1>4, <1>5 DEF Standing

\* Where the calls are, outside of a string,
LEMMA StandingOutside ==
    ASSUME NEW d, NEW q \in Place, q.i \in 0..Len(d), NEW w, w = Containers(d)[q.i],
           NEW fresh \in BOOLEAN, fresh = Opened(d, q.i),
           w \in Seq(Nest), Calls(q.frames, w, fresh), Len(q.frames) = Len(w) + 1
    PROVE  Standing(d, q) /\ ~WithinString(q)
<1>1. Top(q).kind # "string"
    <2>1. PICK f, n : f = q.frames /\ n = Len(f)
        OBVIOUS
    <2>2. /\ w = <<>> => f[n].kind = "document"
          /\ w # <<>> => f[n].kind = Follow(w)
        BY <2>1, CallsTop
    <2>3. w # <<>> => Follow(w) \in Nest
        BY FollowLast
    <2> QED BY <2>1, <2>2, <2>3 DEF Top, Nest
<1>2. ~WithinString(q)
    BY <1>1 DEF WithinString
<1>3. Calls(q.frames, w, ~WithinString(q) /\ Opened(d, q.i))
    <2>1. (~WithinString(q) /\ Opened(d, q.i)) = fresh
        BY <1>2 DEF Opened
    <2> QED BY <2>1
<1> QED BY <1>2, <1>3 DEF Standing

\* and within one.
LEMMA StandingWithin ==
    ASSUME NEW d, NEW q \in Place, q.i \in 0..Len(d), q.i < Len(d), NEW w, w = Containers(d)[q.i],
           d[q.i + 1].kind \in {"key", "string"}, Top(q).kind = "string",
           Top(q).index <= Len(d[q.i + 1].bytes),
           Calls(q.frames, w, FALSE), Len(q.frames) = Len(w) + 2
    PROVE  Standing(d, q) /\ WithinString(q)
<1>1. WithinString(q)
    BY DEF WithinString
<1>2. (~WithinString(q) /\ Opened(d, q.i)) = FALSE
    BY <1>1
<1>3. Calls(q.frames, w, ~WithinString(q) /\ Opened(d, q.i))
    BY <1>2
<1> QED BY <1>1, <1>3 DEF Standing
-----------------------------------------------------------------------------
(***************************************************************************)
(* What is written is read: in every text that goes on like this, the      *)
(* grammar comes to where the writer is, with the events handled.          *)
(***************************************************************************)
\* Behind event n of d; where a number may have ended, what follows is a separator.
ReadsOutside(d, text, n) ==
    \A s : /\ Extends(s, text)
           /\ PhaseAt(d, n) \in Nest \cup {"nothing"} => Separated(s, Len(text))
           => Stands(s, Len(text), PhaseAt(d, n), Containers(d)[n], SubSeq(d, 1, n))

\* Within string n + 1 of d, behind its first k bytes.
ReadsWithin(d, text, n, k) ==
    \A s : Extends(s, text) =>
        \E m \in Nat : \E phase :
            /\ ReadIn(d[n + 1], phase)
            /\ Stands(s, m, phase, Containers(d)[n], SubSeq(d, 1, n))
            /\ StringSoFar(s, Quote, m, Len(text), SubSeq(d[n + 1].bytes, 1, k))

SeparatorAt(d, n) == IF PhaseAt(d, n) \in Nest THEN <<Comma>> ELSE <<>>

LEMMA BytesTyped ==
    /\ \A b \in {Comma, Colon, Quote, LBrace, RBrace, LBracket, RBracket} : b \in Byte
    /\ \A c \in Nest : OpenByte(c) \in Byte /\ CloseByte(c) \in Byte /\ CloseByte(c) \in Separators
<1>1. \A b \in {Comma, Colon, Quote, LBrace, RBrace, LBracket, RBracket} : b \in Byte
    BY DEF Byte, Comma, Colon, Quote, LBrace, RBrace, LBracket, RBracket
<1> QED BY <1>1 DEF OpenByte, CloseByte, Separators

LEMMA OneByte == \A b \in Byte : <<b>> \in Seq(Byte) /\ Len(<<b>>) = 1
OBVIOUS

LEMMA Joined == \A v, w \in Seq(Byte) : /\ v \o w \in Seq(Byte) /\ Len(v \o w) = Len(v) + Len(w)
                                        /\ Len(v) \in Nat /\ Len(w) \in Nat
OBVIOUS

LEMMA SeparatorType ==
    ASSUME NEW d, NEW n
    PROVE  SeparatorAt(d, n) \in Seq(Byte)
<1>1. Comma \in Byte
    BY BytesTyped
<1> QED BY <1>1 DEF SeparatorAt

\* The beginning of a sequence, and one element more.
LEMMA OneMore ==
    ASSUME NEW S, NEW d \in Seq(S), NEW n \in Nat, n < Len(d)
    PROVE  /\ SubSeq(d, 1, n + 1) = Append(SubSeq(d, 1, n), d[n + 1])
           /\ SubSeq(d, 1, n + 1) = SubSeq(d, 1, n) \o <<d[n + 1]>>
<1>1. PICK v, w : v = SubSeq(d, 1, n + 1) /\ w = SubSeq(d, 1, n)
    OBVIOUS
<1>2. /\ v \in Seq(S) /\ Len(v) = n + 1 /\ \A k \in 1..(n + 1) : v[k] = d[k]
      /\ w \in Seq(S) /\ Len(w) = n /\ \A k \in 1..n : w[k] = d[k]
    <2>1. \A k \in 1..(n + 1) : k \in 1..Len(d)
        OBVIOUS
    <2>2. \A k \in 1..n : k \in 1..Len(d)
        OBVIOUS
    <2> QED BY <1>1, <2>1, <2>2
<1>3. PICK e \in S : e = d[n + 1]
    OBVIOUS
<1>4. ASSUME NEW x \in Seq(S), Len(x) = n + 1, x[n + 1] = e, \A k \in 1..n : x[k] = w[k]
      PROVE  v = x
    <2>1. ASSUME NEW k \in 1..(n + 1) PROVE v[k] = x[k]
        <3>1. CASE k = n + 1
            BY <1>2, <1>3, <1>4, <3>1
        <3>2. CASE k # n + 1
            <4>1. k \in 1..n
                BY <3>2
            <4> QED BY <1>2, <1>4, <4>1
        <3> QED BY <3>1, <3>2
    <2> QED BY <1>2, <1>4, <2>1
<1>5. v = Append(w, e)
    <2>1. PICK x : x = Append(w, e)
        OBVIOUS
    <2>2. x \in Seq(S) /\ Len(x) = n + 1 /\ x[n + 1] = e /\ \A k \in 1..n : x[k] = w[k]
        BY <1>2, <2>1
    <2> QED BY <1>4, <2>1, <2>2
<1>6. v = w \o <<e>>
    <2>1. PICK x : x = w \o <<e>>
        OBVIOUS
    <2>2. x \in Seq(S) /\ Len(x) = n + 1 /\ x[n + 1] = e /\ \A k \in 1..n : x[k] = w[k]
        BY <1>2, <2>1
    <2> QED BY <1>4, <2>1, <2>2
<1> QED BY <1>1, <1>3, <1>5, <1>6

\* Behind the comma, if there is one, the grammar expects the event.
LEMMA SeparatorRead ==
    ASSUME NEW d \in Seq(Events), Traversal(d), NEW n \in Nat, n < Len(d),
           NEW e, e = d[n + 1], ~Closes(e),
           NEW text \in Seq(Byte), ReadsOutside(d, text, n),
           NEW s, s \in Seq(Byte), Extends(s, text),
           NEW sep, sep = SeparatorAt(d, n), OccursAt(s, Len(text), sep),
           NEW m, m = Len(text) + Len(sep)
    PROVE  \E phase : /\ ReadIn(e, phase)
                      /\ Stands(s, m, phase, Containers(d)[n], SubSeq(d, 1, n))
<1>1. PICK phase, w, done : /\ phase = PhaseAt(d, n) /\ w = Containers(d)[n]
                            /\ done = SubSeq(d, 1, n)
    OBVIOUS
<1>2. /\ phase # "nothing"
      /\ phase \in Nest => ReadIn(e, FirstPhase(phase))
      /\ phase \notin Nest => ReadIn(e, phase)
    BY <1>1, PhaseBefore
<1>3. PICK p \in Nat : p = Len(text)
    OBVIOUS
<1>4. (phase \in Nest => Separated(s, p)) => Stands(s, p, phase, w, done)
    BY <1>1, <1>2, <1>3 DEF ReadsOutside
<1>5. CASE phase \in Nest
    <2>1. sep = <<Comma>>
        BY <1>1, <1>5 DEF SeparatorAt
    <2>2. ByteIn(s, p, {Comma}) /\ m = p + 1
        BY <1>3, <2>1, OccursByte
    <2>3. Separated(s, p)
        BY <2>2 DEF Separated, Separators, ByteIn
    <2>4. Stands(s, m, FirstPhase(phase), w, done)
        BY <1>4, <1>5, <2>2, <2>3, StandsComma
    <2> QED BY <1>1, <1>2, <1>5, <2>4
<1>6. CASE phase \notin Nest
    <2>1. sep = <<>>
        BY <1>1, <1>6 DEF SeparatorAt
    <2>2. m = p
        BY <1>3, <2>1
    <2> QED BY <1>1, <1>2, <1>4, <1>6, <2>2
<1> QED BY <1>5, <1>6

\* A container is begun.
LEMMA OpeningRead ==
    ASSUME NEW d \in Seq(Events), Traversal(d), NEW n \in Nat, n < Len(d),
           NEW e, e = d[n + 1], NEW c \in Nest, e.kind = OpenToken(c),
           NEW text \in Seq(Byte), ReadsOutside(d, text, n),
           NEW more, more = text \o (SeparatorAt(d, n) \o <<OpenByte(c)>>)
    PROVE  ReadsOutside(d, more, n + 1)
<1>1. ~Closes(e) /\ e.kind # "key"
    BY DEF OpenToken, Closes
<1>2. PICK sep, w, done : sep = SeparatorAt(d, n) /\ w = Containers(d)[n] /\ done = SubSeq(d, 1, n)
    OBVIOUS
<1>3. /\ e = OpenEvent(c) /\ Containers(d)[n + 1] = Append(w, c)
      /\ PhaseAt(d, n + 1) = FirstPhase(c)
    <2>1. OpenedAt(d, n, c)
        BY PhaseOpened
    <2> QED BY <1>2, <2>1 DEF OpenedAt
<1>4. SubSeq(d, 1, n + 1) = Append(done, OpenEvent(c))
    BY <1>2, <1>3, OneMore
<1>5. ASSUME NEW s, Extends(s, more)
      PROVE  Stands(s, Len(more), FirstPhase(c), Append(w, c), Append(done, OpenEvent(c)))
    <2>1. PICK b : b = <<OpenByte(c)>> /\ b \in Seq(Byte) /\ Len(b) = 1
        <3>1. OpenByte(c) \in Byte
            BY BytesTyped
        <3> QED BY <3>1, OneByte
    <2>2. PICK x \in Seq(Byte) : x = sep \o b
        <3>1. sep \in Seq(Byte)
            BY <1>2, SeparatorType
        <3> QED BY <2>1, <3>1, Joined
    <2>3. /\ s \in Seq(Byte) /\ Extends(s, text) /\ Len(more) = Len(text) + Len(x)
          /\ OccursAt(s, Len(text), x)
        <3>1. Extends(s, text \o x)
            BY <1>2, <1>5, <2>1, <2>2
        <3>2. more = text \o x
            BY <1>2, <2>1, <2>2
        <3> QED BY <3>1, <3>2, ExtendsFurther
    <2>4. sep \in Seq(Byte) /\ Len(text) \in Nat /\ Len(sep) \in Nat
        BY <1>2, SeparatorType
    <2>5. OccursAt(s, Len(text), sep) /\ OccursAt(s, Len(text) + Len(sep), b)
        BY <2>1, <2>2, <2>3, <2>4, OccursParts
    <2>6. PICK m \in Nat : m = Len(text) + Len(sep)
        BY <2>4
    <2>7. PICK phase : ReadIn(e, phase) /\ Stands(s, m, phase, w, done)
        BY <1>1, <1>2, <2>3, <2>5, <2>6, SeparatorRead
    <2>8. ByteIn(s, m, {OpenByte(c)})
        BY <2>1, <2>3, <2>5, <2>6, OccursByte
    <2>9. Len(more) = m + 1
        <3>1. Len(x) = Len(sep) + 1
            BY <2>1, <2>2, <2>4
        <3> QED BY <2>3, <2>4, <2>6, <3>1
    <2>10. phase \in ValuePhases
        BY <1>1, <2>7 DEF ReadIn
    <2> QED BY <2>3, <2>7, <2>8, <2>9, <2>10, StandsOpens
<1> QED BY <1>3, <1>4, <1>5 DEF ReadsOutside

\* A string is begun.
LEMMA QuoteRead ==
    ASSUME NEW d \in Seq(Events), Traversal(d), NEW n \in Nat, n < Len(d),
           NEW e, e = d[n + 1], e.kind \in {"key", "string"},
           NEW text \in Seq(Byte), ReadsOutside(d, text, n),
           NEW more, more = text \o (SeparatorAt(d, n) \o <<Quote>>)
    PROVE  ReadsWithin(d, more, n, 0)
<1>1. ~Closes(e)
    BY DEF Closes
<1>2. PICK sep, w, done : sep = SeparatorAt(d, n) /\ w = Containers(d)[n] /\ done = SubSeq(d, 1, n)
    OBVIOUS
<1>3. SubSeq(d[n + 1].bytes, 1, 0) = <<>>
    <2>1. EventAt(d, n, e, w)
        BY <1>2, EventFacts
    <2>2. PICK bytes \in Seq(Byte) : bytes = d[n + 1].bytes
        BY <2>1 DEF EventAt
    <2> QED BY <2>2
<1>5. ASSUME NEW s, Extends(s, more)
      PROVE  \E m \in Nat : \E phase :
                /\ ReadIn(e, phase)
                /\ Stands(s, m, phase, w, done)
                /\ StringSoFar(s, Quote, m, Len(more), <<>>)
    <2>1. PICK b : b = <<Quote>> /\ b \in Seq(Byte) /\ Len(b) = 1
        <3>1. Quote \in Byte
            BY BytesTyped
        <3> QED BY <3>1, OneByte
    <2>2. PICK x \in Seq(Byte) : x = sep \o b
        <3>1. sep \in Seq(Byte)
            BY <1>2, SeparatorType
        <3> QED BY <2>1, <3>1, Joined
    <2>3. /\ s \in Seq(Byte) /\ Extends(s, text) /\ Len(more) = Len(text) + Len(x)
          /\ OccursAt(s, Len(text), x)
        <3>1. Extends(s, text \o x)
            BY <1>2, <1>5, <2>1, <2>2
        <3>2. more = text \o x
            BY <1>2, <2>1, <2>2
        <3> QED BY <3>1, <3>2, ExtendsFurther
    <2>4. sep \in Seq(Byte) /\ Len(text) \in Nat /\ Len(sep) \in Nat
        BY <1>2, SeparatorType
    <2>5. OccursAt(s, Len(text), sep) /\ OccursAt(s, Len(text) + Len(sep), b)
        BY <2>1, <2>2, <2>3, <2>4, OccursParts
    <2>6. PICK m \in Nat : m = Len(text) + Len(sep)
        BY <2>4
    <2>7. PICK phase : ReadIn(e, phase) /\ Stands(s, m, phase, w, done)
        BY <1>1, <1>2, <2>3, <2>5, <2>6, SeparatorRead
    <2>8. ByteIn(s, m, {Quote})
        BY <2>1, <2>3, <2>5, <2>6, OccursByte
    <2>9. Len(more) = m + 1
        <3>1. Len(x) = Len(sep) + 1
            BY <2>1, <2>2, <2>4
        <3> QED BY <2>3, <2>4, <2>6, <3>1
    <2>10. StringSoFar(s, Quote, m, Len(more), <<>>)
        BY <2>3, <2>8, <2>9, StringStart
    <2> QED BY <2>7, <2>10
<1> QED BY <1>2, <1>3, <1>5 DEF ReadsWithin

\* A byte of a string is written.
LEMMA ByteRead ==
    ASSUME NEW d \in Seq(Events), Traversal(d), NEW n \in Nat, n < Len(d),
           NEW bytes, bytes = d[n + 1].bytes, NEW k \in Nat, k < Len(bytes),
           NEW text \in Seq(Byte), ReadsWithin(d, text, n, k),
           NEW more, more = text \o WriteEscaped(bytes[k + 1])
    PROVE  ReadsWithin(d, more, n, k + 1)
<1>1. bytes \in Seq(Byte)
    <2>1. EventAt(d, n, d[n + 1], Containers(d)[n])
        BY EventFacts
    <2> QED BY <2>1 DEF EventAt
<1>2. PICK c \in Byte : c = bytes[k + 1]
    BY <1>1
<1>3. PICK x \in Seq(Byte) : x = WriteEscaped(c)
    BY EscapedLength
<1>4. PICK old : old = SubSeq(bytes, 1, k)
    OBVIOUS
<1>5. SubSeq(bytes, 1, k + 1) = old \o <<c>>
    BY <1>1, <1>2, <1>4, OneMore
<1>6. ASSUME NEW s, Extends(s, more)
      PROVE  \E m \in Nat : \E phase :
                /\ ReadIn(d[n + 1], phase)
                /\ Stands(s, m, phase, Containers(d)[n], SubSeq(d, 1, n))
                /\ StringSoFar(s, Quote, m, Len(more), old \o <<c>>)
    <2>1. more = text \o x
        BY <1>2, <1>3
    <2>2. /\ s \in Seq(Byte) /\ Extends(s, text) /\ Len(more) = Len(text) + Len(x)
          /\ OccursAt(s, Len(text), x)
        BY <1>6, <2>1, ExtendsFurther
    <2>3. PICK m, phase :
             /\ m \in Nat
             /\ ReadIn(d[n + 1], phase)
             /\ Stands(s, m, phase, Containers(d)[n], SubSeq(d, 1, n))
             /\ StringSoFar(s, Quote, m, Len(text), old)
        BY <1>4, <2>2 DEF ReadsWithin
    <2>4. StringSoFar(s, Quote, m, Len(more), old \o <<c>>)
        <3>1. Len(text) \in Nat
            OBVIOUS
        <3> QED BY <1>3, <2>2, <2>3, <3>1, EscapeRead
    <2> QED BY <2>3, <2>4
<1> QED BY <1>5, <1>6 DEF ReadsWithin
LEMMA SameTwo ==
    ASSUME NEW S, NEW x \in Seq(S), NEW y \in Seq(S), Len(x) = 2, Len(y) = 2,
           x[1] = y[1], x[2] = y[2]
    PROVE  x = y
<1>1. \A k \in 1..2 : x[k] = y[k]
    OBVIOUS
<1> QED BY <1>1

LEMMA TwoBytes ==
    ASSUME NEW a \in Byte, NEW b \in Byte
    PROVE  <<a>> \o <<b>> = <<a, b>>
<1>1. /\ <<a>> \in Seq(Byte) /\ Len(<<a>>) = 1 /\ <<a>>[1] = a
      /\ <<b>> \in Seq(Byte) /\ Len(<<b>>) = 1 /\ <<b>>[1] = b
    OBVIOUS
<1>2. <<a>> \o <<b>> \in Seq(Byte) /\ Len(<<a>> \o <<b>>) = 2
    BY <1>1
<1>3. (<<a>> \o <<b>>)[1] = a
    BY <1>1
<1>4. (<<a>> \o <<b>>)[2] = b
    BY <1>1
<1>5. <<a, b>> \in Seq(Byte) /\ Len(<<a, b>>) = 2 /\ <<a, b>>[1] = a /\ <<a, b>>[2] = b
    OBVIOUS
<1> QED BY <1>2, <1>3, <1>4, <1>5, SameTwo

\* The text goes on by v.
LEMMA GoesOn ==
    ASSUME NEW text \in Seq(Byte), NEW v \in Seq(Byte), NEW more, more = text \o v,
           NEW s, Extends(s, more)
    PROVE  /\ s \in Seq(Byte) /\ Extends(s, text)
           /\ Len(more) = Len(text) + Len(v) /\ Len(text) \in Nat /\ Len(v) \in Nat
           /\ OccursAt(s, Len(text), v)
<1>1. /\ s \in Seq(Byte) /\ Extends(s, text) /\ Len(text \o v) = Len(text) + Len(v)
      /\ OccursAt(s, Len(text), v)
    BY ExtendsFurther
<1> QED BY <1>1

\* A string or a key ends; the colon is written with the key.
LEMMA EndRead ==
    ASSUME NEW d \in Seq(Events), Traversal(d), NEW n \in Nat, n < Len(d),
           NEW e, e = d[n + 1], e.kind \in {"key", "string"},
           NEW text \in Seq(Byte), ReadsWithin(d, text, n, Len(e.bytes)),
           NEW more, more = text \o (IF e.kind = "key" THEN <<Quote, Colon>> ELSE <<Quote>>)
    PROVE  ReadsOutside(d, more, n + 1)
<1>1. ~Closes(e) /\ ~Begins(e)
    BY DEF Closes, Begins
<1>2. PICK w, done, bytes : w = Containers(d)[n] /\ done = SubSeq(d, 1, n) /\ bytes = e.bytes
    OBVIOUS
<1>3. bytes \in Seq(Byte) /\ e = Ev(e.kind, bytes)
    <2>1. EventAt(d, n, e, w)
        BY <1>2, EventFacts
    <2> QED BY <1>2, <2>1 DEF EventAt
<1>4. SubSeq(bytes, 1, Len(bytes)) = bytes
    BY <1>3
<1>5. SubSeq(d, 1, n + 1) = Append(done, e)
    BY <1>2, OneMore
<1>6. /\ Containers(d)[n + 1] = w
      /\ e.kind = "key" => PhaseAt(d, n + 1) = "value"
      /\ e.kind # "key" => PhaseAt(d, n + 1) = Follow(w)
    BY <1>1, <1>2, PhaseBehind
<1>7. ASSUME NEW s, s \in Seq(Byte), Extends(s, text)
      PROVE  \E m, phase : /\ m \in Nat
                           /\ ReadIn(e, phase)
                           /\ Stands(s, m, phase, w, done)
                           /\ StringSoFar(s, Quote, m, Len(text), bytes)
    BY <1>2, <1>4, <1>7 DEF ReadsWithin
<1>8. ASSUME NEW s, Extends(s, more)
      PROVE  Stands(s, Len(more), PhaseAt(d, n + 1), w, Append(done, e))
    <2>1. CASE e.kind = "key"
        <3>1. PICK q, c : /\ q = <<Quote>> /\ q \in Seq(Byte) /\ Len(q) = 1
                          /\ c = <<Colon>> /\ c \in Seq(Byte) /\ Len(c) = 1
            BY OneByte, BytesTyped
        <3>2. PICK x \in Seq(Byte) : x = q \o c /\ Len(x) = 2
            <4>1. q \o c \in Seq(Byte) /\ Len(q \o c) = Len(q) + Len(c)
                BY <3>1, Joined
            <4>2. Len(q \o c) = 2
                BY <3>1, <4>1
            <4> QED BY <4>1, <4>2, Zenon
        <3>3. more = text \o x
            <4>1. <<Quote>> \o <<Colon>> = <<Quote, Colon>>
                BY BytesTyped, TwoBytes
            <4> QED BY <2>1, <3>1, <3>2, <4>1
        <3>4. /\ s \in Seq(Byte) /\ Extends(s, text)
              /\ Len(more) = Len(text) + 2 /\ Len(text) \in Nat
              /\ OccursAt(s, Len(text), x)
            <4>1. /\ Len(more) = Len(text) + Len(x) /\ Len(text) \in Nat
                  /\ s \in Seq(Byte) /\ Extends(s, text) /\ OccursAt(s, Len(text), x)
                BY <1>8, <3>2, <3>3, GoesOn, ZenonT(40)
            <4> QED BY <3>2, <4>1
        <3>5. PICK p \in Nat, r \in Nat : p = Len(text) /\ r = p + 1 /\ Len(more) = r + 1
            BY <3>4
        <3>6. OccursAt(s, p, q) /\ OccursAt(s, r, c)
            BY <3>1, <3>2, <3>4, <3>5, OccursParts
        <3>7. ByteIn(s, p, {Quote}) /\ ByteIn(s, r, {Colon})
            BY <3>1, <3>4, <3>5, <3>6, OccursByte
        <3>8. PICK m, phase : /\ m \in Nat
                              /\ ReadIn(e, phase)
                              /\ Stands(s, m, phase, w, done)
                              /\ StringSoFar(s, Quote, m, p, bytes)
            BY <1>7, <3>4, <3>5
        <3>9. phase = "pair"
            BY <2>1, <3>8 DEF ReadIn
        <3>10. Stands(s, r, "colon", w, Append(done, Ev("key", bytes)))
            BY <3>4, <3>5, <3>7, <3>8, <3>9, StandsKey
        <3>11. Stands(s, Len(more), "value", w, Append(done, Ev("key", bytes)))
            BY <3>4, <3>5, <3>7, <3>10, StandsColon
        <3> QED BY <1>3, <1>6, <2>1, <3>11
    <2>2. CASE e.kind = "string"
        <3>1. PICK q : q = <<Quote>> /\ q \in Seq(Byte) /\ Len(q) = 1
            BY OneByte, BytesTyped
        <3>2. more = text \o q
            BY <2>2, <3>1
        <3>3. /\ s \in Seq(Byte) /\ Extends(s, text)
              /\ Len(more) = Len(text) + 1 /\ Len(text) \in Nat
              /\ OccursAt(s, Len(text), q)
            BY <1>8, <3>1, <3>2, GoesOn
        <3>4. PICK p \in Nat : p = Len(text) /\ Len(more) = p + 1
            BY <3>3
        <3>5. ByteIn(s, p, {Quote})
            BY <3>1, <3>3, <3>4, OccursByte
        <3>6. PICK m, phase : /\ m \in Nat
                              /\ ReadIn(e, phase)
                              /\ Stands(s, m, phase, w, done)
                              /\ StringSoFar(s, Quote, m, p, bytes)
            BY <1>7, <3>3, <3>4
        <3>7. phase \in ValuePhases
            BY <2>2, <3>6 DEF ReadIn
        <3>8. Stands(s, Len(more), Follow(w), w, Append(done, Ev("string", bytes)))
            BY <3>3, <3>4, <3>5, <3>6, <3>7, StandsString
        <3> QED BY <1>3, <1>6, <2>2, <3>8
    <2> QED BY <2>1, <2>2
<1> QED BY <1>5, <1>6, <1>8 DEF ReadsOutside

\* A container ends.
LEMMA ClosingRead ==
    ASSUME NEW d \in Seq(Events), Traversal(d), NEW n \in Nat, n < Len(d), Closes(d[n + 1]),
           NEW text \in Seq(Byte), ReadsOutside(d, text, n),
           NEW c, c = Follow(Containers(d)[n]),
           NEW more, more = text \o <<CloseByte(c)>>
    PROVE  ReadsOutside(d, more, n + 1)
<1>1. PICK e, w, done, phase : /\ e = d[n + 1] /\ w = Containers(d)[n] /\ done = SubSeq(d, 1, n)
                               /\ phase = PhaseAt(d, n)
    OBVIOUS
<1>2. ClosedAt(d, n, e, w)
    BY <1>1, PhaseClosing
<1>3. PICK open2 : open2 = SubSeq(w, 1, Len(w) - 1)
    OBVIOUS
<1>4. /\ w # <<>> /\ c \in Nest /\ e = CloseEvent(c) /\ phase \in {c, FirstPhase(c)}
      /\ Containers(d)[n + 1] = open2 /\ PhaseAt(d, n + 1) = Follow(open2)
    BY <1>1, <1>2, <1>3 DEF ClosedAt
<1>5. SubSeq(d, 1, n + 1) = Append(done, CloseEvent(c))
    BY <1>1, <1>4, OneMore
<1>6. ASSUME NEW s, Extends(s, more)
      PROVE  Stands(s, Len(more), Follow(open2), open2, Append(done, CloseEvent(c)))
    <2>1. PICK b : b = <<CloseByte(c)>> /\ b \in Seq(Byte) /\ Len(b) = 1
        BY <1>4, OneByte, BytesTyped
    <2>2. /\ s \in Seq(Byte) /\ Extends(s, text)
          /\ Len(more) = Len(text) + 1 /\ Len(text) \in Nat
          /\ OccursAt(s, Len(text), b)
        <3>1. more = text \o b
            BY <2>1
        <3> QED BY <1>6, <2>1, <3>1, GoesOn
    <2>3. PICK p \in Nat : p = Len(text) /\ Len(more) = p + 1
        BY <2>2
    <2>4. ByteIn(s, p, {CloseByte(c)})
        BY <2>1, <2>2, <2>3, OccursByte
    <2>5. Separated(s, p)
        <3>1. CloseByte(c) \in Separators
            BY <1>4, BytesTyped
        <3> QED BY <2>4, <3>1 DEF Separated, ByteIn
    <2>6. Stands(s, p, phase, w, done)
        BY <1>1, <2>2, <2>3, <2>5 DEF ReadsOutside
    <2> QED BY <1>3, <1>4, <2>2, <2>3, <2>4, <2>6, StandsCloses
<1> QED BY <1>4, <1>5, <1>6 DEF ReadsOutside

\* The text of a scalar.
ScalarWord(e) == IF e.kind = "number" THEN e.bytes ELSE WordOf(e.kind)

LEMMA ScalarRead ==
    ASSUME NEW d \in Seq(Events), Traversal(d), NEW n \in Nat, n < Len(d),
           NEW e, e = d[n + 1], e.kind \in {"number", "true", "false", "null"},
           NEW text \in Seq(Byte), ReadsOutside(d, text, n),
           NEW more, more = text \o (SeparatorAt(d, n) \o ScalarWord(e))
    PROVE  ReadsOutside(d, more, n + 1)
<1>1. ~Closes(e) /\ ~Begins(e) /\ e.kind # "key"
    BY DEF Closes, Begins
<1>2. PICK sep, w, done : sep = SeparatorAt(d, n) /\ w = Containers(d)[n] /\ done = SubSeq(d, 1, n)
    OBVIOUS
<1>3. /\ w \in Seq(Nest) /\ e.bytes \in Seq(Byte) /\ e = Ev(e.kind, e.bytes) /\ Spelled(e)
    <2>1. EventAt(d, n, e, w)
        BY <1>2, EventFacts
    <2> QED BY <2>1 DEF EventAt
<1>4. Containers(d)[n + 1] = w /\ PhaseAt(d, n + 1) = Follow(w)
    BY <1>1, <1>2, PhaseBehind
<1>5. SubSeq(d, 1, n + 1) = Append(done, e)
    BY <1>2, OneMore
<1>6. Follow(w) \in Nest \cup {"nothing"}
    BY <1>3, FollowNone, FollowLast
<1>7. PICK b \in Seq(Byte) : b = ScalarWord(e)
    <2>1. WordTrue \in Seq(Byte) /\ WordFalse \in Seq(Byte) /\ WordNull \in Seq(Byte)
        BY DEF WordTrue, WordFalse, WordNull, Byte
    <2>2. \A t \in Words : WordOf(t) \in Seq(Byte)
        BY <2>1 DEF WordOf, Words
    <2> QED BY <1>3, <2>2 DEF ScalarWord, Words
<1>8. ASSUME NEW s, Extends(s, more), Separated(s, Len(more))
      PROVE  Stands(s, Len(more), Follow(w), w, Append(done, e))
    <2>2. PICK x \in Seq(Byte) : x = sep \o b /\ sep \in Seq(Byte)
        BY <1>2, <1>7, SeparatorType, Joined
    <2>3. /\ s \in Seq(Byte) /\ Extends(s, text) /\ Len(more) = Len(text) + Len(x)
          /\ OccursAt(s, Len(text), x)
        <3>1. more = text \o x
            BY <1>2, <1>7, <2>2
        <3> QED BY <1>8, <2>2, <3>1, GoesOn
    <2>4. Len(text) \in Nat /\ Len(sep) \in Nat /\ Len(b) \in Nat
        BY <2>2
    <2>5. OccursAt(s, Len(text), sep) /\ OccursAt(s, Len(text) + Len(sep), b)
        BY <1>7, <2>2, <2>3, <2>4, OccursParts
    <2>6. PICK m \in Nat : m = Len(text) + Len(sep)
        BY <2>4
    <2>7. PICK phase : ReadIn(e, phase) /\ Stands(s, m, phase, w, done)
        BY <1>1, <1>2, <2>3, <2>5, <2>6, SeparatorRead
    <2>8. Len(more) = m + Len(b)
        <3>1. Len(x) = Len(sep) + Len(b)
            BY <1>7, <2>2
        <3> QED BY <2>3, <2>4, <2>6, <3>1
    <2>9. phase \in ValuePhases
        BY <1>1, <2>7 DEF ReadIn
    <2>10. OccursAt(s, m, b)
        BY <2>5, <2>6
    <2>11. CASE e.kind = "number"
        <3>1. b = e.bytes /\ Len(b) \in NumberEnds(b, 0)
            BY <1>3, <1>7, <2>11 DEF ScalarWord, Spelled
        <3>2. Stands(s, Len(more), Follow(w), w, Append(done, Ev("number", b)))
            BY <1>8, <2>3, <2>7, <2>8, <2>9, <2>10, <3>1, StandsNumber
        <3> QED BY <1>3, <2>11, <3>1, <3>2
    <2>12. CASE e.kind \in Words
        <3>1. e.kind # "number" /\ e.kind \notin {"number", "string", "key"}
            BY <2>12 DEF Words
        <3>2. b = WordOf(e.kind) /\ e.bytes = <<>>
            BY <1>3, <1>7, <3>1 DEF ScalarWord, Spelled
        <3>3. Stands(s, Len(more), Follow(w), w, Append(done, Ev(e.kind, <<>>)))
            BY <2>3, <2>7, <2>8, <2>9, <2>10, <2>12, <3>2, StandsWord
        <3> QED BY <1>3, <3>2, <3>3
    <2> QED BY <2>11, <2>12 DEF Words
<1> QED BY <1>4, <1>5, <1>6, <1>8 DEF ReadsOutside
-----------------------------------------------------------------------------
(***************************************************************************)
(* The moves of the write pass.                                            *)
(***************************************************************************)
\* The text written up to a place is read as the events handled there.
Reads(d, text, p) == IF WithinString(p) THEN ReadsWithin(d, text, p.i, Top(p).index)
                                        ELSE ReadsOutside(d, text, p.i)

LEMMA OpeningIs ==
    ASSUME NEW p, AtOpening(p)
    PROVE  /\ p.i < Len(doc) /\ ~WithinString(p) /\ ~Closes(Event(p))
           /\ \/ /\ Callee(p) = "string" /\ Event(p).kind \in {"key", "string"}
                 /\ OpeningText(p) = Separator(p) \o <<Quote>>
              \/ /\ Callee(p) \in Nest /\ Event(p).kind = OpenToken(Callee(p))
                 /\ OpeningText(p) = Separator(p) \o <<OpenByte(Callee(p))>>
<1>1. CASE Event(p).kind = "{"
    <2>1. Callee(p) = "object"
        BY <1>1 DEF Callee
    <2>2. OpeningText(p) = Separator(p) \o <<OpenByte(Callee(p))>>
        BY <2>1 DEF OpeningText, OpenByte
    <2> QED BY <1>1, <2>1, <2>2 DEF AtOpening, Closes, OpenToken, Nest
<1>2. CASE Event(p).kind = "["
    <2>1. Callee(p) = "array"
        BY <1>2 DEF Callee
    <2>2. OpeningText(p) = Separator(p) \o <<OpenByte(Callee(p))>>
        BY <2>1 DEF OpeningText, OpenByte
    <2> QED BY <1>2, <2>1, <2>2 DEF AtOpening, Closes, OpenToken, Nest
<1>3. CASE Event(p).kind \in {"key", "string"}
    <2>1. Callee(p) = "string"
        BY <1>3 DEF Callee
    <2>2. OpeningText(p) = Separator(p) \o <<Quote>>
        BY <2>1 DEF OpeningText
    <2> QED BY <1>3, <2>1, <2>2 DEF AtOpening, Closes
<1> QED BY <1>1, <1>2, <1>3 DEF AtOpening

LEMMA ClosingIs ==
    ASSUME NEW p, AtClosing(p)
    PROVE  /\ p.i < Len(doc)
           /\ WithinString(p) =>
                 /\ Top(p).index = Len(Event(p).bytes)
                 /\ ClosingText(p) = IF Event(p).kind = "key" THEN <<Quote, Colon>> ELSE <<Quote>>
           /\ ~WithinString(p) => Closes(Event(p))
           /\ Top(p).kind \in Nest => ClosingText(p) = <<CloseByte(Top(p).kind)>>
<1>1. WithinString(p) =>
          ClosingText(p) = IF Event(p).kind = "key" THEN <<Quote, Colon>> ELSE <<Quote>>
    BY DEF WithinString, ClosingText
<1>2. Top(p).kind \in Nest => ClosingText(p) = <<CloseByte(Top(p).kind)>>
    BY DEF Nest, ClosingText, CloseByte
<1> QED BY <1>1, <1>2 DEF AtClosing, Closes

LEMMA ScalarIs ==
    ASSUME NEW p, AtScalar(p)
    PROVE  /\ p.i < Len(doc) /\ ~WithinString(p) /\ ~Closes(Event(p)) /\ ~Begins(Event(p))
           /\ Event(p).kind \in {"number", "true", "false", "null"}
           /\ ScalarText(p) = Separator(p) \o ScalarWord(Event(p))
<1>1. Event(p).kind \in {"number", "true", "false", "null"}
    BY DEF AtScalar
<1>2. ScalarText(p) = Separator(p) \o ScalarWord(Event(p))
    BY <1>1 DEF ScalarText, ScalarWord, WordOf
<1> QED BY <1>1, <1>2 DEF AtScalar, Closes, Begins

LEMMA PlaceIndex ==
    \A d \in Seq(Events), n \in Nat : n < Len(d) => n \in 0..Len(d) /\ n + 1 \in 0..Len(d)
OBVIOUS

LEMMA MoveEnters ==
    ASSUME doc \in Seq(Events), Traversal(doc), NEW p, Standing(doc, p), AtOpening(p),
           NEW text \in Seq(Byte), Reads(doc, text, p), NEW more, more = text \o OpeningText(p)
    PROVE  Standing(doc, Entered(p)) /\ Reads(doc, more, Entered(p))
<1>1. /\ p \in Place /\ p.i \in Nat /\ p.i < Len(doc) /\ ~WithinString(p) /\ ~Closes(Event(p))
      /\ Containers(doc)[p.i] \in Seq(Nest)
    BY OpeningIs, StandingFacts
<1>2. PICK n \in Nat : n = p.i /\ n < Len(doc) /\ n \in 0..Len(doc) /\ n + 1 \in 0..Len(doc)
    BY <1>1, PlaceIndex
<1>3. PICK e, w, f, c : /\ e = Event(p) /\ e = doc[n + 1] /\ w = Containers(doc)[n]
                        /\ f = Counted(p, Counts(p)) /\ c = Callee(p)
    BY <1>2 DEF Event
<1>4. PICK q : q = Entered(p) /\ q \in Place
    BY <1>1, PlacesType
<1>5. q.i = (IF c = "string" THEN n ELSE n + 1) /\ q.frames = Append(f, Frame(c))
    BY <1>2, <1>3, <1>4 DEF Entered
<1>6. Separator(p) = SeparatorAt(doc, n) /\ Calls(f, w, FALSE) /\ Len(f) = Len(w) + 1
    BY <1>1, <1>2, <1>3, SeparatorIs DEF SeparatorAt
<1>7. ReadsOutside(doc, text, n)
    BY <1>1, <1>2 DEF Reads
<1>8. CASE c = "string" /\ e.kind \in {"key", "string"} /\ OpeningText(p) = Separator(p) \o <<Quote>>
    <2>1. PICK g : /\ g = q.frames /\ Calls(g, w, FALSE) /\ Len(g) = Len(w) + 2
                   /\ g[Len(g)] = Frame("string")
        <3>1. w \in Seq(Nest) /\ q.frames = Append(f, Frame("string"))
            BY <1>1, <1>2, <1>3, <1>5, <1>8
        <3>2. PICK g : g = q.frames
            OBVIOUS
        <3>3. Calls(g, w, FALSE) /\ Len(g) = Len(w) + 2 /\ g[Len(g)] = Frame("string")
            BY <1>6, <3>1, <3>2, CallsString, ZenonT(40)
        <3> QED BY <3>2, <3>3
    <2>2. q.i = n /\ Top(q).kind = "string" /\ Top(q).index = 0
        BY <1>5, <1>8, <2>1 DEF Top, Frame
    <2>3. 0 <= Len(e.bytes)
        <3>1. e.bytes \in Seq(Byte)
            BY <1>2, <1>3, EventFacts DEF EventAt
        <3> QED BY <3>1
    <2>4. Standing(doc, q) /\ WithinString(q)
        BY <1>2, <1>3, <1>4, <1>8, <2>1, <2>2, <2>3, StandingWithin
    <2>5. ReadsWithin(doc, more, n, 0)
        BY <1>2, <1>3, <1>6, <1>7, <1>8, QuoteRead
    <2> QED BY <1>4, <2>2, <2>4, <2>5 DEF Reads
<1>9. CASE c \in Nest /\ e.kind = OpenToken(c) /\ OpeningText(p) = Separator(p) \o <<OpenByte(c)>>
    <2>1. PICK g, v : g = q.frames /\ v = Append(w, c)
        OBVIOUS
    <2>2. q.i = n + 1 /\ g = Append(f, Frame(c))
        BY <1>5, <1>9, <2>1 DEF Nest
    <2>3. Calls(g, v, TRUE) /\ Len(g) = Len(v) + 1
        <3>1. w \in Seq(Nest) /\ c \in Nest
            BY <1>1, <1>2, <1>3, <1>9
        <3>2. Calls(f, w, FALSE) /\ Len(f) = Len(w) + 1 /\ g = Append(f, Frame(c)) /\ v = Append(w, c)
            BY <1>6, <2>1, <2>2
        <3>3. Calls(g, v, TRUE)
            BY <3>1, <3>2, CallsNested
        <3>4. Len(g) = Len(v) + 1
            BY <3>1, <3>2, CallsNested
        <3> QED BY <3>3, <3>4
    <2>4. OpenedAt(doc, n, c)
        BY <1>2, <1>3, <1>9, PhaseOpened
    <2>5. v = Containers(doc)[q.i] /\ Opened(doc, q.i) = TRUE
        BY <1>3, <2>1, <2>2, <2>4 DEF OpenedAt, Opened
    <2>6. v \in Seq(Nest)
        BY <1>1, <1>2, <1>3, <1>9, <2>1
    <2>7. Standing(doc, q) /\ ~WithinString(q)
        BY <1>2, <1>4, <2>1, <2>2, <2>3, <2>5, <2>6, StandingOutside
    <2>8. ReadsOutside(doc, more, n + 1)
        BY <1>2, <1>3, <1>6, <1>7, <1>9, OpeningRead
    <2> QED BY <1>4, <2>2, <2>7, <2>8 DEF Reads
<1> QED BY <1>3, <1>8, <1>9, OpeningIs

LEMMA MoveAdvances ==
    ASSUME doc \in Seq(Events), Traversal(doc), NEW p, Standing(doc, p), AtByte(p),
           NEW text \in Seq(Byte), Reads(doc, text, p),
           NEW more, more = text \o WriteEscaped(Event(p).bytes[Top(p).index + 1])
    PROVE  Standing(doc, Advanced(p)) /\ Reads(doc, more, Advanced(p))
<1>1. /\ p \in Place /\ p.i \in Nat /\ p.i < Len(doc) /\ WithinString(p)
      /\ Containers(doc)[p.i] \in Seq(Nest) /\ Top(p).index < Len(Event(p).bytes)
    BY StandingFacts DEF AtByte
<1>2. PICK n \in Nat : n = p.i /\ n < Len(doc) /\ n \in 0..Len(doc)
    BY <1>1
<1>3. PICK bytes \in Seq(Byte) : bytes = Event(p).bytes /\ bytes = doc[n + 1].bytes
    <2>1. Event(p).bytes \in Seq(Byte)
        BY <1>1, StandingFacts DEF EventAt
    <2> QED BY <1>2, <2>1 DEF Event
<1>4. PICK k \in Nat : k = Top(p).index /\ k < Len(bytes) /\ k + 1 <= Len(bytes)
    <2>1. Top(p).index \in Nat
        BY <1>1, TopType DEF FrameType
    <2> QED BY <1>1, <1>3, <2>1
<1>5. PICK w, f : w = Containers(doc)[n] /\ f = p.frames
    OBVIOUS
<1>6. Calls(f, w, FALSE) /\ Len(f) = Len(w) + 2 /\ doc[n + 1].kind \in {"key", "string"}
    <2>1. (~WithinString(p) /\ Opened(doc, p.i)) = FALSE
        BY <1>1
    <2> QED BY <1>1, <1>2, <1>5, <2>1 DEF Standing
<1>7. PICK q : q = Advanced(p) /\ q \in Place
    BY <1>1, PlacesType
<1>8. PICK g : /\ g = q.frames /\ q.i = n
               /\ g \in Seq(FrameType) /\ Len(g) = Len(f) /\ \A j \in 1..(Len(g) - 1) : g[j] = f[j]
               /\ g[Len(g)] = [kind |-> Top(p).kind, index |-> k + 1]
    BY <1>1, <1>2, <1>4, <1>5, <1>7, CountedType DEF Advanced
<1>9. Calls(g, w, FALSE) /\ Len(g) = Len(w) + 2
    BY <1>1, <1>2, <1>5, <1>6, <1>8, CallsByte
<1>10. Top(q).kind = "string" /\ Top(q).index = k + 1
    BY <1>1, <1>8 DEF Top, WithinString
<1>11. Standing(doc, q) /\ WithinString(q)
    BY <1>2, <1>3, <1>4, <1>5, <1>6, <1>7, <1>8, <1>9, <1>10, StandingWithin
<1>12. ReadsWithin(doc, more, n, k + 1)
    <2>1. ReadsWithin(doc, text, n, k)
        BY <1>1, <1>2, <1>4 DEF Reads
    <2> QED BY <1>2, <1>3, <1>4, <2>1, ByteRead
<1> QED BY <1>7, <1>8, <1>10, <1>11, <1>12 DEF Reads

LEMMA MoveLeaves ==
    ASSUME doc \in Seq(Events), Traversal(doc), NEW p, Standing(doc, p), AtClosing(p),
           NEW text \in Seq(Byte), Reads(doc, text, p), NEW more, more = text \o ClosingText(p)
    PROVE  Standing(doc, Left(p)) /\ Reads(doc, more, Left(p))
<1>1. /\ p \in Place /\ p.i \in Nat /\ p.i < Len(doc) /\ Containers(doc)[p.i] \in Seq(Nest)
    BY ClosingIs, StandingFacts
<1>2. PICK n \in Nat : n = p.i /\ n < Len(doc) /\ n \in 0..Len(doc) /\ n + 1 \in 0..Len(doc)
    BY <1>1, PlaceIndex
<1>3. PICK e, w, f : e = Event(p) /\ e = doc[n + 1] /\ w = Containers(doc)[n] /\ f = p.frames
    BY <1>2 DEF Event
<1>4. PICK q : q = Left(p) /\ q \in Place
    BY <1>1, PlacesType
<1>5. PICK g : g = q.frames /\ g = SubSeq(f, 1, Len(f) - 1) /\ q.i = n + 1
    BY <1>2, <1>3, <1>4 DEF Left
<1>6. CASE WithinString(p)
    <2>1. /\ Calls(f, w, FALSE) /\ Len(f) = Len(w) + 2 /\ e.kind \in {"key", "string"}
        <3>1. (~WithinString(p) /\ Opened(doc, p.i)) = FALSE
            BY <1>6
        <3> QED BY <1>2, <1>3, <1>6, <3>1 DEF Standing
    <2>2. Calls(g, w, FALSE) /\ Len(g) = Len(w) + 1
        BY <1>1, <1>2, <1>3, <1>5, <2>1, CallsEnd
    <2>3. ~Closes(e) /\ ~Begins(e)
        BY <2>1 DEF Closes, Begins
    <2>4. Containers(doc)[n + 1] = w /\ ~Opened(doc, n + 1)
        BY <1>2, <1>3, <2>3, PhaseBehind
    <2>5. Opened(doc, q.i) = FALSE
        BY <1>5, <2>4 DEF Opened
    <2>6. Standing(doc, q) /\ ~WithinString(q)
        BY <1>1, <1>2, <1>3, <1>4, <1>5, <2>2, <2>4, <2>5, StandingOutside
    <2>7. ReadsWithin(doc, text, n, Len(e.bytes))
        BY <1>2, <1>3, <1>6, ClosingIs DEF Reads
    <2>8. ReadsOutside(doc, more, n + 1)
        BY <1>2, <1>3, <1>6, <2>1, <2>7, ClosingIs, EndRead
    <2> QED BY <1>4, <1>5, <2>6, <2>8 DEF Reads
<1>7. CASE ~WithinString(p)
    <2>1. Closes(e)
        BY <1>3, <1>7, ClosingIs
    <2>2. ClosedAt(doc, n, e, w)
        BY <1>2, <1>3, <2>1, PhaseClosing
    <2>3. PICK v : v = SubSeq(w, 1, Len(w) - 1) /\ v = Containers(doc)[n + 1]
        BY <2>2 DEF ClosedAt
    <2>4. PICK fresh \in BOOLEAN : fresh = (~WithinString(p) /\ Opened(doc, p.i))
        OBVIOUS
    <2>5. Calls(f, w, fresh) /\ Len(f) = Len(w) + 1
        BY <1>2, <1>3, <1>7, <2>4 DEF Standing
    <2>6. v \in Seq(Nest) /\ Calls(g, v, FALSE) /\ Len(g) = Len(v) + 1
        <3>1. w \in Seq(Nest) /\ w # <<>>
            BY <2>2 DEF ClosedAt
        <3>2. g = SubSeq(f, 1, Len(f) - 1) /\ v = SubSeq(w, 1, Len(w) - 1)
            BY <1>5, <2>3
        <3>3. v \in Seq(Nest)
            BY <2>4, <2>5, <3>1, <3>2, CallsReturn
        <3>4. Calls(g, v, FALSE)
            BY <2>4, <2>5, <3>1, <3>2, CallsReturn
        <3>5. Len(g) = Len(v) + 1
            BY <2>4, <2>5, <3>1, <3>2, CallsReturn
        <3> QED BY <3>3, <3>4, <3>5
    <2>7. Opened(doc, q.i) = FALSE
        BY <1>5, <2>2 DEF ClosedAt, Opened
    <2>8. Standing(doc, q) /\ ~WithinString(q)
        BY <1>2, <1>4, <1>5, <2>3, <2>6, <2>7, StandingOutside
    <2>9. Top(p).kind = Follow(w) /\ Follow(w) \in Nest
        <3>1. f[Len(f)].kind = Follow(w)
            <4>1. w \in Seq(Nest) /\ w # <<>>
                BY <2>2 DEF ClosedAt
            <4> QED BY <2>4, <2>5, <4>1, CallsTop, ZenonT(40)
        <3> QED BY <1>3, <2>2, <3>1 DEF Top, ClosedAt
    <2>10. ReadsOutside(doc, text, n)
        BY <1>2, <1>7 DEF Reads
    <2>11. more = text \o <<CloseByte(Follow(w))>>
        BY <2>9, ClosingIs
    <2>12. ReadsOutside(doc, more, n + 1)
        BY <1>2, <1>3, <2>1, <2>10, <2>11, ClosingRead
    <2> QED BY <1>4, <1>5, <2>8, <2>12 DEF Reads
<1> QED BY <1>6, <1>7

LEMMA MovePasses ==
    ASSUME doc \in Seq(Events), Traversal(doc), NEW p, Standing(doc, p), AtScalar(p),
           NEW text \in Seq(Byte), Reads(doc, text, p), NEW more, more = text \o ScalarText(p)
    PROVE  Standing(doc, Passed(p)) /\ Reads(doc, more, Passed(p))
<1>1. /\ p \in Place /\ p.i \in Nat /\ p.i < Len(doc) /\ ~WithinString(p) /\ ~Closes(Event(p))
      /\ Containers(doc)[p.i] \in Seq(Nest)
    BY ScalarIs, StandingFacts
<1>2. PICK n \in Nat : n = p.i /\ n < Len(doc) /\ n \in 0..Len(doc) /\ n + 1 \in 0..Len(doc)
    BY <1>1, PlaceIndex
<1>3. PICK e, w, f : /\ e = Event(p) /\ e = doc[n + 1] /\ w = Containers(doc)[n]
                     /\ f = Counted(p, Counts(p))
    BY <1>2 DEF Event
<1>4. PICK q : q = Passed(p) /\ q \in Place /\ q.i = n + 1 /\ q.frames = f
    <2>1. Passed(p) \in Place
        BY <1>1, PlacesType
    <2>2. Passed(p).i = n + 1 /\ Passed(p).frames = f
        BY <1>2, <1>3 DEF Passed
    <2> QED BY <2>1, <2>2
<1>5. Separator(p) = SeparatorAt(doc, n) /\ Calls(f, w, FALSE) /\ Len(f) = Len(w) + 1
    BY <1>1, <1>2, <1>3, SeparatorIs DEF SeparatorAt
<1>6. Containers(doc)[n + 1] = w /\ ~Opened(doc, n + 1)
    <2>1. ~Closes(e) /\ ~Begins(e)
        BY <1>3, ScalarIs
    <2>2. n < Len(doc) /\ e = doc[n + 1] /\ w = Containers(doc)[n]
        BY <1>2, <1>3
    <2> QED BY <2>1, <2>2, PhaseBehind, ZenonT(60)
<1>7. Opened(doc, q.i) = FALSE
    BY <1>4, <1>6 DEF Opened
<1>8. Standing(doc, q) /\ ~WithinString(q)
    BY <1>1, <1>2, <1>3, <1>4, <1>5, <1>6, <1>7, StandingOutside
<1>9. ReadsOutside(doc, text, n)
    BY <1>1, <1>2 DEF Reads
<1>10. ReadsOutside(doc, more, n + 1)
    BY <1>2, <1>3, <1>5, <1>9, ScalarIs, ScalarRead
<1> QED BY <1>4, <1>8, <1>10 DEF Reads

-----------------------------------------------------------------------------
(***************************************************************************)
(* The text is read back.                                                  *)
(***************************************************************************)
LEMMA ReadsBeginning ==
    ASSUME doc \in Seq(Events)
    PROVE  Standing(doc, Beginning) /\ Reads(doc, <<>>, Beginning)
<1>1. ~WithinString(Beginning) /\ Beginning.i = 0
    BY DEF Beginning, Frame, WithinString, Top
<1>2. PhaseAt(doc, 0) = "value" /\ Containers(doc)[0] = <<>> /\ SubSeq(doc, 1, 0) = <<>>
    <2>1. Len(doc) \in Nat /\ SubSeq(doc, 1, 0) = <<>>
        OBVIOUS
    <2> QED BY <2>1, ContainersSteps DEF PhaseAt
<1>3. Len(<<>>) = 0
    OBVIOUS
<1>4. ASSUME NEW s, Extends(s, <<>>)
      PROVE  Stands(s, Len(<<>>), PhaseAt(doc, 0), Containers(doc)[0], SubSeq(doc, 1, 0))
    <2>1. s \in Seq(Byte)
        BY <1>4 DEF Extends
    <2> QED BY <1>2, <1>3, <2>1, StandsStart
<1>5. ReadsOutside(doc, <<>>, 0)
    BY <1>4 DEF ReadsOutside
<1> QED BY <1>1, <1>5, StandingBeginning DEF Reads

LEMMA ReadAtEnd ==
    ASSUME doc \in Seq(Events), Traversal(doc), NEW p, Standing(doc, p), AtEnd(p),
           NEW text \in Seq(Byte), Reads(doc, text, p)
    PROVE  Accepts(Reference(text)) /\ Reference(text).out = doc
<1>1. p.i = Len(doc) /\ Len(doc) \in Nat /\ Len(text) \in Nat
    BY DEF AtEnd
<1>2. ~WithinString(p)
    <2>1. ~(Len(doc) < Len(doc))
        BY <1>1
    <2> QED BY <1>1, <2>1 DEF Standing
<1>3. ReadsOutside(doc, text, Len(doc))
    BY <1>1, <1>2 DEF Reads
<1>4. Extends(text, text)
    BY <1>1 DEF Extends
<1>5. Separated(text, Len(text))
    BY DEF Separated
<1>6. Containers(doc)[Len(doc)] = <<>> /\ PhaseAt(doc, Len(doc)) = "nothing"
    BY PhaseLast
<1>7. SubSeq(doc, 1, Len(doc)) = doc
    OBVIOUS
<1>8. Stands(text, Len(text), "nothing", <<>>, doc)
    BY <1>3, <1>4, <1>5, <1>6, <1>7 DEF ReadsOutside
<1>9. PICK M \in Nat : Where(text, M, Len(text), "nothing", <<>>, doc)
    BY <1>8 DEF Stands
<1>10. Takes(text, M) /\ Reference(text).out = doc
    BY <1>9, WhereEnds
<1> QED BY <1>10 DEF Takes

\* While the write pass goes through a document the parser could have made, the
\* text so far stands for the part of it that was handled.
ReadSoFar == pass # "size" => Standing(doc, place) /\ Reads(doc, buf, place)

LEMMA ReadInvariant == Spec => [](Traversal(doc) /\ ReadSoFar)
<1>1. Init => Traversal(doc) /\ ReadSoFar
    BY ParsedAssumption DEF Init, ReadSoFar
<1>2. IInv /\ Traversal(doc) /\ ReadSoFar /\ [Next]_vars => (Traversal(doc) /\ ReadSoFar)'
    <2> SUFFICES ASSUME IInv, Traversal(doc), ReadSoFar, [Next]_vars
                 PROVE  (Traversal(doc) /\ ReadSoFar)'
        OBVIOUS
    <2>0. doc \in Seq(Events) /\ place \in Place /\ buf \in Seq(Byte)
        BY DEF IInv, Typed
    <2>1. doc' = doc
        BY DEF Next, SizeEnter, SizeByte, SizeLeave, SizeScalar, Sized, Allocate,
               WriteEnter, WriteByte, WriteLeave, WriteScalar, Writes, Finish, Rendered, vars
    <2>2. Traversal(doc)'
        BY <2>1
    <2>3. CASE SizeEnter \/ SizeByte \/ SizeLeave \/ SizeScalar
        <3>1. pass' = "size"
            BY <2>3 DEF SizeEnter, SizeByte, SizeLeave, SizeScalar, Sized
        <3> QED BY <2>2, <3>1 DEF ReadSoFar
    <2>4. CASE Allocate
        <3>1. place' = Beginning /\ buf' = <<>>
            BY <2>4 DEF Allocate, IInv, Sizing
        <3>2. Standing(doc', place') /\ Reads(doc', buf', place')
            BY <2>0, <2>1, <3>1, ReadsBeginning
        <3> QED BY <2>2, <3>2 DEF ReadSoFar
    <2>5. CASE WriteEnter
        <3>1. /\ AtOpening(place) /\ place' = Entered(place) /\ buf' = buf \o OpeningText(place)
              /\ Standing(doc, place) /\ Reads(doc, buf, place)
            BY <2>5 DEF WriteEnter, Writes, ReadSoFar
        <3>2. Standing(doc', place') /\ Reads(doc', buf', place')
            BY <2>0, <2>1, <3>1, MoveEnters
        <3> QED BY <2>2, <3>2 DEF ReadSoFar
    <2>6. CASE WriteByte
        <3>1. /\ AtByte(place) /\ place' = Advanced(place)
              /\ buf' = buf \o WriteEscaped(Event(place).bytes[Top(place).index + 1])
              /\ Standing(doc, place) /\ Reads(doc, buf, place)
            BY <2>6 DEF WriteByte, Writes, ReadSoFar
        <3>2. Standing(doc', place') /\ Reads(doc', buf', place')
            BY <2>0, <2>1, <3>1, MoveAdvances
        <3> QED BY <2>2, <3>2 DEF ReadSoFar
    <2>7. CASE WriteLeave
        <3>1. /\ AtClosing(place) /\ place' = Left(place) /\ buf' = buf \o ClosingText(place)
              /\ Standing(doc, place) /\ Reads(doc, buf, place)
            BY <2>7 DEF WriteLeave, Writes, ReadSoFar
        <3>2. Standing(doc', place') /\ Reads(doc', buf', place')
            BY <2>0, <2>1, <3>1, MoveLeaves
        <3> QED BY <2>2, <3>2 DEF ReadSoFar
    <2>8. CASE WriteScalar
        <3>1. /\ AtScalar(place) /\ place' = Passed(place) /\ buf' = buf \o ScalarText(place)
              /\ Standing(doc, place) /\ Reads(doc, buf, place)
            BY <2>8 DEF WriteScalar, Writes, ReadSoFar
        <3>2. Standing(doc', place') /\ Reads(doc', buf', place')
            BY <2>0, <2>1, <3>1, MovePasses
        <3> QED BY <2>2, <3>2 DEF ReadSoFar
    <2>9. CASE Finish \/ Rendered \/ UNCHANGED vars
        <3>1. UNCHANGED <<doc, buf, place>> /\ (pass' # "size" => pass # "size")
            BY <2>9 DEF Finish, Rendered, vars
        <3> QED BY <2>2, <3>1 DEF ReadSoFar
    <2> QED BY <2>3, <2>4, <2>5, <2>6, <2>7, <2>8, <2>9 DEF Next
<1> QED BY <1>1, <1>2, Invariant, PTL DEF Spec

\* serialize's text is a text parse<> takes, and it makes the same document of it,
\* whatever document it made first, however deep and however its strings and
\* numbers are spelled.
THEOREM SerializedReadsBack == Spec => []ReadsBack
<1>1. IInv /\ Traversal(doc) /\ ReadSoFar => ReadsBack
    <2> SUFFICES ASSUME IInv, Traversal(doc), ReadSoFar, pass = "done"
                 PROVE  Accepts(Reference(buf)) /\ Reference(buf).out = doc
        BY DEF ReadsBack
    <2>1. doc \in Seq(Events) /\ buf \in Seq(Byte) /\ AtEnd(place)
        BY DEF IInv, Typed
    <2>2. Standing(doc, place) /\ Reads(doc, buf, place)
        BY DEF ReadSoFar
    <2> QED BY <2>1, <2>2, ReadAtEnd
<1> QED BY <1>1, Invariant, ReadInvariant, PTL

-----------------------------------------------------------------------------
(***************************************************************************)
(* A number cut out of a text is a number: w stands in s from offset p on. *)
(***************************************************************************)
\* Every offset of I that lies in w is one of J there.
Covers(s, w, p, I, J) ==
    /\ I \in SUBSET (p..Len(s)) /\ J \in SUBSET (0..Len(w))
    /\ \A j \in 0..Len(w) : p + j \in I => j \in J

LEMMA CoversUnion ==
    ASSUME NEW s, NEW w, NEW p, NEW I, NEW J, Covers(s, w, p, I, J),
           NEW K, NEW L, Covers(s, w, p, K, L)
    PROVE  Covers(s, w, p, I \cup K, J \cup L)
BY DEF Covers

LEMMA CoversClass ==
    ASSUME NEW s \in Seq(Byte), NEW w \in Seq(Byte), NEW p \in Nat, OccursAt(s, p, w),
           NEW S, NEW I, NEW J, Covers(s, w, p, I, J)
    PROVE  Covers(s, w, p, Class(s, I, S), Class(w, J, S))
<1>1. I \in SUBSET (0..Len(s)) /\ J \in SUBSET (0..Len(w)) /\ \A i \in I : p <= i
    BY DEF Covers
<1>2. Class(s, I, S) \in SUBSET (p..Len(s))
    <2>1. ASSUME NEW e \in Class(s, I, S) PROVE e \in p..Len(s)
        <3>1. PICK i \in I : e = i + 1
            BY <1>1, ClassFacts
        <3>2. e \in 0..Len(s)
            BY <1>1, ClassFacts
        <3> QED BY <1>1, <3>1, <3>2
    <2> QED BY <2>1
<1>3. Class(w, J, S) \in SUBSET (0..Len(w))
    BY <1>1, ClassFacts
<1>4. ASSUME NEW j \in 0..Len(w), p + j \in Class(s, I, S) PROVE j \in Class(w, J, S)
    <2>1. PICK i \in I : p + j = i + 1 /\ ByteIn(s, i, S)
        BY <1>1, <1>4, ClassFacts
    <2>2. i \in Nat /\ p <= i
        BY <1>1
    <2>3. PICK k \in 0..Len(w) : j = k + 1 /\ i = p + k /\ k < Len(w) /\ k + 1 \in 1..Len(w)
        <3>1. i - p \in 0..Len(w) /\ j = (i - p) + 1 /\ i = p + (i - p) /\ i - p < Len(w)
            BY <2>1, <2>2
        <3> QED BY <3>1
    <2>4. k \in J
        BY <2>1, <2>3 DEF Covers
    <2>5. s[p + (k + 1)] = w[k + 1] /\ p + (k + 1) = i + 1
        BY <2>3 DEF OccursAt
    <2>6. ByteIn(w, k, S)
        BY <2>1, <2>3, <2>5 DEF ByteIn
    <2> QED BY <1>1, <2>3, <2>4, <2>6, ClassFacts
<1> QED BY <1>2, <1>3, <1>4 DEF Covers

LEMMA CoversSome ==
    ASSUME NEW s \in Seq(Byte), NEW w \in Seq(Byte), NEW p \in Nat, OccursAt(s, p, w),
           NEW S, NEW I, NEW J, Covers(s, w, p, I, J)
    PROVE  Covers(s, w, p, Some(s, I, S), Some(w, J, S))
<1>1. I \in SUBSET (0..Len(s)) /\ J \in SUBSET (0..Len(w)) /\ \A i \in I : p <= i
    BY DEF Covers
<1>2. Some(s, I, S) \in SUBSET (p..Len(s))
    <2>1. ASSUME NEW e \in Some(s, I, S) PROVE e \in p..Len(s)
        <3>1. PICK i \in I : i < e
            BY <1>1, SomeFacts
        <3>2. e \in 0..Len(s)
            BY <1>1, SomeFacts
        <3> QED BY <1>1, <3>1, <3>2
    <2> QED BY <2>1
<1>3. Some(w, J, S) \in SUBSET (0..Len(w))
    BY <1>1, SomeFacts
<1>4. ASSUME NEW j \in 0..Len(w), p + j \in Some(s, I, S) PROVE j \in Some(w, J, S)
    <2>1. PICK x \in I : x < p + j /\ Spans(s, x, p + j, S)
        BY <1>1, <1>4, SomeFacts
    <2>2. x \in Nat /\ p <= x
        BY <1>1
    <2>3. PICK i \in 0..Len(w) : x = p + i /\ i < j
        <3>1. x - p \in 0..Len(w) /\ x = p + (x - p) /\ x - p < j
            BY <2>1, <2>2
        <3> QED BY <3>1
    <2>4. i \in J
        BY <2>1, <2>3 DEF Covers
    <2>5. ASSUME NEW k \in i..(j - 1) PROVE w[k + 1] \in S
        <3>1. p + k \in x..((p + j) - 1) /\ k + 1 \in 1..Len(w) /\ p + (k + 1) = (p + k) + 1
            BY <2>3
        <3>2. s[(p + k) + 1] \in S
            BY <2>1, <3>1 DEF Spans
        <3> QED BY <3>1, <3>2 DEF OccursAt
    <2>6. Spans(w, i, j, S)
        BY <2>3, <2>5 DEF Spans
    <2> QED BY <1>1, <2>3, <2>4, <2>6, SomeFacts
<1> QED BY <1>2, <1>3, <1>4 DEF Covers

LEMMA CoversMany ==
    ASSUME NEW s \in Seq(Byte), NEW w \in Seq(Byte), NEW p \in Nat, OccursAt(s, p, w),
           NEW S, NEW I, NEW J, Covers(s, w, p, I, J)
    PROVE  Covers(s, w, p, Many(s, I, S), Many(w, J, S))
BY CoversSome, CoversUnion DEF Many

LEMMA CoversSign ==
    ASSUME NEW s \in Seq(Byte), NEW w \in Seq(Byte), NEW p \in Nat, OccursAt(s, p, w),
           NEW I, NEW J, Covers(s, w, p, I, J)
    PROVE  Covers(s, w, p, Signed(s, I), Signed(w, J))
BY CoversClass, CoversUnion DEF Signed

LEMMA CoversWord ==
    ASSUME NEW s \in Seq(Byte), NEW w \in Seq(Byte), NEW p \in Nat, OccursAt(s, p, w),
           NEW v \in Seq(Byte), NEW I, NEW J, Covers(s, w, p, I, J)
    PROVE  Covers(s, w, p, Word(s, I, v), Word(w, J, v))
<1>1. I \in SUBSET (0..Len(s)) /\ J \in SUBSET (0..Len(w)) /\ (\A i \in I : p <= i) /\ Len(v) \in Nat
    BY DEF Covers
<1>2. Word(s, I, v) \in SUBSET (p..Len(s))
    <2>1. ASSUME NEW e \in Word(s, I, v) PROVE e \in p..Len(s)
        <3>1. PICK i \in I : e = i + Len(v)
            BY <1>1, WordFacts
        <3>2. e \in 0..Len(s)
            BY <1>1, WordFacts
        <3> QED BY <1>1, <3>1, <3>2
    <2> QED BY <2>1
<1>3. Word(w, J, v) \in SUBSET (0..Len(w))
    BY <1>1, WordFacts
<1>4. ASSUME NEW j \in 0..Len(w), p + j \in Word(s, I, v) PROVE j \in Word(w, J, v)
    <2>1. PICK x \in I : p + j = x + Len(v) /\ OccursAt(s, x, v)
        BY <1>1, <1>4, WordFacts
    <2>2. x \in Nat /\ p <= x
        BY <1>1
    <2>3. PICK i \in 0..Len(w) : x = p + i /\ j = i + Len(v)
        <3>1. x - p \in 0..Len(w) /\ x = p + (x - p) /\ j = (x - p) + Len(v)
            BY <1>1, <2>1, <2>2
        <3> QED BY <3>1
    <2>4. i \in J
        BY <2>1, <2>3 DEF Covers
    <2>5. ASSUME NEW k \in 1..Len(v) PROVE w[i + k] = v[k]
        <3>1. i + k \in 1..Len(w) /\ p + (i + k) = x + k
            BY <1>1, <2>3
        <3> QED BY <2>1, <3>1 DEF OccursAt
    <2>6. OccursAt(w, i, v)
        BY <2>3, <2>5 DEF OccursAt
    <2> QED BY <1>1, <2>3, <2>4, <2>6, WordFacts
<1> QED BY <1>2, <1>3, <1>4 DEF Covers

LEMMA NumberAlone ==
    ASSUME NEW s \in Seq(Byte), NEW w \in Seq(Byte), NEW p \in Nat, OccursAt(s, p, w),
           p + Len(w) \in NumberEnds(s, p)
    PROVE  Len(w) \in NumberEnds(w, 0)
<1> DEFINE At(I, J) == Covers(s, w, p, I, J)
<1>1. /\ \A I, J : At(I, J) => At(Signed(s, I), Signed(w, J))
      /\ \A S : \A I, J : At(I, J) => /\ At(Class(s, I, S), Class(w, J, S))
                                      /\ At(Some(s, I, S), Some(w, J, S))
                                      /\ At(Many(s, I, S), Many(w, J, S))
      /\ \A I, J : At(I, J) => /\ At(Word(s, I, WordInfinity), Word(w, J, WordInfinity))
                               /\ At(Word(s, I, WordNaN), Word(w, J, WordNaN))
    <2>1. ASSUME NEW I, NEW J, At(I, J) PROVE At(Signed(s, I), Signed(w, J))
        BY <2>1, CoversSign
    <2>2. ASSUME NEW S, NEW I, NEW J, At(I, J)
          PROVE  /\ At(Class(s, I, S), Class(w, J, S))
                 /\ At(Some(s, I, S), Some(w, J, S))
                 /\ At(Many(s, I, S), Many(w, J, S))
        BY <2>2, CoversClass, CoversSome, CoversMany
    <2>3. ASSUME NEW I, NEW J, At(I, J)
          PROVE  /\ At(Word(s, I, WordInfinity), Word(w, J, WordInfinity))
                 /\ At(Word(s, I, WordNaN), Word(w, J, WordNaN))
        BY <2>3, CoversWord, NumberWords
    <2> QED BY <2>1, <2>2, <2>3
<1>2. At({p}, {0}) /\ Len(w) \in 0..Len(w)
    <2>1. p \in p..Len(s) /\ 0 \in 0..Len(w) /\ \A j \in 0..Len(w) : p + j = p => j = 0
        BY DEF OccursAt
    <2> QED BY <2>1 DEF Covers
<1>3. \A I, J, K, L : At(I, J) /\ At(K, L) => At(I \cup K, J \cup L)
    BY CoversUnion
<1>4. \A I, J : At(I, J) /\ p + Len(w) \in I => Len(w) \in J
    BY <1>2 DEF Covers
<1> HIDE DEF At
<1>5. PICK zero, one, digit, dot, e, x, hex :
         /\ zero = {Zero} /\ one = 49..57 /\ digit = Digit /\ dot = {Dot}
         /\ e = {69, 101} /\ x = {88, 120} /\ hex = HexDigit
    OBVIOUS
<1>7. At(Signed(s, {p}), Signed(w, {0}))
    BY <1>1, <1>2
<1>8. PICK sign, sign0 : sign = Signed(s, {p}) /\ sign0 = Signed(w, {0}) /\ At(sign, sign0)
    BY <1>7
<1>9. PICK z, z0 : z = Class(s, sign, zero) /\ z0 = Class(w, sign0, zero) /\ At(z, z0)
    BY <1>1, <1>8
<1>10. PICK int, int0 : /\ int = z \cup Many(s, Class(s, sign, one), digit)
                        /\ int0 = z0 \cup Many(w, Class(w, sign0, one), digit)
                        /\ At(int, int0)
    <2>1. At(Class(s, sign, one), Class(w, sign0, one))
        BY <1>1, <1>8
    <2>2. At(Many(s, Class(s, sign, one), digit), Many(w, Class(w, sign0, one), digit))
        BY <1>1, <2>1
    <2>3. At(z \cup Many(s, Class(s, sign, one), digit), z0 \cup Many(w, Class(w, sign0, one), digit))
        BY <1>3, <1>9, <2>2
    <2> QED BY <2>3
<1>11. PICK dec, dec0 : /\ dec = int \cup Many(s, Class(s, int, dot), digit)
                                     \cup Some(s, Class(s, sign, dot), digit)
                        /\ dec0 = int0 \cup Many(w, Class(w, int0, dot), digit)
                                       \cup Some(w, Class(w, sign0, dot), digit)
                        /\ At(dec, dec0)
    <2>1. At(Class(s, int, dot), Class(w, int0, dot)) /\ At(Class(s, sign, dot), Class(w, sign0, dot))
        BY <1>1, <1>8, <1>10
    <2>2. PICK f, f0 : /\ f = Many(s, Class(s, int, dot), digit)
                       /\ f0 = Many(w, Class(w, int0, dot), digit)
                       /\ At(f, f0)
        BY <1>1, <2>1
    <2>3. PICK g, g0 : /\ g = Some(s, Class(s, sign, dot), digit)
                       /\ g0 = Some(w, Class(w, sign0, dot), digit)
                       /\ At(g, g0)
        BY <1>1, <2>1
    <2>4. At((int \cup f) \cup g, (int0 \cup f0) \cup g0)
        BY <1>3, <1>10, <2>2, <2>3
    <2> QED BY <2>2, <2>3, <2>4
<1>12. PICK exp, exp0 : /\ exp = Signed(s, Class(s, dec, e)) /\ exp0 = Signed(w, Class(w, dec0, e))
                        /\ At(exp, exp0)
    BY <1>1, <1>11
<1>13. PICK a, a0 : a = Some(s, exp, digit) /\ a0 = Some(w, exp0, digit) /\ At(a, a0)
    BY <1>1, <1>12
<1>14. PICK b, b0 : /\ b = Some(s, Class(s, z, x), hex) /\ b0 = Some(w, Class(w, z0, x), hex)
                    /\ At(b, b0)
    BY <1>1, <1>9
<1>15. PICK c, c0 : /\ c = Word(s, sign, WordInfinity) /\ c0 = Word(w, sign0, WordInfinity)
                    /\ At(c, c0)
    BY <1>1, <1>8
<1>16. PICK d, d0 : d = Word(s, sign, WordNaN) /\ d0 = Word(w, sign0, WordNaN) /\ At(d, d0)
    BY <1>1, <1>8
<1>17. /\ NumberEnds(s, p) = dec \cup a \cup b \cup c \cup d
       /\ NumberEnds(w, 0) = dec0 \cup a0 \cup b0 \cup c0 \cup d0
    <2>1. NumberEnds(s, p) = dec \cup a \cup b \cup c \cup d
        BY <1>5, <1>8, <1>9, <1>10, <1>11, <1>12, <1>13, <1>14, <1>15, <1>16 DEF NumberEnds
    <2>2. NumberEnds(w, 0) = dec0 \cup a0 \cup b0 \cup c0 \cup d0
        BY <1>5, <1>8, <1>9, <1>10, <1>11, <1>12, <1>13, <1>14, <1>15, <1>16 DEF NumberEnds
    <2> QED BY <2>1, <2>2
<1>18. At(dec \cup a \cup b \cup c \cup d, dec0 \cup a0 \cup b0 \cup c0 \cup d0)
    BY <1>3, <1>11, <1>13, <1>14, <1>15, <1>16
<1>19. PICK I, J : I = dec \cup a \cup b \cup c \cup d /\ J = dec0 \cup a0 \cup b0 \cup c0 \cup d0
    OBVIOUS
<1>20. At(I, J) /\ p + Len(w) \in I
    BY <1>17, <1>18, <1>19
<1>21. Len(w) \in J
    BY <1>4, <1>20
<1> QED BY <1>17, <1>19, <1>21

-----------------------------------------------------------------------------
(***************************************************************************)
(* What the grammar's run makes of a text is a traversal.                  *)
(***************************************************************************)
LEMMA ContainersBefore ==
    ASSUME NEW d, NEW g, NEW n \in Nat, Len(d) = n, Len(g) = n + 1,
           \A k \in 1..n : g[k] = d[k]
    PROVE  \A k \in 0..n : Containers(g)[k] = Containers(d)[k]
<1> DEFINE S == {k \in 0..n : Containers(g)[k] = Containers(d)[k]}
<1>1. Len(d) \in Nat /\ Len(g) \in Nat
    OBVIOUS
<1>2. Containers(g)[0] = <<>> /\ Containers(d)[0] = <<>>
    BY <1>1, ContainersSteps
<1>3. 0 \in S
    BY <1>2
<1>4. ASSUME NEW k \in 1..n, k - 1 \in S PROVE k \in S
    <2>1. k \in 1..Len(d) /\ k \in 1..Len(g) /\ k \in 0..n
        OBVIOUS
    <2>2. Containers(g)[k] = ContainersNext(g[k], Containers(g)[k - 1])
        BY <1>1, <2>1, ContainersSteps
    <2>3. Containers(d)[k] = ContainersNext(d[k], Containers(d)[k - 1])
        BY <1>1, <2>1, ContainersSteps
    <2>4. Containers(g)[k - 1] = Containers(d)[k - 1] /\ g[k] = d[k]
        BY <1>4
    <2> QED BY <2>1, <2>2, <2>3, <2>4
<1>5. 0..n \subseteq S
    <2> HIDE DEF S
    <2> QED BY <1>3, <1>4, BoundedInduction
<1> QED BY <1>5

\* Event e may stand behind n others, the last a key or not, within containers w.
MayFollow(e, n, w, after) ==
    /\ n > 0 => w # <<>>
    /\ e.kind = "]" => Follow(w) = "array"
    /\ e.kind \in {"}", "key"} => Follow(w) = "object" /\ ~after
    /\ e.kind \notin {"}", "]", "key"} => (Follow(w) = "object" <=> after)

\* d is the beginning of a traversal, and the containers w are open behind it.
Partial(d, w) ==
    /\ \E S : d \in Seq(S)
    /\ Containers(d)[Len(d)] = w
    /\ \A k \in 1..Len(d) : Spelled(d[k]) /\ MayStand(d, k - 1, Containers(d)[k - 1])

KeyLast(d) == AfterKey(d, Len(d))

LEMMA PartialEmpty ==
    /\ Partial(<<>>, <<>>) /\ ~KeyLast(<<>>)
<1>1. Len(<<>>) = 0 /\ <<>> \in Seq({}) /\ 1..0 = {}
    OBVIOUS
<1>2. Containers(<<>>)[0] = <<>>
    BY <1>1, ContainersSteps
<1> QED BY <1>1, <1>2 DEF Partial, KeyLast, AfterKey

LEMMA PartialNone ==
    ASSUME NEW d, NEW w, Partial(d, w), Len(d) = 0
    PROVE  w = <<>> /\ d = <<>>
<1>1. PICK S : d \in Seq(S)
    BY DEF Partial
<1>2. d = <<>>
    BY <1>1
<1>3. Containers(d)[0] = <<>>
    BY ContainersSteps
<1> QED BY <1>2, <1>3 DEF Partial

LEMMA PartialGrows ==
    ASSUME NEW d, NEW w, Partial(d, w), NEW e, Spelled(e), MayFollow(e, Len(d), w, KeyLast(d)),
           NEW g, g = Append(d, e)
    PROVE  /\ Partial(g, ContainersNext(e, w))
           /\ Len(g) \in Nat /\ Len(g) > 0
           /\ KeyLast(g) <=> e.kind = "key"
<1>1. PICK S : d \in Seq(S)
    BY DEF Partial
<1>2. PICK n \in Nat : n = Len(d)
    BY <1>1
<1>3. Len(g) = n + 1 /\ g[n + 1] = e /\ \A k \in 1..n : g[k] = d[k]
    BY <1>1, <1>2
<1>4. g \in Seq(S \cup {e})
    <2>1. \A k \in 1..(n + 1) : g[k] \in S \cup {e}
        <3>1. \A k \in 1..n : d[k] \in S
            BY <1>1, <1>2
        <3>2. \A k \in 1..(n + 1) : k \in 1..n \/ k = n + 1
            OBVIOUS
        <3> QED BY <1>3, <3>1, <3>2
    <2>2. d \in Seq(S \cup {e})
        <3>1. \A k \in 1..n : d[k] \in S \cup {e}
            BY <1>1, <1>2
        <3> QED BY <1>1, <1>2, <3>1
    <2> QED BY <2>2
<1>5. \A k \in 0..n : Containers(g)[k] = Containers(d)[k]
    BY <1>2, <1>3, ContainersBefore
<1>6. Containers(g)[n] = w
    BY <1>2, <1>5 DEF Partial
<1>7. Containers(g)[n + 1] = ContainersNext(e, w)
    <2>1. Len(g) \in Nat /\ n + 1 \in 1..Len(g) /\ (n + 1) - 1 = n
        BY <1>3
    <2>2. Containers(g)[n + 1] = ContainersNext(g[n + 1], Containers(g)[(n + 1) - 1])
        BY <2>1, ContainersSteps
    <2> QED BY <1>3, <1>6, <2>1, <2>2
<1>8. AfterKey(g, n) <=> AfterKey(d, n)
    <2>1. n > 0 => g[n] = d[n]
        BY <1>3
    <2> QED BY <2>1 DEF AfterKey
<1>9. ASSUME NEW k \in 1..(n + 1)
      PROVE  Spelled(g[k]) /\ MayStand(g, k - 1, Containers(g)[k - 1])
    <2>1. CASE k = n + 1
        <3>1. k - 1 = n /\ g[k] = e
            BY <1>3, <2>1
        <3>2. MayStand(g, n, w)
            BY <1>2, <1>3, <1>8 DEF MayStand, MayFollow, KeyLast
        <3> QED BY <1>6, <3>1, <3>2
    <2>2. CASE k \in 1..n
        <3>1. g[k] = d[k] /\ k - 1 \in 0..n /\ (k - 1) + 1 = k /\ k \in 1..Len(d)
            BY <1>2, <1>3, <2>2
        <3>2. Spelled(d[k]) /\ MayStand(d, k - 1, Containers(d)[k - 1])
            BY <3>1 DEF Partial
        <3>3. Containers(g)[k - 1] = Containers(d)[k - 1]
            BY <1>5, <3>1
        <3>4. AfterKey(g, k - 1) <=> AfterKey(d, k - 1)
            <4>1. k - 1 > 0 => k - 1 \in 1..n
                BY <3>1
            <4>2. k - 1 > 0 => g[k - 1] = d[k - 1]
                BY <1>3, <4>1
            <4> QED BY <4>2 DEF AfterKey
        <3>5. g[(k - 1) + 1] = d[(k - 1) + 1]
            BY <3>1
        <3>6. MayStand(g, k - 1, Containers(d)[k - 1])
            BY <3>2, <3>4, <3>5 DEF MayStand
        <3> QED BY <3>1, <3>2, <3>3, <3>6
    <2>3. k = n + 1 \/ k \in 1..n
        OBVIOUS
    <2> QED BY <2>1, <2>2, <2>3
<1>10. Partial(g, ContainersNext(e, w))
    <2>1. \A k \in 1..Len(g) : Spelled(g[k]) /\ MayStand(g, k - 1, Containers(g)[k - 1])
        BY <1>3, <1>9
    <2>2. Containers(g)[Len(g)] = ContainersNext(e, w)
        BY <1>3, <1>7
    <2> QED BY <1>4, <2>1, <2>2 DEF Partial
<1>11. Len(g) \in Nat /\ Len(g) > 0
    BY <1>3
<1>12. KeyLast(g) <=> e.kind = "key"
    BY <1>3, <1>11 DEF KeyLast, AfterKey
<1> QED BY <1>10, <1>11, <1>12

\* In this phase, behind n events, the last a key or not, containers w are open.
Placed(phase, w, n, after) ==
    /\ phase = "value" => (n = 0 /\ w = <<>>) \/ (n > 0 /\ Follow(w) = "object" /\ after)
    /\ phase = "item" => n > 0 /\ Follow(w) = "array" /\ ~after
    /\ phase = "pair" => n > 0 /\ Follow(w) = "object" /\ ~after
    /\ phase = "colon" => n > 0 /\ Follow(w) = "object" /\ after
    /\ phase \in Nest => n > 0 /\ Follow(w) = phase /\ ~after
    /\ phase = "nothing" => n > 0 /\ w = <<>>

Builds(phase, w, d) == /\ phase \in Phases /\ w \in Seq(Nest) /\ Partial(d, w)
                       /\ Placed(phase, w, Len(d), KeyLast(d))

LEMMA PlacedBehind ==
    ASSUME NEW w \in Seq(Nest), NEW n, n > 0
    PROVE  Placed(Follow(w), w, n, FALSE)
<1>1. CASE w = <<>>
    <2>1. Follow(w) = "nothing"
        BY <1>1, FollowNone
    <2> QED BY <1>1, <2>1 DEF Placed, Nest
<1>2. CASE w # <<>>
    <2>1. Follow(w) \in Nest
        BY <1>2, FollowLast
    <2> QED BY <2>1 DEF Placed, Nest
<1> QED BY <1>1, <1>2

LEMMA FollowSome == \A w : Follow(w) \in Nest => w # <<>>
BY FollowNone DEF Nest

\* A value,
LEMMA BuildsValue ==
    ASSUME NEW phase \in ValuePhases, NEW w, NEW d, Builds(phase, w, d),
           NEW e, Spelled(e), e.kind \notin {"}", "]", "key"}, NEW g, g = Append(d, e)
    PROVE  /\ Partial(g, ContainersNext(e, w)) /\ w \in Seq(Nest)
           /\ Len(g) \in Nat /\ Len(g) > 0 /\ ~KeyLast(g)
<1>1. Len(d) = 0 => ~KeyLast(d)
    <2>1. ~(0 > 0)
        BY CountFacts
    <2> QED BY <2>1 DEF KeyLast, AfterKey
<1>2. Placed(phase, w, Len(d), KeyLast(d)) /\ Partial(d, w) /\ w \in Seq(Nest)
    BY DEF Builds
<1>3. MayFollow(e, Len(d), w, KeyLast(d))
    <2>1. CASE Len(d) = 0 /\ w = <<>>
        <3>1. ~(Len(d) > 0)
            BY <2>1, CountFacts
        <3>2. Follow(w) = "nothing" /\ ~KeyLast(d)
            BY <1>1, <2>1, FollowNone
        <3> QED BY <3>1, <3>2 DEF MayFollow
    <2>2. CASE Follow(w) = "object" /\ KeyLast(d)
        <3>0. Follow(w) \in Nest
            BY <2>2 DEF Nest
        <3>1. w # <<>>
            BY <3>0, FollowSome
        <3> QED BY <2>2, <3>1 DEF MayFollow
    <2>3. CASE Follow(w) = "array" /\ ~KeyLast(d)
        <3>0. Follow(w) \in Nest
            BY <2>3 DEF Nest
        <3>1. w # <<>>
            BY <3>0, FollowSome
        <3> QED BY <2>3, <3>1 DEF MayFollow
    <2> QED BY <1>2, <2>1, <2>2, <2>3 DEF Placed, ValuePhases
<1>4. Partial(g, ContainersNext(e, w)) /\ Len(g) \in Nat /\ Len(g) > 0
    BY <1>2, <1>3, PartialGrows
<1>5. KeyLast(g) <=> e.kind = "key"
    BY <1>2, <1>3, PartialGrows
<1> QED BY <1>2, <1>4, <1>5

\* which is no container,
LEMMA BuildsScalar ==
    ASSUME NEW phase \in ValuePhases, NEW w, NEW d, Builds(phase, w, d),
           NEW e, Spelled(e), e.kind \in {"string", "number", "true", "false", "null"}
    PROVE  Builds(Follow(w), w, Append(d, e))
<1>1. PICK g : g = Append(d, e)
    OBVIOUS
<1>2. e.kind \notin {"}", "]", "key"} /\ ContainersNext(e, w) = w
    BY DEF ContainersNext
<1>3. Partial(g, w) /\ w \in Seq(Nest)
    BY <1>1, <1>2, BuildsValue
<1>4. Len(g) > 0 /\ KeyLast(g) = FALSE
    <2>1. Len(g) > 0 /\ ~KeyLast(g)
        BY <1>1, <1>2, BuildsValue
    <2> QED BY <2>1 DEF KeyLast, AfterKey
<1>5. Placed(Follow(w), w, Len(g), KeyLast(g))
    BY <1>3, <1>4, PlacedBehind
<1>6. Follow(w) \in Phases
    BY <1>3, FollowFacts
<1> QED BY <1>1, <1>3, <1>5, <1>6 DEF Builds

\* or which is one,
LEMMA BuildsOpening ==
    ASSUME NEW phase \in ValuePhases, NEW w, NEW d, Builds(phase, w, d), NEW c \in Nest
    PROVE  Builds(FirstPhase(c), Append(w, c), Append(d, OpenEvent(c)))
<1>1. PICK e : e = OpenEvent(c)
    OBVIOUS
<1>2. PICK g : g = Append(d, e)
    OBVIOUS
<1>3. e.kind = OpenToken(c) /\ e.bytes = <<>>
    BY <1>1 DEF OpenEvent, Ev
<1>4. Spelled(e) /\ e.kind \notin {"}", "]", "key"}
    BY <1>3 DEF OpenToken, Spelled
<1>5. ContainersNext(e, w) = Append(w, c)
    BY <1>3 DEF ContainersNext, OpenToken, Nest
<1>6. PICK v : v = Append(w, c)
    OBVIOUS
<1>7. Partial(g, v) /\ w \in Seq(Nest)
    BY <1>2, <1>4, <1>5, <1>6, BuildsValue
<1>8. Len(g) > 0 /\ ~KeyLast(g)
    BY <1>2, <1>4, BuildsValue
<1>9. v \in Seq(Nest) /\ Follow(v) = c
    <2>1. Follow(v) = c
        BY <1>6, <1>7, FollowAppend
    <2>2. v \in Seq(Nest)
        BY <1>6, <1>7
    <2> QED BY <2>1, <2>2
<1>10. FirstPhase(c) \in Phases /\ Placed(FirstPhase(c), v, Len(g), KeyLast(g))
    BY <1>8, <1>9 DEF FirstPhase, Nest, Phases, Placed
<1> QED BY <1>1, <1>2, <1>6, <1>7, <1>9, <1>10 DEF Builds

\* a closing bracket,
LEMMA BuildsClosing ==
    ASSUME NEW c \in Nest, NEW phase, phase \in {c, FirstPhase(c)}, NEW w, NEW d,
           Builds(phase, w, d), NEW v, v = SubSeq(w, 1, Len(w) - 1)
    PROVE  Builds(Follow(v), v, Append(d, CloseEvent(c)))
<1>1. PICK e : e = CloseEvent(c)
    OBVIOUS
<1>2. PICK g : g = Append(d, e)
    OBVIOUS
<1>3. e.kind = CloseToken(c) /\ e.bytes = <<>>
    BY <1>1 DEF CloseEvent, Ev
<1>4. Spelled(e)
    BY <1>3 DEF CloseToken, Spelled
<1>5. ContainersNext(e, w) = v
    BY <1>3 DEF ContainersNext, CloseToken
<1>6. Placed(phase, w, Len(d), KeyLast(d)) /\ Partial(d, w) /\ w \in Seq(Nest)
    BY DEF Builds
<1>7. Follow(w) = c /\ ~KeyLast(d)
    BY <1>6 DEF Placed, FirstPhase, Nest
<1>8. MayFollow(e, Len(d), w, KeyLast(d))
    <2>1. w # <<>>
        BY <1>7, FollowSome
    <2> QED BY <1>3, <1>7, <2>1 DEF MayFollow, CloseToken, Nest
<1>9. Partial(g, v)
    BY <1>2, <1>4, <1>5, <1>6, <1>8, PartialGrows
<1>10. Len(g) > 0 /\ (KeyLast(g) <=> e.kind = "key")
    BY <1>2, <1>4, <1>6, <1>8, PartialGrows
<1>11. KeyLast(g) = FALSE
    <2>1. e.kind # "key"
        BY <1>3 DEF CloseToken
    <2> QED BY <1>10, <2>1 DEF KeyLast, AfterKey
<1>12. v \in Seq(Nest)
    <2>1. \A k \in 1..(Len(w) - 1) : w[k] \in Nest
        BY <1>6
    <2> QED BY <1>6, <2>1
<1>13. Placed(Follow(v), v, Len(g), KeyLast(g))
    BY <1>10, <1>11, <1>12, PlacedBehind
<1>14. Follow(v) \in Phases
    BY <1>12, FollowFacts
<1> QED BY <1>1, <1>2, <1>9, <1>12, <1>13, <1>14 DEF Builds

\* a key,
LEMMA BuildsKey ==
    ASSUME NEW w, NEW d, Builds("pair", w, d), NEW e, Spelled(e), e.kind = "key"
    PROVE  Builds("colon", w, Append(d, e))
<1>1. PICK g : g = Append(d, e)
    OBVIOUS
<1>2. Placed("pair", w, Len(d), KeyLast(d)) /\ Partial(d, w) /\ w \in Seq(Nest)
    BY DEF Builds
<1>3. Follow(w) = "object" /\ ~KeyLast(d)
    BY <1>2 DEF Placed
<1>4. MayFollow(e, Len(d), w, KeyLast(d))
    <2>0. Follow(w) \in Nest
        BY <1>3 DEF Nest
    <2>1. w # <<>>
        BY <2>0, FollowSome
    <2> QED BY <1>3, <2>1 DEF MayFollow
<1>5. ContainersNext(e, w) = w
    BY DEF ContainersNext
<1>6. Partial(g, w)
    BY <1>1, <1>2, <1>4, <1>5, PartialGrows
<1>7. Len(g) > 0 /\ (KeyLast(g) <=> e.kind = "key")
    BY <1>1, <1>2, <1>4, PartialGrows
<1>8. Placed("colon", w, Len(g), KeyLast(g)) /\ "colon" \in Phases
    BY <1>3, <1>7 DEF Placed, Nest, Phases
<1> QED BY <1>1, <1>2, <1>6, <1>8 DEF Builds

\* and what separates them.
LEMMA BuildsColon ==
    ASSUME NEW w, NEW d, Builds("colon", w, d)
    PROVE  Builds("value", w, d)
BY DEF Builds, Placed, Phases, Nest

LEMMA BuildsComma ==
    ASSUME NEW c \in Nest, NEW w, NEW d, Builds(c, w, d)
    PROVE  Builds(FirstPhase(c), w, d)
BY DEF Builds, Placed, Phases, Nest, FirstPhase

\* At its end it is a traversal.
LEMMA BuildsTraversal ==
    ASSUME NEW w, NEW d, Builds("nothing", w, d)
    PROVE  Traversal(d)
<1>1. Partial(d, w) /\ w = <<>> /\ Len(d) > 0
    BY DEF Builds, Placed
<1>2. d # <<>>
    <2>1. Len(<<>>) = 0 /\ ~(0 > 0)
        OBVIOUS
    <2> QED BY <1>1, <2>1
<1> QED BY <1>1, <1>2 DEF Partial, Traversal

-----------------------------------------------------------------------------
(***************************************************************************)
(* Step by step.                                                           *)
(***************************************************************************)
Scalars == {"STRING", "NUMBER", "true", "false", "null"}

\* The tokens of each phase.
LEMMA TokenKinds ==
    ASSUME NEW phase \in Phases, NEW t \in Expected[phase]
    PROVE  \/ phase \in ValuePhases /\ \E c \in Nest : t = OpenToken(c)
           \/ phase \in ValuePhases /\ t \in Scalars
           \/ phase = "pair" /\ t \in {"STRING", "IDENT"}
           \/ phase = "colon" /\ t = ":"
           \/ phase \in Nest /\ t = ","
           \/ \E c \in Nest : t = CloseToken(c) /\ phase \in {c, FirstPhase(c)}
<1>1. /\ OpenToken("object") = "{" /\ OpenToken("array") = "["
      /\ CloseToken("object") = "}" /\ CloseToken("array") = "]"
      /\ FirstPhase("object") = "pair" /\ FirstPhase("array") = "item"
      /\ "object" \in Nest /\ "array" \in Nest
    BY Zenon DEF OpenToken, CloseToken, FirstPhase, Nest
<1>2. ASSUME NEW u \in ValueTerminals
      PROVE  u \in Scalars \/ \E c \in Nest : u = OpenToken(c)
    BY <1>1, Zenon DEF ValueTerminals, Scalars
<1>3. CASE phase = "value"
    <2>1. t \in ValueTerminals
        BY <1>3, ExpectedIs, Zenon
    <2> QED BY <1>2, <1>3, <2>1, Zenon DEF ValuePhases
<1>4. CASE phase = "item"
    <2>1. t \in ValueTerminals \/ t = "]"
        BY <1>4, ExpectedIs, Zenon
    <2> QED BY <1>1, <1>2, <1>4, <2>1, Zenon DEF ValuePhases
<1>5. CASE phase = "pair"
    <2>1. t \in {"STRING", "IDENT"} \/ t = "}"
        BY <1>5, ExpectedIs, Zenon
    <2> QED BY <1>1, <1>5, <2>1, Zenon
<1>6. CASE phase = "colon"
    <2>1. t = ":"
        BY <1>6, ExpectedIs, Zenon
    <2> QED BY <1>6, <2>1, Zenon
<1>7. CASE phase = "object"
    <2>1. t = "," \/ t = "}"
        BY <1>7, ExpectedIs, Zenon
    <2> QED BY <1>1, <1>7, <2>1, Zenon
<1>8. CASE phase = "array"
    <2>1. t = "," \/ t = "]"
        BY <1>8, ExpectedIs, Zenon
    <2> QED BY <1>1, <1>8, <2>1, Zenon
<1>9. CASE phase = "nothing"
    BY <1>9, ExpectedIs, Zenon
<1> QED BY <1>3, <1>4, <1>5, <1>6, <1>7, <1>8, <1>9, Zenon DEF Phases

\* What the event of a scalar is.
LEMMA ScalarEvents ==
    ASSUME NEW st, st.phase # "pair", NEW t \in Scalars, NEW raw,
           t = "NUMBER" => Len(raw) \in NumberEnds(raw, 0)
    PROVE  \E e : /\ OutAfter(st, t, raw) = Append(st.out, e) /\ Spelled(e)
                  /\ e.kind \in {"string", "number", "true", "false", "null"}
<1>1. CASE t = "STRING"
    <2>1. PICK e : e = Ev("string", DecodeString(raw).bytes)
        OBVIOUS
    <2>2. OutAfter(st, t, raw) = Append(st.out, e)
        BY <1>1, <2>1, OutAfterIs, Zenon
    <2>3. e.kind = "string"
        BY <2>1 DEF Ev
    <2> QED BY <2>2, <2>3 DEF Spelled
<1>2. CASE t = "NUMBER"
    <2>1. PICK e : e = Ev("number", raw)
        OBVIOUS
    <2>2. OutAfter(st, t, raw) = Append(st.out, e)
        BY <1>2, <2>1, OutAfterIs, Zenon
    <2>3. e.kind = "number" /\ e.bytes = raw
        BY <2>1 DEF Ev
    <2> QED BY <1>2, <2>2, <2>3 DEF Spelled
<1>3. CASE t \in {"true", "false", "null"}
    <2>1. PICK e : e = Ev(t, <<>>)
        OBVIOUS
    <2>2. OutAfter(st, t, raw) = Append(st.out, e)
        BY <1>3, <2>1, OutAfterIs, Zenon
    <2>3. e.kind = t /\ e.bytes = <<>>
        BY <2>1 DEF Ev
    <2>4. Spelled(e)
        BY <1>3, <2>3 DEF Spelled
    <2> QED BY <1>3, <2>2, <2>3, <2>4, Zenon
<1> QED BY <1>1, <1>2, <1>3, Zenon DEF Scalars

LEMMA KeyEvents ==
    ASSUME NEW st, st.phase = "pair", NEW t \in {"STRING", "IDENT"}, NEW raw
    PROVE  \E e : /\ OutAfter(st, t, raw) = Append(st.out, e) /\ Spelled(e)
                  /\ e.kind = "key"
<1>1. PICK bytes : bytes = IF t = "STRING" THEN DecodeString(raw).bytes ELSE raw
    OBVIOUS
<1>2. PICK e : e = Ev("key", bytes)
    OBVIOUS
<1>3. OutAfter(st, t, raw) = Append(st.out, e)
    <2>1. CASE t = "STRING"
        <3>1. OutAfter(st, "STRING", raw) = Append(st.out, Ev("key", DecodeString(raw).bytes))
            BY OutAfterIs, Zenon
        <3> QED BY <1>1, <1>2, <2>1, <3>1
    <2>2. CASE t = "IDENT"
        <3>1. OutAfter(st, "IDENT", raw) = Append(st.out, Ev("key", raw))
            BY OutAfterIs, Zenon
        <3> QED BY <1>1, <1>2, <2>2, <3>1
    <2> QED BY <2>1, <2>2
<1>4. e.kind = "key"
    BY <1>2 DEF Ev
<1> QED BY <1>3, <1>4 DEF Spelled

\* A token, other than an ignored one, takes the run from such a state to such a state.
LEMMA TokenBuilds ==
    ASSUME NEW s \in Seq(Byte), NEW phase, NEW open, NEW done, Builds(phase, open, done),
           NEW a, a.phase = phase, a.open = open, a.out = done,
           NEW t \in Expected[phase], NEW raw,
           t = "NUMBER" => Len(raw) \in NumberEnds(raw, 0),
           NEW ph, ph = PhaseAfter(a, t), NEW op, op = OpenAfter(a, t),
           NEW ou, ou = OutAfter(a, t, raw)
    PROVE  Builds(ph, op, ou)
<1>0. phase \in Phases /\ 0 \in 0..Len(s)
    <2>1. 0 \in 0..Len(s)
        OBVIOUS
    <2> QED BY <2>1 DEF Builds
<1>1. ASSUME phase \in ValuePhases, NEW c \in Nest, t = OpenToken(c) PROVE Builds(ph, op, ou)
    <2>1. OpenFacts(s, 0, c, t)
        BY <1>0, <1>1, OpenTokenFacts, Zenon
    <2>2. ph = FirstPhase(c) /\ op = Append(open, c) /\ ou = Append(done, OpenEvent(c))
        BY <2>1, Zenon DEF OpenFacts
    <2>3. Builds(FirstPhase(c), Append(open, c), Append(done, OpenEvent(c)))
        BY <1>1, BuildsOpening, Zenon
    <2> QED BY <2>2, <2>3, Zenon
<1>2. CASE phase \in ValuePhases /\ t \in Scalars
    <2>0. a.phase # "pair"
        BY <1>2 DEF ValuePhases
    <2>1. PICK e : /\ OutAfter(a, t, raw) = Append(a.out, e) /\ Spelled(e)
                   /\ e.kind \in {"string", "number", "true", "false", "null"}
        BY <1>2, <2>0, ScalarEvents, Zenon
    <2>2. op = open
        BY <1>2, OpenAfterIs, Zenon DEF Scalars
    <2>3. ph = Follow(open)
        BY <1>2, <2>0, PhaseAfterIs, Zenon DEF Scalars
    <2>4. Builds(Follow(open), open, Append(done, e))
        BY <1>2, <2>1, BuildsScalar, Zenon
    <2> QED BY <2>1, <2>2, <2>3, <2>4, Zenon
<1>3. CASE phase = "pair" /\ t \in {"STRING", "IDENT"}
    <2>1. PICK e : /\ OutAfter(a, t, raw) = Append(a.out, e) /\ Spelled(e)
                   /\ e.kind = "key"
        BY <1>3, KeyEvents, Zenon
    <2>2. op = open
        BY <1>3, OpenAfterIs, Zenon
    <2>3. ph = "colon"
        BY <1>3, PhaseAfterIs, Zenon
    <2>4. Builds("colon", open, Append(done, e))
        BY <1>3, <2>1, BuildsKey, Zenon
    <2> QED BY <2>1, <2>2, <2>3, <2>4, Zenon
<1>4. CASE phase = "colon" /\ t = ":"
    <2>1. ph = "value" /\ op = open /\ ou = done
        BY <1>4, OpenAfterIs, PhaseAfterIs, OutAfterIs, Zenon
    <2> QED BY <1>4, <2>1, BuildsColon, Zenon
<1>5. CASE phase \in Nest /\ t = ","
    <2>1. op = open /\ ou = done
        BY <1>5, OpenAfterIs, OutAfterIs, Zenon
    <2>2. ph = FirstPhase(phase)
        BY <1>5, PhaseAfterIs, Zenon DEF FirstPhase, Nest
    <2> QED BY <1>5, <2>1, <2>2, BuildsComma, Zenon
<1>6. ASSUME NEW c \in Nest, t = CloseToken(c), phase \in {c, FirstPhase(c)}
      PROVE  Builds(ph, op, ou)
    <2>1. CloseFacts(s, 0, c, t)
        BY <1>0, <1>6, CloseTokenFacts, Zenon
    <2>2. op = SubSeq(open, 1, Len(open) - 1) /\ ph = Follow(op)
        BY <2>1, Zenon DEF CloseFacts
    <2>3. ou = Append(done, CloseEvent(c))
        BY <2>1, Zenon DEF CloseFacts
    <2>4. Builds(Follow(op), op, Append(done, CloseEvent(c)))
        BY <1>6, <2>2, BuildsClosing, Zenon
    <2> QED BY <2>2, <2>3, <2>4, Zenon
<1>7. \/ phase \in ValuePhases /\ \E c \in Nest : t = OpenToken(c)
      \/ phase \in ValuePhases /\ t \in Scalars
      \/ phase = "pair" /\ t \in {"STRING", "IDENT"}
      \/ phase = "colon" /\ t = ":"
      \/ phase \in Nest /\ t = ","
      \/ \E c \in Nest : t = CloseToken(c) /\ phase \in {c, FirstPhase(c)}
    BY <1>0, TokenKinds
<1>8. CASE phase \in ValuePhases /\ \E c \in Nest : t = OpenToken(c)
    BY <1>1, <1>8
<1>9. CASE \E c \in Nest : t = CloseToken(c) /\ phase \in {c, FirstPhase(c)}
    BY <1>6, <1>9
<1> QED BY <1>2, <1>3, <1>4, <1>5, <1>7, <1>8, <1>9, Zenon

\* A state of a run that goes on, and what it has made of the text.
Building(s, st) ==
    \E p \in 0..Len(s) : \E phase, open, done, bd, d :
        st = State(p, phase, open, done, bd, d) /\ Builds(phase, open, done)

\* What is made of a text that is valid.
Made(s, st) == /\ st.status = "reading" => Building(s, st)
               /\ st.status = "valid" => Traversal(st.out)

LEMMA StartBuilds == ASSUME NEW s \in Seq(Byte) PROVE Building(s, Start)
<1>1. Len(<<>>) = 0 /\ <<>> \in Seq(Nest) /\ 0 \in 0..Len(s)
    OBVIOUS
<1>2. Builds("value", <<>>, <<>>)
    BY <1>1, PartialEmpty DEF Builds, Placed, Phases, Nest
<1>3. Start = State(0, "value", <<>>, <<>>, TRUE, 0)
    BY DEF Start, State
<1> QED BY <1>1, <1>2, <1>3, Zenon DEF Building

\* The number that a token is.
LEMMA NumberTaken ==
    ASSUME NEW s \in Seq(Byte), NEW p \in 0..Len(s), NEW e \in 0..Len(s), p < e,
           e \in NumberEnds(s, p), NEW raw, raw = Slice(s, p, e)
    PROVE  Len(raw) \in NumberEnds(raw, 0)
<1>1. PICK n \in Nat : n = Len(s)
    OBVIOUS
<1>2. raw \in Seq(Byte)
    BY SliceType
<1>3. Len(raw) = e - p /\ \A k \in 1..(e - p) : raw[k] = s[p + k]
    <2>1. /\ p + 1 \in Int /\ e \in Int
          /\ Len(SubSeq(s, p + 1, e)) = (e - (p + 1)) + 1
        OBVIOUS
    <2>2. \A k \in 1..(e - p) : SubSeq(s, p + 1, e)[k] = s[((p + 1) + k) - 1]
        OBVIOUS
    <2>3. \A k \in 1..(e - p) : ((p + 1) + k) - 1 = p + k
        OBVIOUS
    <2> QED BY <2>1, <2>2, <2>3 DEF Slice
<1>4. p + Len(raw) = e
    BY <1>3
<1>5. OccursAt(s, p, raw)
    BY <1>1, <1>3 DEF OccursAt
<1> QED BY <1>2, <1>4, <1>5, NumberAlone

LEMMA StepBuilds ==
    ASSUME NEW s \in Seq(Byte), NEW a, Building(s, a), NEW b, b = Step(s, a)
    PROVE  Made(s, b)
<1>0. PICK p \in 0..Len(s) :
          \E phase, open, done, bd, d :
              a = State(p, phase, open, done, bd, d) /\ Builds(phase, open, done)
    BY Zenon DEF Building
<1>1. PICK phase, open, done, bd, d :
          a = State(p, phase, open, done, bd, d) /\ Builds(phase, open, done)
    BY <1>0
<1>2. a.status = "reading" /\ a.pos = p /\ a.phase = phase /\ a.open = open /\ a.out = done
    BY <1>1, StateFields
<1>3. phase \in Phases
    BY <1>1 DEF Builds
<1>4. CASE p = Len(s)
    <2>1. /\ phase = "nothing" => b.status = "valid"
          /\ phase # "nothing" => b.status = "invalid"
          /\ b.out = done
        BY <1>1, <1>4, StepEnds
    <2>2. phase = "nothing" => Traversal(done)
        BY <1>1, BuildsTraversal
    <2> QED BY <2>1, <2>2 DEF Made
<1>5. CASE p # Len(s) /\ LexesNothing(s, p, phase)
    <2>1. b.status = "invalid"
        BY <1>1, <1>5, StepStops
    <2> QED BY <2>1 DEF Made
<1>6. CASE p # Len(s) /\ ~LexesNothing(s, p, phase)
    <2>1. PICK t \in Allowed(phase), e \in 0..Len(s) :
              p < e /\ e \in TerminalEnds(t, s, p) /\ Lexes(s, p, phase, t, e)
        BY <1>3, <1>6, SomeToken
    <2>2. CASE t \in Ignored
        <3>1. b = State(e, phase, open, done, bd, d)
            BY <1>1, <1>3, <1>6, <2>1, <2>2, StepShifts
        <3>2. Building(s, b)
            BY <1>1, <3>1, Zenon DEF Building
        <3>3. b.status = "reading"
            BY <3>1, StateFields
        <3> QED BY <3>2, <3>3 DEF Made
    <2>3. CASE t \notin Ignored
        <3>1. PICK raw : raw = Slice(s, p, e)
            OBVIOUS
        <3>2. b = After(a, t, e, raw)
            BY <1>1, <1>3, <1>6, <2>1, <2>3, <3>1, StepShifts
        <3>3. PICK ph, op, ou : /\ ph = PhaseAfter(a, t) /\ op = OpenAfter(a, t)
                                /\ ou = OutAfter(a, t, raw)
            OBVIOUS
        <3>4. PICK bo, de : bo = BoundAfter(a, t, raw) /\ de = DeepestAfter(a, t)
            OBVIOUS
        <3>5. b = State(e, ph, op, ou, bo, de)
            BY <3>2, <3>3, <3>4, Zenon DEF After
        <3>6. t \in Expected[phase]
            BY <2>1, <2>3, Zenon DEF Allowed
        <3>7. t = "NUMBER" => Len(raw) \in NumberEnds(raw, 0)
            <4>1. t = "NUMBER" => e \in NumberEnds(s, p)
                BY <2>1, EndsOf, Zenon
            <4> QED BY <2>1, <3>1, <4>1, NumberTaken
        <3>8. Builds(ph, op, ou)
            BY <1>1, <1>2, <3>3, <3>6, <3>7, TokenBuilds, Zenon
        <3>9. Building(s, b)
            BY <3>5, <3>8, Zenon DEF Building
        <3>10. b.status = "reading"
            BY <3>5, StateFields
        <3> QED BY <3>9, <3>10 DEF Made
    <2> QED BY <2>2, <2>3
<1> QED BY <1>4, <1>5, <1>6

\* What the compile-time parser makes of a valid text, whatever the text, is a
\* traversal: what is assumed of the documents that are serialized holds of all those
\* it makes.  (parse<> in src/include/ctjson5.hpp; bind.hpp)
THEOREM ParsedIsTraversal ==
    \A s \in Seq(Byte) : Reference(s).status = "valid" => Traversal(Reference(s).out)
<1> SUFFICES ASSUME NEW s \in Seq(Byte) PROVE Made(s, Reference(s))
    BY DEF Made
<1>1. PICK N \in Nat : N = Len(s) + 1
    OBVIOUS
<1>2. PICK run : run = RunOf(s)
    OBVIOUS
<1>3. /\ run[0] = Start /\ \A k \in 1..N : run[k] = RunRound(s, run[k - 1])
      /\ Reference(s) = run[N]
    BY <1>1, <1>2, RunFacts
<1> DEFINE S == {k \in 0..N : Made(s, run[k])}
<1>4. 0 \in S
    <2>1. Building(s, Start) /\ Start.status = "reading"
        BY StartBuilds DEF Start
    <2> QED BY <1>3, <2>1 DEF Made
<1>5. ASSUME NEW k \in 1..N, k - 1 \in S PROVE k \in S
    <2>1. PICK a : a = run[k - 1] /\ Made(s, a)
        BY <1>5
    <2>2. run[k] = RunRound(s, a)
        BY <1>3, <2>1
    <2>3. CASE a.status = "reading"
        <3>1. Building(s, a)
            BY <2>1, <2>3 DEF Made
        <3>2. Made(s, Step(s, a))
            BY <3>1, StepBuilds
        <3>3. run[k] = Step(s, a)
            BY <2>2, <2>3 DEF RunRound
        <3> QED BY <3>2, <3>3
    <2>4. CASE a.status # "reading"
        <3>1. run[k] = a
            BY <2>2, <2>4 DEF RunRound
        <3> QED BY <2>1, <3>1
    <2> QED BY <2>3, <2>4
<1>6. 0..N \subseteq S
    <2> HIDE DEF S
    <2> QED BY <1>4, <1>5, BoundedInduction
<1> QED BY <1>1, <1>3, <1>6

=============================================================================

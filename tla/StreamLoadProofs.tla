-------------------------- MODULE StreamLoadProofs --------------------------
(***************************************************************************)
(* load parses the whole stream (WholeStream of module StreamLoad), and    *)
(* the error of a text that is rejected describes it (RejectionLocated),   *)
(* for every stream, every size of the buffer and any number of calls.     *)
(***************************************************************************)
EXTENDS StreamLoad, ScanningProofs, SequenceTheorems, FiniteSetTheorems

\* What WholeStream rests on: the types of what is concatenated, and what the
\* state of the stream says of the loop and of the rest.
Reading ==
    /\ source \in Seq(Byte)
    /\ content \in Seq(Byte)
    /\ stream.rest \in Seq(Byte)
    /\ stream.state \in {"good", "ended", "broken"}
    /\ stream.state = "ended" => stream.rest = <<>>
    /\ pc = "read" => stream.state # "good"
    /\ pc # "idle" => result = "none"

Whole == Reading /\ WholeStream

-----------------------------------------------------------------------------
\* The first n bytes and the others make up a sequence of bytes.
LEMMA Split ==
    \A s \in Seq(Byte) : \A n \in 0..Len(s) :
        /\ [k \in 1..n |-> s[k]] \in Seq(Byte)
        /\ SubSeq(s, n + 1, Len(s)) \in Seq(Byte)
        /\ [k \in 1..n |-> s[k]] \o SubSeq(s, n + 1, Len(s)) = s
<1> TAKE s \in Seq(Byte)
<1> TAKE n \in 0..Len(s)
<1> DEFINE head == [k \in 1..n |-> s[k]]
           tail == SubSeq(s, n + 1, Len(s))
<1>1. head \in Seq(Byte) /\ Len(head) = n
  OBVIOUS
<1>2. tail \in Seq(Byte) /\ Len(tail) = Len(s) - n
  OBVIOUS
<1>3. \A k \in 1..(Len(s) - n) : tail[k] = s[n + k]
  OBVIOUS
<1>4. \A k \in 1..n : head[k] = s[k]
  OBVIOUS
<1> HIDE DEF head, tail
<1>5. head \o tail \in Seq(Byte) /\ Len(head \o tail) = Len(s)
  BY <1>1, <1>2
<1>6. ASSUME NEW k \in 1..Len(s) PROVE (head \o tail)[k] = s[k]
  <2>1. CASE k <= n
    BY <1>1, <1>2, <1>4, <2>1
  <2>2. CASE k > n
    <3>1. (head \o tail)[k] = tail[k - n]
      BY <1>1, <1>2, <2>2
    <3>2. k - n \in 1..(Len(s) - n) /\ n + (k - n) = k
      BY <2>2
    <3> QED
      BY <1>3, <3>1, <3>2
  <2>3. k <= n \/ k > n
    OBVIOUS
  <2> QED
    BY <2>1, <2>2, <2>3
<1>7. head \o tail = s
  BY <1>5, <1>6, SeqEqual
<1> QED
  BY <1>1, <1>2, <1>7 DEF head, tail

\* Concatenation is associative.
LEMMA Associative ==
    \A a, b, c \in Seq(Byte) : (a \o b) \o c = a \o (b \o c)
BY ConcatAssociative

\* A read that does not break the stream takes a first part of the rest, and
\* all of it when the stream ends.
LEMMA ReadsFacts ==
    ASSUME Reading, NEW st \in Reads(stream)
    PROVE  /\ st.rest \in Seq(Byte)
           /\ st.state \in {"good", "ended", "broken"}
           /\ st.state = "ended" => st.rest = <<>>
           /\ st.gcount \in 0..Len(stream.rest) /\ st.gcount <= Chunk
           /\ st.state # "broken" =>
                 st.rest = SubSeq(stream.rest, st.gcount + 1, Len(stream.rest))
<1>1. stream.rest \in Seq(Byte) /\ Len(stream.rest) \in Nat /\ Chunk \in Nat
  BY ChunkAssumption DEF Reading
<1>2. Available(stream) \in 0..Len(stream.rest) /\ Available(stream) <= Chunk
  BY <1>1 DEF Available
<1>3. \A n \in 0..Len(stream.rest) : Beyond(stream, n) \in Seq(Byte)
  BY <1>1 DEF Beyond
<1>4. CASE st = Read(stream.rest, stream.state, 0) /\ stream.state # "good"
  <2>1. st.rest = stream.rest /\ st.state = stream.state /\ st.gcount = 0
    BY <1>4 DEF Read
  <2>2. SubSeq(stream.rest, 0 + 1, Len(stream.rest)) = stream.rest
    BY <1>1
  <2> QED
    BY <1>1, <1>4, <2>1, <2>2 DEF Reading
<1>5. CASE st = Read(Beyond(stream, Available(stream)),
                     IF Available(stream) < Chunk THEN "ended" ELSE "good",
                     Available(stream))
  <2>1. /\ st.rest = Beyond(stream, Available(stream))
        /\ st.gcount = Available(stream)
        /\ st.state = IF Available(stream) < Chunk THEN "ended" ELSE "good"
    BY <1>5 DEF Read
  <2>2. Available(stream) < Chunk => Beyond(stream, Available(stream)) = <<>>
    <3>1. SUFFICES ASSUME Available(stream) < Chunk
                   PROVE  Beyond(stream, Available(stream)) = <<>>
      OBVIOUS
    <3>2. Available(stream) = Len(stream.rest)
      BY <1>1, <3>1 DEF Available
    <3>3. SubSeq(stream.rest, Len(stream.rest) + 1, Len(stream.rest)) = <<>>
      BY <1>1
    <3> QED
      BY <3>2, <3>3 DEF Beyond
  <2> QED
    BY <1>2, <1>3, <2>1, <2>2 DEF Beyond
<1>6. ASSUME NEW n \in 0..Available(stream), NEW lost \in 0..Available(stream),
             st = Read(Beyond(stream, lost), "broken", n)
      PROVE  /\ st.rest \in Seq(Byte) /\ st.state = "broken"
             /\ st.gcount \in 0..Len(stream.rest) /\ st.gcount <= Chunk
  <2>1. st.rest = Beyond(stream, lost) /\ st.gcount = n /\ st.state = "broken"
    BY <1>6 DEF Read
  <2> QED
    BY <1>1, <1>2, <1>3, <2>1
<1> QED
  BY <1>4, <1>5, <1>6 DEF Reads

\* The loop keeps the invariant: at every border of a chunk the bytes appended
\* and the bytes left are the stream's, in order.
LEMMA ReadChunkWhole ==
    ASSUME Whole, ReadChunk
    PROVE  Whole'
<1>1. PICK st \in Reads(stream) :
         /\ stream' = st
         /\ IF Another(st)
            THEN content' = Appended(st.gcount, stream.rest) /\ UNCHANGED pc
            ELSE pc' = "read" /\ UNCHANGED content
         /\ UNCHANGED <<source, result>>
  BY DEF ReadChunk
<1> DEFINE n == st.gcount
           head == [k \in 1..n |-> stream.rest[k]]
           tail == SubSeq(stream.rest, n + 1, Len(stream.rest))
<1>2. /\ st.rest \in Seq(Byte)
      /\ st.state \in {"good", "ended", "broken"}
      /\ st.state = "ended" => st.rest = <<>>
      /\ n \in 0..Len(stream.rest) /\ n <= Chunk
      /\ st.state # "broken" => st.rest = tail
  BY ReadsFacts DEF Whole
<1>3. /\ pc = "reading" /\ result = "none"
      /\ stream.rest \in Seq(Byte) /\ content \in Seq(Byte) /\ source \in Seq(Byte)
  BY DEF ReadChunk, Whole, Reading
<1>4. head \in Seq(Byte) /\ tail \in Seq(Byte) /\ head \o tail = stream.rest
  <2>1. st.gcount \in 0..Len(stream.rest)
    BY <1>2
  <2> QED
    BY <1>3, <2>1, Split
<1>5. Appended(n, stream.rest) = content \o head
  <2>1. \A k \in 1..n : Filled(n, stream.rest)[k] = stream.rest[k]
    BY <1>2, ChunkAssumption DEF Filled
  <2>2. [k \in 1..n |-> Filled(n, stream.rest)[k]] = head
    BY <2>1
  <2> QED
    BY <2>2 DEF Appended
<1>6. st.state # "broken" => stream.state # "broken"
  BY <1>1 DEF Reads, Read
<1>7. stream.state # "broken" => content \o stream.rest = source
  BY DEF Whole, WholeStream
<1>8. n \in Nat /\ (~Another(st) => st.state # "good" /\ n = 0)
  BY <1>2 DEF Another
<1>9. n = 0 => tail = stream.rest
  BY <1>3
<1> HIDE DEF n, head, tail
<1>10. CASE Another(st)
  <2>1. content' = content \o head
    BY <1>1, <1>5, <1>10 DEF n
  <2>2. content' \in Seq(Byte)
    BY <1>3, <1>4, <2>1
  <2>3. (content \o head) \o tail = content \o (head \o tail)
    BY <1>3, <1>4, Associative
  <2>4. st.state # "broken" => content' \o st.rest = source
    BY <1>2, <1>4, <1>6, <1>7, <2>1, <2>3
  <2> QED
    BY <1>1, <1>2, <1>3, <1>10, <2>2, <2>4 DEF Reading, Whole, WholeStream
<1>11. CASE ~Another(st)
  <2>1. st.state # "broken" => content \o st.rest = source
    BY <1>2, <1>6, <1>7, <1>8, <1>9, <1>11
  <2> QED
    BY <1>1, <1>2, <1>3, <1>8, <1>11, <2>1 DEF Reading, Whole, WholeStream
<1> QED
  BY <1>10, <1>11

\* When loads is called, content is all that the stream held.
LEMMA ReadWhole ==
    ASSUME Whole, pc = "read", stream.state # "broken"
    PROVE  content = source
<1>1. stream.rest = <<>> /\ content \o stream.rest = source
  BY DEF Whole, Reading, WholeStream
<1> QED
  BY <1>1 DEF Whole, Reading

\* Every step keeps the invariant.
LEMMA StepWhole ==
    ASSUME Whole, [Next]_vars
    PROVE  Whole'
<1>1. CASE Call
  <2>1. PICK text \in Sources : source' = text /\ stream' = Opened(text)
    BY <1>1 DEF Call
  <2>2. text \in Seq(Byte)
    BY <2>1, SourcesAssumption
  <2>3. Opened(text).rest = text /\ Opened(text).state = "good"
    BY DEF Opened, Read
  <2>4. /\ stream'.rest = source' /\ stream'.state = "good" /\ source' \in Seq(Byte)
        /\ content' = <<>> /\ pc' = "reading" /\ result' = "none"
    BY <1>1, <2>1, <2>2, <2>3 DEF Call
  <2>5. <<>> \o source' = source' /\ <<>> \in Seq(Byte)
    BY <2>4
  <2> QED
    BY <2>4, <2>5 DEF Whole, Reading, WholeStream
<1>2. CASE StreamFailed
  BY <1>2 DEF StreamFailed, Return, Whole, Reading, WholeStream
<1>3. CASE TextAccepted
  BY <1>3, ReadWhole DEF TextAccepted, Return, Whole, Reading, WholeStream
<1>4. CASE TextRejected
  BY <1>4, ReadWhole DEF TextRejected, Return, Whole, Reading, WholeStream
<1>5. CASE UNCHANGED vars
  BY <1>5 DEF vars, Whole, Reading, WholeStream
<1> QED
  BY <1>1, <1>2, <1>3, <1>4, <1>5, ReadChunkWhole DEF Next, Idle

\* Before the first call.
LEMMA InitWhole == Init => Whole
<1> SUFFICES ASSUME Init PROVE Whole
  OBVIOUS
<1>1. stream.rest = <<>> /\ stream.state = "good"
  BY DEF Init, Opened, Read
<1>2. source = <<>> /\ content = <<>> /\ pc = "idle" /\ result = "none"
  BY DEF Init
<1>3. <<>> \o <<>> = <<>> /\ <<>> \in Seq(Byte)
  OBVIOUS
<1> QED
  BY <1>1, <1>2, <1>3 DEF Whole, Reading, WholeStream

(***************************************************************************)
(* A call that parses, parses all the bytes of its stream in order, for    *)
(* every size of the buffer, whatever calls came before; a stream that     *)
(* broke is never parsed, and a document is only made of a whole text.     *)
(***************************************************************************)
THEOREM LoadReadsWholeStream == Spec => []WholeStream
<1>1. Whole /\ [Next]_vars => Whole'
  BY StepWhole
<1>2. Whole => WholeStream
  BY DEF Whole
<1> QED
  BY InitWhole, <1>1, <1>2, PTL DEF Spec

-----------------------------------------------------------------------------
(***************************************************************************)
(* Line and column.  Locate counts them byte by byte; Describes says what  *)
(* they mean.                                                              *)
(***************************************************************************)
Place == [line : Nat, column : Nat]

Start == [line |-> 1, column |-> 1]

NextPlace(text, n, before) == IF text[n] = LF
                              THEN [line |-> before.line + 1, column |-> 1]
                              ELSE [before EXCEPT !.column = @ + 1]

LineFeeds(text, n) == {k \in 1..n : text[k] = LF}

\* What Describes says, of any offset and place.
Located(text, n, at) ==
    /\ at \in Place
    /\ at.line = 1 + Cardinality(LineFeeds(text, n))
    /\ n - (at.column - 1) \in 0..n
    /\ n - (at.column - 1) = 0 \/ text[n - (at.column - 1)] = LF
    /\ \A k \in (n - (at.column - 1) + 1)..n : text[k] # LF

\* Locate is the last of a sequence of places, each computed from the one before.
LEMMA LocateSteps ==
    ASSUME NEW text, NEW offset \in Nat
    PROVE  \E h \in [0..offset -> Place] :
              /\ h[0] = Start
              /\ \A n \in 1..offset : h[n] = NextPlace(text, n, h[n - 1])
              /\ Locate(text, offset) = h[offset]
<1> DEFINE Step == [n \in 1..offset |-> [b \in Place |-> NextPlace(text, n, b)]]
           Computes(f) == f = [n \in 0..offset |->
                                  IF n = 0 THEN Start ELSE NextPlace(text, n, f[n - 1])]
           place == CHOOSE f : Computes(f)
<1>1. Start \in Place
  BY DEF Start, Place
<1>2. Step \in [1..offset -> [Place -> Place]]
  BY DEF Place, NextPlace
<1>3. PICK h \in [0..offset -> Place] : Iterates(h, Start, Step, offset)
  <2> HIDE DEF Step
  <2> QED
    BY <1>1, <1>2, Recursion
<1>4. h[0] = Start /\ \A n \in 1..offset : h[n] = NextPlace(text, n, h[n - 1])
  <2>1. h[0] = Start /\ \A n \in 1..offset : h[n] = Step[n][h[n - 1]]
    BY <1>3 DEF Iterates
  <2>2. ASSUME NEW n \in 1..offset PROVE Step[n][h[n - 1]] = NextPlace(text, n, h[n - 1])
    <3>1. h[n - 1] \in Place
      OBVIOUS
    <3> QED
      BY <3>1
  <2> HIDE DEF Step
  <2> QED
    BY <2>1, <2>2
<1>5. Computes(h)
  BY <1>4
<1>6. Computes(place)
  BY <1>5
<1>7. Locate(text, offset) = place[offset]
  BY DEF Locate, NextPlace, Start
<1>8. place[0] = Start /\ \A n \in 1..offset : place[n] = NextPlace(text, n, place[n - 1])
  <2> HIDE DEF place
  <2>1. place = [n \in 0..offset |->
                   IF n = 0 THEN Start ELSE NextPlace(text, n, place[n - 1])]
    BY <1>6
  <2> QED
    BY <2>1
<1>9. place \in [0..offset -> Place]
  <2> DEFINE S == {n \in 0..offset : place[n] \in Place}
  <2> HIDE DEF place
  <2>1. 0 \in S
    BY <1>1, <1>8
  <2>2. ASSUME NEW n \in 1..offset, n - 1 \in S PROVE n \in S
    <3>1. place[n - 1] \in Place
      BY <2>2
    <3>2. NextPlace(text, n, place[n - 1]) \in Place
      BY <3>1 DEF NextPlace, Place
    <3> QED
      BY <1>8, <3>2
  <2>3. 0..offset \subseteq S
    <3> HIDE DEF S
    <3> QED
      BY <2>1, <2>2, BoundedInduction
  <2> QED
    BY <1>6, <2>3
<1> HIDE DEF place
<1> QED
  BY <1>7, <1>8, <1>9

\* A line feed more, or none.
LEMMA LineFeedsStep ==
    ASSUME NEW text, NEW n \in Nat \ {0}
    PROVE  /\ Cardinality(LineFeeds(text, n - 1)) \in Nat
           /\ text[n] = LF => Cardinality(LineFeeds(text, n))
                                = Cardinality(LineFeeds(text, n - 1)) + 1
           /\ text[n] # LF => LineFeeds(text, n) = LineFeeds(text, n - 1)
<1> DEFINE S == LineFeeds(text, n - 1)
<1>1. IsFiniteSet(1..(n - 1)) /\ S \in SUBSET (1..(n - 1))
  BY FS_Interval DEF LineFeeds
<1>2. IsFiniteSet(S)
  BY <1>1, FS_Subset
<1>3. Cardinality(S) \in Nat
  BY <1>2, FS_CardinalityType
<1>4. CASE text[n] = LF
  <2>1. LineFeeds(text, n) = S \cup {n} /\ n \notin S
    BY <1>4 DEF LineFeeds
  <2> HIDE DEF S
  <2>2. Cardinality(S \cup {n}) = Cardinality(S) + 1
    BY <1>2, <2>1, FS_AddElement
  <2> QED
    BY <1>3, <1>4, <2>1, <2>2 DEF S
<1>5. CASE text[n] # LF
  BY <1>3, <1>5 DEF LineFeeds
<1> QED
  BY <1>4, <1>5

\* One byte further.
LEMMA LocatedStep ==
    ASSUME NEW text, NEW n \in Nat \ {0}, NEW at, Located(text, n - 1, at)
    PROVE  Located(text, n, NextPlace(text, n, at))
<1>1. PICK l \in Nat, c \in Nat : at = [line |-> l, column |-> c]
  BY DEF Located, Place
<1>2. /\ l = 1 + Cardinality(LineFeeds(text, n - 1)) /\ (n - 1) - (c - 1) \in 0..(n - 1)
      /\ (n - 1) - (c - 1) = 0 \/ text[(n - 1) - (c - 1)] = LF
      /\ \A k \in ((n - 1) - (c - 1) + 1)..(n - 1) : text[k] # LF
  BY <1>1 DEF Located
<1>3. CASE text[n] = LF
  <2>1. NextPlace(text, n, at) = [line |-> l + 1, column |-> 1]
    BY <1>1, <1>3 DEF NextPlace
  <2>2. l + 1 = 1 + Cardinality(LineFeeds(text, n))
    BY <1>2, <1>3, LineFeedsStep
  <2>3. n - (1 - 1) = n /\ n \in 0..n /\ \A k \in (n + 1)..n : text[k] # LF
    OBVIOUS
  <2> QED
    BY <1>3, <2>1, <2>2, <2>3 DEF Located, Place
<1>4. CASE text[n] # LF
  <2>1. NextPlace(text, n, at) = [line |-> l, column |-> c + 1]
    BY <1>1, <1>4 DEF NextPlace
  <2>2. l = 1 + Cardinality(LineFeeds(text, n))
    BY <1>2, <1>4, LineFeedsStep
  <2>3. n - ((c + 1) - 1) = (n - 1) - (c - 1)
    OBVIOUS
  <2>4. (n - 1) - (c - 1) \in 0..n
    BY <1>2
  <2>5. \A k \in ((n - 1) - (c - 1) + 1)..n : text[k] # LF
    <3>1. SUFFICES ASSUME NEW k \in ((n - 1) - (c - 1) + 1)..n PROVE text[k] # LF
      OBVIOUS
    <3>2. k = n \/ k \in ((n - 1) - (c - 1) + 1)..(n - 1)
      BY <2>4
    <3> QED
      BY <1>2, <1>4, <3>2
  <2>6. [line |-> l, column |-> c + 1] \in Place
    BY DEF Place
  <2> QED
    BY <1>2, <2>1, <2>2, <2>3, <2>4, <2>5, <2>6 DEF Located
<1> QED
  BY <1>3, <1>4

\* Locate finds the line and column that describe the offset.
LEMMA LocateDescribes ==
    ASSUME NEW text, NEW offset \in Nat
    PROVE  Located(text, offset, Locate(text, offset))
<1>1. PICK h \in [0..offset -> Place] :
         /\ h[0] = Start
         /\ \A n \in 1..offset : h[n] = NextPlace(text, n, h[n - 1])
         /\ Locate(text, offset) = h[offset]
  BY LocateSteps
<1> DEFINE S == {n \in 0..offset : Located(text, n, h[n])}
<1>2. 0 \in S
  <2>1. LineFeeds(text, 0) = {}
    BY DEF LineFeeds
  <2>2. Cardinality({}) = 0
    BY FS_EmptySet
  <2>3. Located(text, 0, Start)
    <3>1. Start \in Place /\ Start.line = 1 /\ Start.column = 1
      BY DEF Start, Place
    <3>2. 0 - (1 - 1) = 0 /\ 1 = 1 + 0 /\ 0 \in 0..0
      OBVIOUS
    <3>3. \A k \in (0 + 1)..0 : text[k] # LF
      OBVIOUS
    <3> QED
      BY <2>1, <2>2, <3>1, <3>2, <3>3 DEF Located
  <2> QED
    BY <1>1, <2>3
<1>3. ASSUME NEW n \in 1..offset, n - 1 \in S PROVE n \in S
  <2>1. Located(text, n - 1, h[n - 1])
    BY <1>3
  <2>2. Located(text, n, h[n])
    BY <1>1, <2>1, LocatedStep
  <2> QED
    BY <2>2
<1>4. 0..offset \subseteq S
  <2> HIDE DEF S
  <2> QED
    BY <1>2, <1>3, BoundedInduction
<1> QED
  BY <1>1, <1>4

-----------------------------------------------------------------------------
\* The types and the error of the text that was rejected last.
Loading == Whole /\ LoadTypeOK /\ RejectionLocated

\* A read keeps to the buffer and to bytes.
LEMMA ReadChunkLoading ==
    ASSUME Loading, ReadChunk
    PROVE  LoadTypeOK' /\ RejectionLocated'
<1>1. PICK st \in Reads(stream) :
         /\ stream' = st
         /\ buffer' = Filled(st.gcount, stream.rest)
         /\ IF Another(st)
            THEN content' = Appended(st.gcount, stream.rest) /\ UNCHANGED pc
            ELSE pc' = "read" /\ UNCHANGED content
         /\ UNCHANGED <<source, error, result, calls>>
  BY DEF ReadChunk
<1>2. /\ st.rest \in Seq(Byte) /\ st.state \in {"good", "ended", "broken"}
      /\ st.gcount \in 0..Len(stream.rest) /\ st.gcount <= Chunk
  BY ReadsFacts DEF Loading, Whole
<1>3. /\ stream.rest \in Seq(Byte) /\ content \in Seq(Byte) /\ Chunk \in Nat
      /\ buffer \in [1..Chunk -> Byte \cup {Unset}] /\ pc = "reading" /\ result = "none"
  BY ChunkAssumption DEF Loading, Whole, LoadTypeOK, ReadChunk, Reading
<1>4. Filled(st.gcount, stream.rest) \in [1..Chunk -> Byte \cup {Unset}]
  <2>1. \A k \in 1..Chunk : k <= st.gcount => stream.rest[k] \in Byte
    BY <1>2, <1>3
  <2> QED
    BY <1>2, <1>3, <2>1 DEF Filled
<1>5. content' \in Seq(Byte)
  <2>1. \A k \in 1..st.gcount : Filled(st.gcount, stream.rest)[k] \in Byte
    BY <1>2, <1>3 DEF Filled
  <2>2. [k \in 1..st.gcount |-> Filled(st.gcount, stream.rest)[k]] \in Seq(Byte)
    BY <1>2, <2>1
  <2>3. Appended(st.gcount, stream.rest) \in Seq(Byte)
    BY <1>3, <2>2 DEF Appended
  <2> QED
    BY <1>1, <1>3, <2>3
<1>6. stream'.gcount \in 0..Chunk
  BY <1>1, <1>2, <1>3
<1>7. pc' \in {"reading", "read"}
  BY <1>1, <1>3
<1> QED
  BY <1>1, <1>2, <1>3, <1>4, <1>5, <1>6, <1>7 DEF Loading, LoadTypeOK, RejectionLocated

\* A rejected text is described by its error.
LEMMA RejectedLoading ==
    ASSUME Loading, TextRejected
    PROVE  LoadTypeOK' /\ RejectionLocated'
<1>1. PICK offset \in 0..Len(content) :
         error' = [position |-> offset, message |-> "rejected",
                   line |-> Locate(content, offset).line,
                   column |-> Locate(content, offset).column]
  BY DEF TextRejected
<1>2. content \in Seq(Byte) /\ Len(content) \in Nat /\ offset \in Nat /\ offset <= Len(content)
  <2>1. content \in Seq(Byte)
    BY DEF Loading, LoadTypeOK
  <2> QED
    BY <2>1
<1>3. PICK at : at = Locate(content, offset) /\ Located(content, offset, at)
  BY <1>2, LocateDescribes
<1>4. /\ error'.position = offset /\ error'.line = at.line /\ error'.column = at.column
      /\ at.line \in Nat /\ at.column \in Nat
  BY <1>1, <1>3 DEF Located, Place
<1>5. Describes(content)'
  BY <1>2, <1>3, <1>4 DEF Describes, Located, LineFeeds, TextRejected, Return
<1>6. RejectionLocated'
  BY <1>5 DEF RejectionLocated, TextRejected, Return
<1>7. LoadTypeOK'
  <2>1. error' \in [position : Nat, message : Messages, line : Nat, column : Nat]
    BY <1>1, <1>2, <1>3, <1>4 DEF Messages
  <2> QED
    BY <2>1 DEF Loading, LoadTypeOK, TextRejected, Return
<1> QED
  BY <1>6, <1>7

\* Every step keeps the types and the description.
LEMMA StepLoading ==
    ASSUME Loading, [Next]_vars
    PROVE  Loading'
<1> SUFFICES LoadTypeOK' /\ RejectionLocated'
  BY StepWhole DEF Loading
<1>1. CASE Call
  <2>1. PICK text \in Sources : source' = text /\ stream' = Opened(text)
    BY <1>1 DEF Call
  <2>2. text \in Seq(Byte)
    BY <2>1, SourcesAssumption
  <2>3. /\ Opened(text).rest = text /\ Opened(text).state = "good"
        /\ Opened(text).gcount = 0
    BY DEF Opened, Read
  <2>4. calls' \in 0..MaxCalls
    <3>1. calls \in 0..MaxCalls /\ calls < MaxCalls /\ calls' = calls + 1
      BY <1>1 DEF Call, Loading, LoadTypeOK
    <3> QED
      BY <3>1, CallsAssumption
  <2>5. 0 \in 0..Chunk /\ <<>> \in Seq(Byte)
    BY ChunkAssumption
  <2>6. LoadTypeOK'
    BY <1>1, <2>1, <2>2, <2>3, <2>4, <2>5 DEF Call, Loading, LoadTypeOK
  <2>7. RejectionLocated'
    BY <1>1 DEF Call, RejectionLocated
  <2> QED
    BY <2>6, <2>7
<1>2. CASE ReadChunk
  BY <1>2, ReadChunkLoading
<1>3. CASE StreamFailed
  <2>1. error' \in [position : Nat, message : Messages, line : Nat, column : Nat]
    BY <1>3 DEF StreamFailed, Loading, LoadTypeOK, Messages
  <2>2. LoadTypeOK'
    BY <1>3, <2>1 DEF StreamFailed, Return, Loading, LoadTypeOK
  <2> QED
    BY <1>3, <2>2 DEF StreamFailed, Return, RejectionLocated
<1>4. CASE TextAccepted
  BY <1>4 DEF TextAccepted, Return, Loading, LoadTypeOK, RejectionLocated
<1>5. CASE TextRejected
  BY <1>5, RejectedLoading
<1>6. CASE UNCHANGED vars
  BY <1>6 DEF vars, Loading, LoadTypeOK, RejectionLocated, Describes
<1> QED
  BY <1>1, <1>2, <1>3, <1>4, <1>5, <1>6 DEF Next, Idle

\* Before the first call.
LEMMA InitLoading == Init => Loading
<1> SUFFICES ASSUME Init PROVE Loading
  OBVIOUS
<1>1. stream.rest = <<>> /\ stream.state = "good" /\ stream.gcount = 0
  BY DEF Init, Opened, Read
<1>2. 0 \in 0..Chunk /\ 0 \in 0..MaxCalls /\ <<>> \in Seq(Byte)
  BY ChunkAssumption, CallsAssumption
<1>3. LoadTypeOK
  <2>1. error \in [position : Nat, message : Messages, line : Nat, column : Nat]
    BY DEF Init, Messages
  <2>2. buffer \in [1..Chunk -> Byte \cup {Unset}]
    BY DEF Init
  <2> QED
    BY <1>1, <1>2, <2>1, <2>2 DEF Init, LoadTypeOK
<1>4. RejectionLocated
  BY DEF Init, RejectionLocated
<1> QED
  BY <1>3, <1>4, InitWhole DEF Loading

LEMMA LoadingHolds == Spec => []Loading
<1>1. Loading /\ [Next]_vars => Loading'
  BY StepLoading
<1> QED
  BY InitLoading, <1>1, PTL DEF Spec

(***************************************************************************)
(* What load appends was read: content never holds a byte of the buffer    *)
(* that was not written, on no path out of the loop, and the buffer is     *)
(* never written beyond its end.                                           *)
(***************************************************************************)
THEOREM LoadTypeCorrect == Spec => []LoadTypeOK
<1>1. Loading => LoadTypeOK
  BY DEF Loading
<1> QED
  BY <1>1, LoadingHolds, PTL

(***************************************************************************)
(* The line of a rejected text's error is one more than the line feeds     *)
(* before the offset, and the column counts from the last of them, for     *)
(* every text and offset and whatever calls left their error before.       *)
(***************************************************************************)
THEOREM RejectionsLocated == Spec => []RejectionLocated
<1>1. Loading => RejectionLocated
  BY DEF Loading
<1> QED
  BY <1>1, LoadingHolds, PTL

=============================================================================

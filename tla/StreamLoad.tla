----------------------------- MODULE StreamLoad -----------------------------
(***************************************************************************)
(* load of load.hpp: a caller parses one stream after another and passes   *)
(* the same load_error to every call.  The stream is read in chunks into a *)
(* buffer on the stack, what was read is appended to content, and loads    *)
(* parses content once the stream has ended without breaking.              *)
(*                                                                         *)
(*  - source is what the stream of the call under way holds, stream what   *)
(*    is left of it, its state and the gcount of the last read.            *)
(*  - buffer holds Unset where nothing was written: it is not initialized. *)
(*  - error is the caller's load_error.                                    *)
(*                                                                         *)
(* std::istream is external: Reads(st) is what stream.read may do.  What   *)
(* loads makes of content is decided by the constant Documents; where in   *)
(* the text it fails is left open (module RuntimeParser, InBounds).        *)
(*                                                                         *)
(* An operator named ...Fault is a plausible mistake in the operator that  *)
(* follows it: some property must fail when it takes that one's place.     *)
(***************************************************************************)
EXTENDS Bytes, FiniteSets

CONSTANTS
    Sources,    \* what the streams may hold
    Documents,  \* the texts that loads accepts
    Chunk,      \* sizeof(buffer), 4096 in the code
    MaxCalls    \* bound on the number of calls

ASSUME SourcesAssumption == Sources \subseteq Seq(Byte)
ASSUME ChunkAssumption   == Chunk \in Nat \ {0}
ASSUME CallsAssumption   == MaxCalls \in Nat

VARIABLES pc, source, stream, buffer, content, error, result, calls

vars == <<pc, source, stream, buffer, content, error, result, calls>>

Unset == 256

-----------------------------------------------------------------------------
(***************************************************************************)
(* stream.read(buffer, Chunk): all of the chunk, or less at the end of the *)
(* stream, or the stream breaks, and then some of the bytes it was reading *)
(* may be lost.  A stream that is not good reads nothing.                  *)
(***************************************************************************)
Available(st) == IF Len(st.rest) < Chunk THEN Len(st.rest) ELSE Chunk

Beyond(st, n) == SubSeq(st.rest, n + 1, Len(st.rest))

Read(rest, state, gcount) == [rest |-> rest, state |-> state, gcount |-> gcount]

Reads(st) ==
    IF st.state # "good" THEN {Read(st.rest, st.state, 0)}
    ELSE {Read(Beyond(st, Available(st)),
               IF Available(st) < Chunk THEN "ended" ELSE "good", Available(st))}
         \cup {Read(Beyond(st, lost), "broken", n) :
                  n \in 0..Available(st), lost \in 0..Available(st)}

Opened(text) == Read(text, "good", 0)

\* The buffer once n bytes have been written to its start.
Filled(n, bytes) == [k \in 1..Chunk |-> IF k <= n THEN bytes[k] ELSE buffer[k]]

\* Fault: columns are counted from 0 after the first line.
LocateFault(text, offset) ==
    LET place[n \in 0..offset] ==
            IF n = 0 THEN [line |-> 1, column |-> 1]
            ELSE LET before == place[n - 1]
                 IN  IF text[n] = LF
                     THEN [line |-> before.line + 1, column |-> 0]
                     ELSE [before EXCEPT !.column = @ + 1]
    IN  place[offset]

\* ctlark::locate: the loop over the bytes before the offset.
Locate(text, offset) ==
    LET place[n \in 0..offset] ==
            IF n = 0 THEN [line |-> 1, column |-> 1]
            ELSE LET before == place[n - 1]
                 IN  IF text[n] = LF
                     THEN [line |-> before.line + 1, column |-> 1]
                     ELSE [before EXCEPT !.column = @ + 1]
    IN  place[offset]

-----------------------------------------------------------------------------
Init ==
    /\ pc = "idle"
    /\ source = <<>>
    /\ stream = Opened(<<>>)
    /\ buffer = [k \in 1..Chunk |-> Unset]
    /\ content = <<>>
    /\ error = [position |-> 0, message |-> "", line |-> 1, column |-> 1]
    /\ result = "none"
    /\ calls = 0

\* The caller opens a stream and calls load.
Call ==
    /\ pc = "idle"
    /\ calls < MaxCalls
    /\ \E text \in Sources : source' = text /\ stream' = Opened(text)
    /\ pc' = "reading"
    /\ buffer' = [k \in 1..Chunk |-> Unset]
    /\ content' = <<>>
    /\ result' = "none"
    /\ calls' = calls + 1
    /\ UNCHANGED error

\* Fault: the loop ends with the first read that is not a whole chunk.
AnotherFault(st) == st.state = "good"

\* Fault: the loop goes on until the stream breaks.
EndlessFault(st) == st.state # "broken"

\* stream.read(..) || stream.gcount() > 0
Another(st) == st.state = "good" \/ st.gcount > 0

\* Fault: the whole buffer is appended, whatever was read into it.
AppendedFault(n, bytes) == content \o Filled(n, bytes)

\* content.append(buffer, gcount)
Appended(n, bytes) == content \o [k \in 1..n |-> Filled(n, bytes)[k]]

\* One evaluation of the loop's condition, and its body if that holds.
ReadChunk ==
    /\ pc = "reading"
    /\ \E st \in Reads(stream) :
          /\ stream' = st
          /\ buffer' = Filled(st.gcount, stream.rest)
          /\ IF Another(st)
             THEN content' = Appended(st.gcount, stream.rest) /\ UNCHANGED pc
             ELSE pc' = "read" /\ UNCHANGED content
    /\ UNCHANGED <<source, error, result, calls>>

Return(outcome) ==
    /\ pc' = "idle"
    /\ result' = outcome
    /\ UNCHANGED <<source, stream, buffer, content, calls>>

\* stream.bad(): only the message is set.
StreamFailed ==
    /\ pc = "read"
    /\ stream.state = "broken"
    /\ error' = [error EXCEPT !.message = "the stream failed"]
    /\ Return("stream failed")

TextAccepted ==
    /\ pc = "read"
    /\ stream.state # "broken"
    /\ content \in Documents
    /\ UNCHANGED error
    /\ Return("document")

\* loads fails: the parser's error, and its line and column.
TextRejected ==
    /\ pc = "read"
    /\ stream.state # "broken"
    /\ content \notin Documents
    /\ \E offset \in 0..Len(content) :
          LET at == Locate(content, offset)
          IN  error' = [position |-> offset, message |-> "rejected",
                        line |-> at.line, column |-> at.column]
    /\ Return("text rejected")

\* The caller has no more streams.
Idle == pc = "idle" /\ calls = MaxCalls /\ UNCHANGED vars

Next == Call \/ ReadChunk \/ StreamFailed \/ TextAccepted \/ TextRejected \/ Idle

Spec == Init /\ [][Next]_vars

\* load runs on the caller's thread; the caller need not call.
FairSpec == Spec /\ WF_vars(ReadChunk \/ StreamFailed \/ TextAccepted \/ TextRejected)

-----------------------------------------------------------------------------
(***************************************************************************)
(* Properties.                                                             *)
(***************************************************************************)
Messages == {"", "rejected", "the stream failed"}

\* Type invariant; what is appended was read, never an unset byte.
LoadTypeOK ==
    /\ pc \in {"idle", "reading", "read"}
    /\ source \in Sources \cup {<<>>}
    /\ stream.rest \in Seq(Byte) /\ stream.gcount \in 0..Chunk
    /\ stream.state \in {"good", "ended", "broken"}
    /\ buffer \in [1..Chunk -> Byte \cup {Unset}]
    /\ content \in Seq(Byte)
    /\ error \in [position : Nat, message : Messages, line : Nat, column : Nat]
    /\ result \in {"none", "document", "stream failed", "text rejected"}
    /\ calls \in 0..MaxCalls

\* load parses all the stream holds, in order: while it reads nothing is lost
\* or read twice at the borders of chunks, and when it parses nothing is left.
\* A stream that broke is never parsed.
WholeStream ==
    /\ stream.state # "broken" => content \o stream.rest = source
    /\ result \in {"document", "text rejected"} => content = source
    /\ result = "document" => source \in Documents

\* The error of load describes the error's offset: line and column are those
\* at which an editor shows it.  This holds for the first `position` bytes of
\* the text and needs no other call.
Describes(text) ==
    LET start == error.position - (error.column - 1)
    IN  /\ error.position <= Len(text)
        /\ error.line = 1 + Cardinality({k \in 1..error.position : text[k] = LF})
        /\ start \in 0..error.position
        /\ start = 0 \/ text[start] = LF
        /\ \A k \in (start + 1)..error.position : text[k] # LF

\* A rejected text's error describes it, whatever calls came before.
RejectionLocated == result = "text rejected" => Describes(content)

\* line and column are "filled by loads/load on failure": after every call
\* that fails they describe what that call read.
FilledOnFailure ==
    result \in {"text rejected", "stream failed"} => Describes(content)

\* Every call returns, on streams that end or break.
EveryCallReturns == pc # "idle" ~> pc = "idle"

=============================================================================

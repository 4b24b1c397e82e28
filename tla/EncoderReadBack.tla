-------------------------- MODULE EncoderReadBack --------------------------
(***************************************************************************)
(* The encoder next to the compile-time parser: what dumps writes is read  *)
(* again and compared with what was dumped.                                *)
(***************************************************************************)
EXTENDS Encoder
LOCAL INSTANCE SequencesExt
LOCAL INSTANCE FiniteSets

Grammar == INSTANCE Json5Grammar

Loaded == Grammar!Reference(out)

-----------------------------------------------------------------------------
(***************************************************************************)
(* What is meant: the bytes of a string, or, under ensure_ascii, its       *)
(* characters, and a character for each byte that belongs to none.         *)
(***************************************************************************)
Characters(bytes) ==
    LET rest[p \in 0..Len(bytes)] ==
            LET ends == {n \in 2..4 : /\ p + n <= Len(bytes)
                                      /\ IsCharacter(Slice(bytes, p, p + n))}
            IN  IF p = Len(bytes) THEN <<>>
                ELSE IF ends = {} THEN Utf8(bytes[p + 1]) \o rest[p + 1]
                ELSE LET n == CHOOSE m \in ends : TRUE
                     IN  Slice(bytes, p, p + n) \o rest[p + n]
    IN  rest[0]

Spelling(v) == IF v < 0 THEN <<Minus>> \o Decimal(-v) ELSE Decimal(v)

Meant(event) ==
    CASE event.kind = "integer"     -> Grammar!Ev("number", Spelling(event.value))
      [] event.kind = "integer_key" -> Grammar!Ev("key", Spelling(event.value))
      [] event.kind \in {"string", "key"} /\ options.ensure_ascii ->
            Grammar!Ev(event.kind, Characters(event.bytes))
      [] OTHER -> event

Meaning == [k \in 1..Len(doc) |-> Meant(doc[k])]

-----------------------------------------------------------------------------
(***************************************************************************)
(* Where each event of a traversal stands, and how often: all there is to  *)
(* a document but the order of members.  A place is a path of keys and of  *)
(* the numbers of elements; <<-1, n>> is the element with n others before. *)
(***************************************************************************)
NextElement(path) ==
    IF path # <<>> /\ Last(path) # <<>> /\ Last(path)[1] = -1
    THEN [path EXCEPT ![Len(path)] = <<-1, @[2] + 1>>]
    ELSE path

PathAfter(path, event) ==
    CASE event.kind = ArrayStart  -> Append(path, <<-1, 0>>)
      [] event.kind = ObjectStart -> Append(path, <<>>)
      [] event.kind = "key"       -> Append(Front(path), event.bytes)
      [] event.kind \in Ends      -> NextElement(Front(path))
      [] OTHER                    -> NextElement(path)

Places(events) ==
    LET path[n \in 0..Len(events)] ==
            IF n = 0 THEN <<>> ELSE PathAfter(path[n - 1], events[n])
        At(k) == <<IF events[k].kind \in {"key"} \cup Ends THEN Front(path[k - 1])
                                                         ELSE path[k - 1], events[k]>>
    IN  [place \in {At(k) : k \in 1..Len(events)} |->
            Cardinality({k \in 1..Len(events) : At(k) = place})]

-----------------------------------------------------------------------------
(***************************************************************************)
(* The layout of a traversal, from its events and their neighbours.        *)
(***************************************************************************)
\* The containers around event k; a bracket is around neither itself.
Depth(events, k) == Len(Around(events)[IF events[k].kind \in Ends THEN k ELSE k - 1])

Between(events, k) ==
    LET opens  == events[k - 1].kind \in Starts
        closes == events[k].kind \in Ends
    IN  CASE k = 1 -> <<>>
          [] k > 1 /\ events[k - 1].kind \in KeyKinds -> <<Colon, 32>>
          [] k > 1 /\ opens /\ closes  -> <<>>
          [] k > 1 /\ (opens # closes) -> NewlineIfPretty(Depth(events, k))
          [] OTHER                     -> ItemSeparator(Depth(events, k))

LaidOut(events) ==
    FlattenSeq([k \in 1..Len(events) |-> Between(events, k) \o Token(events[k])])

\* The keys at j and k are of members of one object, in this order.
Siblings(events, j, k) ==
    /\ j < k
    /\ {events[j].kind, events[k].kind} \subseteq KeyKinds
    /\ Depth(events, j) = Depth(events, k)
    /\ \A between \in j..k : Depth(events, between) >= Depth(events, k)

-----------------------------------------------------------------------------
(***************************************************************************)
(* Properties.                                                             *)
(***************************************************************************)

\* Under ensure_ascii, what looks like a character of several bytes is one.  (The code
\* tells UTF-8 by its shape, and writes one escape for what only has it.)
Readable(bytes) ==
    \A p \in 0..(Len(bytes) - 1) :
        LET n == Continuation(bytes[p + 1])
        IN  options.ensure_ascii /\ n # 0 /\ (\A k \in 1..n : ByteIn(bytes, p + k, Continuing)) =>
                IsCharacter(Slice(bytes, p, p + n + 1))

\* What dumps writes, with whatever options, is the layout of a document, which is read
\* as the one that was dumped: every event at its place, and in its order unless keys
\* are sorted.  (dumper::value, document, write_members, runtime_document_writer::write)
ReadsBack ==
    Done /\ (\A k \in 1..Len(doc) : doc[k].kind \in {"string", "key"} => Readable(doc[k].bytes)) =>
        /\ Grammar!Accepts(Loaded)
        /\ Places(Loaded.out) = Places(Meaning)
        /\ IF options.sort_keys THEN out = LaidOut(Loaded.out) ELSE Loaded.out = Meaning

\* The dumpers within dumpers together write the layout that the document has
\* from left to right.  (write_array_shell, write_object_shell, item_separator,
\* newline)
Layout == Done /\ ~options.sort_keys => out = LaidOut(doc)

\* Under ensure_ascii no byte above 127 is written, whatever the string holds.
\* (write_string)
AsciiOnly == options.ensure_ascii => \A k \in 1..Len(out) : out[k] < 128

\* A string cut before any byte that continues no sequence is written as its two
\* parts are: what is broken or cut short takes nothing of what follows with it.
\* (write_string, its look-ahead)
PartsApart ==
    Done /\ doc[1].kind = "string" =>
        LET bytes   == doc[1].bytes
            Text(s) == WriteString(s, options.ensure_ascii)
        IN  \A p \in 0..Len(bytes) :
                p = Len(bytes) \/ bytes[p + 1] \notin Continuing =>
                    out = Front(Text(Slice(bytes, 0, p))) \o Tail(Text(Slice(bytes, p, Len(bytes))))

=============================================================================

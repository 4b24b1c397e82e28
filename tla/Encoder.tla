------------------------------ MODULE Encoder ------------------------------
(***************************************************************************)
(* dumps: the dumper of dumps.hpp and runtime_document_writer of load.hpp. *)
(* What is dumped is a traversal: events as in RuntimeParser, and for C++  *)
(* values also "integer" and "integer_key" with a value instead of bytes.  *)
(* An optional, a variant and to_json are what they hold.  Each member of  *)
(* an object is rendered by a dumper of its own, kept with its key, and    *)
(* written when the object ends.  Floating point is modelled in Digits.    *)
(***************************************************************************)
EXTENDS Bytes
LOCAL INSTANCE SequencesExt

CONSTANTS
    Calls,       \* pairs: a traversal, and the dump_options it is dumped with
    IntegerBits  \* the width of long long

-----------------------------------------------------------------------------
(***************************************************************************)
(* What is dumped: the traversal of one value.  A string or a key is any   *)
(* bytes, a number the ASCII spelling it was parsed with.                  *)
(***************************************************************************)
KeyKinds    == {"key", "integer_key"}
ScalarKinds == {"string", "number", "integer", "true", "false", "null"}

ObjectStart == "{"
ObjectEnd   == "}"
ArrayStart  == "["
ArrayEnd    == "]"

Starts == {ObjectStart, ArrayStart}
Ends   == {ObjectEnd, ArrayEnd}

\* The kinds of the containers around what follows the first n events.
Around(events) ==
    LET around[n \in 0..Len(events)] ==
            IF n = 0 THEN <<>>
            ELSE IF events[n].kind = ObjectStart THEN Append(around[n - 1], "object")
            ELSE IF events[n].kind = ArrayStart THEN Append(around[n - 1], "array")
            ELSE IF events[n].kind \in Ends THEN Front(around[n - 1])
            ELSE around[n - 1]
    IN  around

Dumpable(event) ==
    /\ event.kind \in KeyKinds \cup ScalarKinds \cup Starts \cup Ends
    /\ event.kind \in {"string", "key"} => event.bytes \in Seq(Byte)
    /\ event.kind = "number" => event.bytes \in Seq(0..127)
    /\ event.kind \in {"integer", "integer_key"} => event.value \in Int

\* Where an event may stand: behind the n events before it.
MayStand(events, n, kind) ==
    LET around   == Around(events)[n]
        Is(type) == around # <<>> /\ Last(around) = type
        named    == n > 0 /\ events[n].kind \in KeyKinds
    IN  /\ n > 0 => around # <<>>
        /\ kind = ArrayEnd => Is("array")
        /\ kind \in KeyKinds \cup {ObjectEnd} => Is("object") /\ ~named
        /\ kind \in ScalarKinds \cup Starts => (Is("object") <=> named)

Traversal(events) ==
    /\ events \in Seq({events[k] : k \in DOMAIN events})
    /\ \A k \in 1..Len(events) : /\ Dumpable(events[k])
                                 /\ MayStand(events, k - 1, events[k].kind)
    /\ Around(events)[Len(events)] = <<>>

ASSUME CallsAssumption ==
    \A call \in Calls :
        /\ Traversal(call[1]) /\ call[1] # <<>>
        /\ call[2] \in [indent : Int, sort_keys : BOOLEAN, ensure_ascii : BOOLEAN]

ASSUME WidthAssumption == 2 ^ IntegerBits \in Nat \ {0}

-----------------------------------------------------------------------------
VARIABLES
    doc,      \* the traversal
    options,  \* dump_options: indent, sort_keys, ensure_ascii
    i,        \* the events of doc that are handled
    stack,    \* the containers around the value, and what is kept for each
    out       \* the text of the dumper at work

vars == <<doc, options, i, stack, out>>

Pretty == options.indent >= 0

Newline(depth) == <<LF>> \o [k \in 1..(options.indent * depth) |-> 32]

NewlineIfPretty(depth) == IF Pretty THEN Newline(depth) ELSE <<>>

ItemSeparator(depth) == <<Comma>> \o IF Pretty THEN Newline(depth) ELSE <<32>>

-----------------------------------------------------------------------------
(***************************************************************************)
(* Strings.  In the escapes, "u" is 117.                                   *)
(***************************************************************************)
HexByte(n) == IF n < 10 THEN 48 + n ELSE 87 + n

EscapeUnit(cp) == <<BSlash, 117, HexByte((cp \div 4096) % 16), HexByte((cp \div 256) % 16),
                    HexByte((cp \div 16) % 16), HexByte(cp % 16)>>

Named == [b \in {Quote, BSlash, 8, 12, LF, CR, 9} |->
            CASE b = 8 -> 98 [] b = 12 -> 102 [] b = LF -> 110 [] b = CR -> 114
              [] b = 9 -> 116 [] OTHER -> b]

Continuation(b) ==
    CASE b >= 240 -> 3 [] b >= 224 -> 2 [] b >= 192 -> 1 [] OTHER -> 0

\* Fault: only the number of the bytes that follow is tested.
IsSequenceFault(text, p) ==
    LET n == Continuation(text[p + 1])
    IN  n # 0 /\ p + n < Len(text)

\* The code takes the sequence at offset p of text for UTF-8.
IsSequence(text, p) ==
    LET n == Continuation(text[p + 1])
    IN  n # 0 /\ \A k \in 1..n : ByteIn(text, p + k, 128..191)

\* The low bits of the first byte (three, four or five), then six of each other.
CodePoint(text, p) ==
    LET n == Continuation(text[p + 1])
        bits[k \in 0..n] == IF k = 0 THEN text[p + 1] % <<32, 16, 8>>[n]
                            ELSE 64 * bits[k - 1] + (text[p + k + 1] % 64)
    IN  bits[n]

\* Fault: the code point is split without taking off the first 65536.
EscapeCodePointFault(cp) ==
    IF cp < 65536 THEN EscapeUnit(cp)
    ELSE EscapeUnit(55296 + cp \div 1024) \o EscapeUnit(56320 + (cp % 1024))

EscapeCodePoint(cp) ==
    IF cp < 65536 THEN EscapeUnit(cp)
    ELSE EscapeUnit(55296 + (cp - 65536) \div 1024)
           \o EscapeUnit(56320 + ((cp - 65536) % 1024))

\* Fault: a byte that starts no sequence is written as it is.
AloneFault(b) == <<b>>

\* What ensure_ascii writes for a byte that starts no sequence.
Alone(b) == EscapeUnit(b)

\* What the byte at offset p becomes, and where the loop goes on.
StringPiece(text, p, ensure_ascii) ==
    LET b == text[p + 1]
        Piece(bytes, next) == [bytes |-> bytes, next |-> next]
    IN  IF b \in DOMAIN Named THEN Piece(<<BSlash, Named[b]>>, p + 1)
        ELSE IF b < 32 THEN Piece(EscapeUnit(b), p + 1)
        ELSE IF b < 128 \/ ~ensure_ascii THEN Piece(<<b>>, p + 1)
        ELSE IF IsSequence(text, p)
             THEN Piece(EscapeCodePoint(CodePoint(text, p)), p + 1 + Continuation(b))
        ELSE Piece(Alone(b), p + 1)

WriteString(text, ensure_ascii) ==
    LET rest[p \in 0..Len(text)] ==
            IF p = Len(text) THEN <<>>
            ELSE LET piece == StringPiece(text, p, ensure_ascii)
                 IN  piece.bytes \o rest[piece.next]
    IN  <<Quote>> \o rest[0] \o <<Quote>>

-----------------------------------------------------------------------------
(***************************************************************************)
(* Integers and the other tokens.                                          *)
(***************************************************************************)
\* static_cast<unsigned long long>, negated if the value is negative.
Magnitude(v) ==
    LET cast == v % (2 ^ IntegerBits)
    IN  IF v < 0 THEN (0 - cast) % (2 ^ IntegerBits) ELSE cast

WriteInteger(v) == (IF v < 0 THEN <<Minus>> ELSE <<>>) \o Decimal(Magnitude(v))

\* A scalar, a key as render_key renders it, or a bracket.
Token(event) ==
    CASE event.kind \in {"string", "key"} -> WriteString(event.bytes, options.ensure_ascii)
      [] event.kind = "number"      -> event.bytes
      [] event.kind = "integer"     -> WriteInteger(event.value)
      [] event.kind = "integer_key" ->
            <<Quote>> \o WriteInteger(event.value) \o <<Quote>>
      [] event.kind = "true"  -> WordTrue
      [] event.kind = "false" -> WordFalse
      [] event.kind = "null"  -> WordNull
      [] event.kind = ObjectStart -> <<LBrace>>   [] event.kind = ObjectEnd -> <<RBrace>>
      [] event.kind = ArrayStart  -> <<LBracket>> [] event.kind = ArrayEnd  -> <<RBracket>>

-----------------------------------------------------------------------------
(***************************************************************************)
(* Members, and the order std::sort may leave them in: sorted by the bytes *)
(* of the rendered key, those with equal keys in any order.                *)
(***************************************************************************)
\* std::string's operator<: at the first difference, bytes are unsigned.
Less(a, b) ==
    \E n \in 0..Len(a) :
        /\ \A k \in 1..n : k <= Len(b) /\ a[k] = b[k]
        /\ n < Len(b)
        /\ n = Len(a) \/ a[n + 1] < b[n + 1]

Shuffles(n) == {f \in [1..n -> 1..n] : \A j, k \in 1..n : f[j] = f[k] => j = k}

\* Fault: only the neighbours that were there at the start are compared.
WriteOrdersFault(members) ==
    IF options.sort_keys /\ Len(members) > 1 /\ Less(members[2].token, members[1].token)
    THEN {<<members[2], members[1]>> \o SubSeq(members, 3, Len(members))}
    ELSE {members}

WriteOrders(members) ==
    IF ~options.sort_keys THEN {members}
    ELSE {m \in {[k \in 1..Len(members) |-> members[f[k]]] : f \in Shuffles(Len(members))} :
             \A k \in 1..(Len(members) - 1) : ~Less(m[k + 1].token, m[k].token)}

\* Fault: members are separated at the depth of their object.
ObjectTextFault(members, depth) ==
    LET member(k) == (IF k = 1 THEN <<>> ELSE ItemSeparator(depth))
                       \o members[k].token \o <<Colon, 32>> \o members[k].value
    IN  IF members = <<>> THEN <<LBrace, RBrace>>
        ELSE <<LBrace>> \o NewlineIfPretty(depth + 1)
               \o FlattenSeq([k \in 1..Len(members) |-> member(k)])
               \o NewlineIfPretty(depth) \o <<RBrace>>

\* write_object_shell with the loop of write_members.
ObjectText(members, depth) ==
    LET member(k) == (IF k = 1 THEN <<>> ELSE ItemSeparator(depth + 1))
                       \o members[k].token \o <<Colon, 32>> \o members[k].value
    IN  IF members = <<>> THEN <<LBrace, RBrace>>
        ELSE <<LBrace>> \o NewlineIfPretty(depth + 1)
               \o FlattenSeq([k \in 1..Len(members) |-> member(k)])
               \o NewlineIfPretty(depth) \o <<RBrace>>

-----------------------------------------------------------------------------
Frame(kind, outer) == [kind |-> kind, first |-> TRUE, members |-> <<>>, outer |-> outer]

Inside(kind) == stack # <<>> /\ Last(stack).kind = kind

Due(kinds) == i < Len(doc) /\ doc[i + 1].kind \in kinds

\* The containers around the container that ends.
Outside == SubSeq(stack, 1, Len(stack) - 1)

\* Fault: the first element is taken for a later one.
BeforeFault == IF Inside("array") THEN ItemSeparator(Len(stack)) ELSE <<>>

\* What a loop over elements writes before the next one.
Before == IF Inside("array") /\ ~Last(stack).first THEN ItemSeparator(Len(stack))
                                                   ELSE <<>>

\* The loop over elements has begun one.
Begun == IF Inside("array") THEN [stack EXCEPT ![Len(stack)].first = FALSE] ELSE stack

\* A value is written.  In an object the text is that of a dumper of its own,
\* which the last member takes.
Written(frames, text) ==
    IF frames # <<>> /\ Last(frames).kind = "object"
    THEN /\ stack' = [frames EXCEPT ![Len(frames)].members =
                         [@ EXCEPT ![Len(@)].value = text]]
         /\ out' = <<>>
    ELSE stack' = frames /\ out' = text

Init == /\ \E call \in Calls : doc = call[1] /\ options = call[2]
        /\ i = 0
        /\ stack = <<>>
        /\ out = <<>>

Scalar ==
    /\ Due(ScalarKinds)
    /\ Written(Begun, out \o Before \o Token(doc[i + 1]))
    /\ i' = i + 1
    /\ UNCHANGED <<doc, options>>

\* write_array_shell with count 0.
EmptyArray ==
    /\ Due({ArrayStart})
    /\ doc[i + 2].kind = ArrayEnd
    /\ Written(Begun, out \o Before \o <<LBracket, RBracket>>)
    /\ i' = i + 2
    /\ UNCHANGED <<doc, options>>

OpenArray ==
    /\ Due({ArrayStart})
    /\ doc[i + 2].kind # ArrayEnd
    /\ stack' = Append(Begun, Frame("array", <<>>))
    /\ out' = out \o Before \o <<LBracket>> \o NewlineIfPretty(Len(stack) + 1)
    /\ i' = i + 1
    /\ UNCHANGED <<doc, options>>

CloseArray ==
    /\ Due({ArrayEnd})
    /\ Written(Outside, out \o NewlineIfPretty(Len(stack) - 1) \o <<RBracket>>)
    /\ i' = i + 1
    /\ UNCHANGED <<doc, options>>

OpenObject ==
    /\ Due({ObjectStart})
    /\ stack' = Append(Begun, Frame("object", out \o Before))
    /\ out' = <<>>
    /\ i' = i + 1
    /\ UNCHANGED <<doc, options>>

\* render_key; the value gets a new dumper.
Key ==
    /\ Due(KeyKinds)
    /\ stack' = [stack EXCEPT ![Len(stack)].members =
                    Append(@, [token |-> Token(doc[i + 1]), value |-> <<>>])]
    /\ out' = <<>>
    /\ i' = i + 1
    /\ UNCHANGED <<doc, options>>

\* write_members, into the dumper the object began in.
CloseObject ==
    /\ Due({ObjectEnd})
    /\ \E members \in WriteOrders(Last(stack).members) :
          Written(Outside, Last(stack).outer \o ObjectText(members, Len(stack) - 1))
    /\ i' = i + 1
    /\ UNCHANGED <<doc, options>>

Done == i = Len(doc)

Finished == Done /\ UNCHANGED vars

Next == \/ Scalar
        \/ EmptyArray
        \/ OpenArray
        \/ CloseArray
        \/ OpenObject
        \/ Key
        \/ CloseObject
        \/ Finished

FairSpec == Init /\ [][Next]_vars /\ WF_vars(Next)

=============================================================================

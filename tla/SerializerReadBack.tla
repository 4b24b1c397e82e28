------------------------- MODULE SerializerReadBack -------------------------
(***************************************************************************)
(* The serializer next to the compile-time parser: the documents that are  *)
(* serialized are those the parser makes, and what is written for them is  *)
(* read again.                                                             *)
(***************************************************************************)
EXTENDS Serializer, Json5Grammar

\* The kinds of the containers around what follows the first n events of d.
Containers(d) ==
    LET around[n \in 0..Len(d)] ==
            IF n = 0 THEN <<>>
            ELSE IF d[n].kind = "{" THEN Append(around[n - 1], "object")
            ELSE IF d[n].kind = "[" THEN Append(around[n - 1], "array")
            ELSE IF d[n].kind \in {"}", "]"}
                 THEN SubSeq(around[n - 1], 1, Len(around[n - 1]) - 1)
            ELSE around[n - 1]
    IN  around

AfterKey(d, n) == n > 0 /\ d[n].kind = "key"

\* Event n + 1 may stand behind the n before it, within the containers open.
MayStand(d, n, open) ==
    LET kind == d[n + 1].kind
    IN  /\ n > 0 => open # <<>>
        /\ kind = "]" => Follow(open) = "array"
        /\ kind \in {"}", "key"} => Follow(open) = "object" /\ ~AfterKey(d, n)
        /\ kind \notin {"}", "]", "key"} => (Follow(open) = "object" <=> AfterKey(d, n))

\* A number keeps the token it was parsed from; only strings have bytes as well.
Spelled(event) ==
    /\ event.kind = "number" => Len(event.bytes) \in NumberEnds(event.bytes, 0)
    /\ event.kind \notin {"number", "string", "key"} => event.bytes = <<>>

\* The traversal of one value.
Traversal(d) ==
    /\ d # <<>>
    /\ \A k \in 1..Len(d) : Spelled(d[k]) /\ MayStand(d, k - 1, Containers(d)[k - 1])
    /\ Containers(d)[Len(d)] = <<>>

\* What the compile-time parser makes of any text is one (ParsedIsTraversal in
\* SerializerProofs).
ASSUME ParsedAssumption == \A d \in Documents : Traversal(d)

-----------------------------------------------------------------------------
\* The text is read back as the document that was serialized.
\* (serialize; src/tests/document.cpp:169, "round-trip")
ReadsBack == pass = "done" => Accepts(Reference(buf)) /\ Reference(buf).out = doc

=============================================================================

----------------------------- MODULE MCEncoder -----------------------------
(***************************************************************************)
(* What TLC dumps: nested arrays and objects, strings of bytes of every    *)
(* class, integers at the ends of their type; and the options.             *)
(***************************************************************************)
EXTENDS EncoderReadBack
LOCAL INSTANCE SequencesExt

Ev(kind, bytes)     == [kind |-> kind, bytes |-> bytes]
Int_(kind, n)       == [kind |-> kind, value |-> n]
Array(values)       == <<Ev("[", <<>>)>> \o FlattenSeq(values) \o <<Ev("]", <<>>)>>
Member(key, value)  == <<key>> \o value
Object(members)     == <<Ev("{", <<>>)>> \o FlattenSeq(members) \o <<Ev("}", <<>>)>>
Concatenations(fragments, n) == {FlattenSeq(q) : q \in BoundedSeq(fragments, n)}

-----------------------------------------------------------------------------
(***************************************************************************)
(* Trees: up to three members or elements, of which one may be a container *)
(* with up to two of its own, nested to depth 3; keys repeat.              *)
(***************************************************************************)
One == <<Int_("integer", 1)>>

\* "b", "a" and "a b".
Keys == {Ev("key", <<98>>), Ev("key", <<97>>), Ev("key", <<97, 32, 98>>)}

Members(values, n) ==
    BoundedSeq({Member(k, v) : k \in Keys, v \in values}, n)

Scalars == {One, <<Ev("null", <<>>)>>}

Flat == {Array(q) : q \in BoundedSeq(Scalars, 2)}
          \cup {Object(q) : q \in Members({One}, 2)}

Trees ==
    Scalars \cup Flat
      \cup {Object(q) : q \in Members({One}, 3)}
      \cup {Array(q) : q \in BoundedSeq({One} \cup Flat, 2)}
      \cup {Object(q) : q \in Members({One, Array(<<One>>), Array(<<>>), Object(<<>>),
                                      Object(<<Member(Ev("key", <<97>>), One)>>)}, 2)}
      \cup {Array(<<Array(<<v, One>>), One>>) : v \in Flat}
      \cup {Object(<<Member(Ev("key", <<98>>), Object(<<Member(Ev("key", <<97>>), v)>>))>>) :
               v \in Flat}

TreeOptions == [indent : {-1, 1}, sort_keys : BOOLEAN, ensure_ascii : {FALSE}]
                 \cup [indent : {0}, sort_keys : {FALSE}, ensure_ascii : {FALSE}]

-----------------------------------------------------------------------------
(***************************************************************************)
(* Strings, alone and as a key; numbers, and integers of four bits.        *)
(* The fragments are a, the quote, the backslash, a line feed, the bytes 1 *)
(* and 127, characters of two, three and four bytes, whole and cut short,  *)
(* a byte that only continues, and 255.                                    *)
(***************************************************************************)
StringFragments ==
    {<<97>>, <<Quote>>, <<BSlash>>, <<LF>>, <<1>>, <<127>>, <<195, 169>>, <<195>>,
     <<226, 130, 172>>, <<226, 130>>, <<240, 159, 152, 128>>, <<240, 159, 152>>,
     <<128>>, <<255>>, LS}

\* What has the shape of UTF-8 and is none: a longer form than need be (of two and of
\* three bytes), halves of a surrogate pair, and a code point beyond the last.
Shapes == {<<192, 128>>, <<224, 128, 128>>, <<237, 160, 128>>, <<237, 176, 128>>,
           <<244, 144, 128, 128>>}

Tokens ==
    {<<Ev("string", b)>> : b \in Concatenations(StringFragments, 3)
                              \cup Concatenations(StringFragments \cup Shapes, 2)}
      \cup {Object(<<Member(Ev("key", b), One)>>) : b \in Concatenations(StringFragments, 2)}
      \cup {Object(<<Member(Int_("integer_key", n), <<Int_("integer", n)>>)>>) : n \in -8..7}
      \cup {Array(<<<<Ev(kind, <<>>)>>, <<Ev("number", <<Plus, Dot, Zero>>)>>>>) :
               kind \in {"true", "false", "null"}}

TokenOptions == [indent : {-1}, sort_keys : {FALSE}, ensure_ascii : BOOLEAN]

-----------------------------------------------------------------------------
MCCalls == (Trees \X TreeOptions) \cup (Tokens \X TokenOptions)

=============================================================================

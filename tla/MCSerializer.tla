---------------------------- MODULE MCSerializer ----------------------------
(***************************************************************************)
(* What TLC serializes.                                                    *)
(***************************************************************************)
EXTENDS SerializerReadBack
LOCAL INSTANCE SequencesExt

Around(open, content, close) == <<Ev(open, <<>>)>> \o FlattenSeq(content) \o <<Ev(close, <<>>)>>
Array(values)                == Around("[", values, "]")
Object(members)              == Around("{", members, "}")

\* a, the quote, the backslash, a line feed, a form feed, 1, 31, 127 and 255.
Strings == BoundedSeq({97, Quote, BSlash, LF, 12, 1, 31, 127, 255}, 3)

Words == {<<Ev(kind, <<>>)>> : kind \in {"true", "false", "null"}}
           \cup {<<Ev("number", <<Plus, Dot, Zero>>)>>, <<Ev("string", <<97, Quote>>)>>}

\* Up to n members with the values.
Members(values, n) == BoundedSeq({<<Ev("key", k)>> \o v : k \in {<<>>, <<1>>}, v \in values}, n)

Small == {Array(q) : q \in BoundedSeq({<<Ev("null", <<>>)>>}, 3)}
           \cup {Object(q) : q \in Members({<<Ev("true", <<>>)>>}, 2)}

Trees == {<<Ev("string", b)>> : b \in Strings}
           \cup Words \cup Small
           \cup {Array(q) : q \in BoundedSeq(Words, 3)}
           \cup {Array(q) : q \in BoundedSeq(Small, 2)}
           \cup {Object(q) : q \in Members(Small, 1) \cup Members({<<Ev("null", <<>>)>>}, 3)}
           \cup {Object(q) : q \in Members(Words \cup {Array(<<>>), Object(<<>>)}, 2)}
           \cup {Array(<<Array(<<v, v>>), v>>) : v \in Small}
           \cup {Object(<<<<Ev("key", <<>>)>> \o Object(<<<<Ev("key", <<1>>)>> \o v>>)>>) :
                    v \in Small}

=============================================================================

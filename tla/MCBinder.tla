------------------------------ MODULE MCBinder ------------------------------
(***************************************************************************)
(* Texts for TLC: documents in which any of the keys and values may be a   *)
(* string with half a surrogate pair, one and two containers deep, with    *)
(* trailing commas, comments, and cut short.                               *)
(***************************************************************************)
EXTENDS BinderAgreement
LOCAL INSTANCE SequencesExt

High == <<BSlash, 117, 68, 56, 48, 48>>   \* \uD800
Low  == <<BSlash, 117, 100, 67, 48, 49>>  \* \udC01

Quoted(q, content) == <<q>> \o content \o <<q>>

\* 'a', '\uD800\udC01', '\uD800', "\udC01" and '\uD800\uD800'
Good == {Quoted(Apostrophe, <<97>>), Quoted(Apostrophe, High \o Low)}
Bad  == {Quoted(Apostrophe, High), Quoted(Quote, Low), Quoted(Apostrophe, High \o High)}

Keys   == Good \cup Bad \cup {<<97>>}
Values == Bad \cup {Quoted(Apostrophe, High \o Low), <<Zero>>, WordNull}

Member(k, v) == k \o <<Colon>> \o v
Object(ms)   == <<LBrace>> \o ms \o <<RBrace>>
Array(vs)    == <<LBracket>> \o vs \o <<RBracket>>

Pairs(keys, values) == {Member(k, v) : k \in keys, v \in values}

\* One or two of the items, with and without a trailing comma.
Lists(items) == items \cup {i \o <<Comma>> : i \in items}
                      \cup {i \o <<Comma>> \o j : i \in items, j \in items}

Flat == {Array(l) : l \in Lists(Values)} \cup {Object(m) : m \in Pairs(Keys, Values)}

FewPairs == Pairs({<<97>>, Quoted(Apostrophe, High)}, {<<Zero>>, Quoted(Quote, Low)})

Nested ==
    {Object(Member(k, v)) : k \in {<<97>>, Quoted(Apostrophe, High)}, v \in Flat}
      \cup {Object(l) : l \in Lists(FewPairs)}
      \cup {Array(Object(m) \o <<Comma>> \o v) : m \in FewPairs, v \in Values}
      \cup {Array(v \o <<Comma>> \o Object(m)) : m \in FewPairs, v \in Values}

Comment == <<Slash, Asterisk, Asterisk, Slash>>

MCTexts == LET whole == Values \cup Flat \cup Nested
           IN  whole \cup {Front(s) : s \in whole} \cup {Comment \o s : s \in Flat}
=============================================================================

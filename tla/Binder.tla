------------------------------- MODULE Binder -------------------------------
(***************************************************************************)
(* bind.hpp, which lowers the parse tree of a text into a document and     *)
(* notes the first string that breaks the surrogate rules, and the         *)
(* templates of ctjson5.hpp that ask it: is_valid, bind_error and parse.   *)
(*                                                                         *)
(* A token has its terminal, its offset and its raw text.  A tree has the  *)
(* name of its rule as data, and tokens or trees as children.              *)
(***************************************************************************)
EXTENDS Json5Grammar

-----------------------------------------------------------------------------
(***************************************************************************)
(* ctlark: the tokens of a text that the grammar accepts, and their tree,  *)
(* in which a container's punctuation is left out.                         *)
(***************************************************************************)
RECURSIVE TokensFrom(_, _)
TokenThen(s, st, match) ==
    (IF match.terminal \in Ignored THEN <<>>
     ELSE <<[terminal |-> match.terminal, pos |-> st.pos, raw |-> Slice(s, st.pos, match.end)]>>)
       \o TokensFrom(s, Shift(s, st)[match])

TokensFrom(s, st) ==
    IF st.pos = Len(s) THEN <<>>
    ELSE TokenThen(s, st, Longest(Matches(s, st.pos, Expected[st.phase])))

Tree(data, children) == [data |-> data, children |-> children]

\* The first value of the tokens, or the items up to a closing token, and the
\* tokens after them.
RECURSIVE ValueTree(_), ItemTrees(_, _)
ValueTree(tokens) ==
    LET t    == tokens[1].terminal
        rule == CASE t = "{" -> "object" [] t = "[" -> "array" [] t = "STRING" -> "string"
                  [] t = "NUMBER" -> "number" [] OTHER -> t
    IN  IF t \in {"{", "["}
        THEN LET items == ItemTrees(Tail(tokens), rule)
             IN  [tree |-> Tree(rule, items.trees), rest |-> items.rest]
        ELSE [tree |-> Tree(rule, IF t \in {"STRING", "NUMBER"} THEN <<tokens[1]>> ELSE <<>>),
              rest |-> Tail(tokens)]

ItemTrees(tokens, rule) ==
    IF tokens[1].terminal \in {"}", "]"} THEN [trees |-> <<>>, rest |-> Tail(tokens)]
    ELSE IF tokens[1].terminal = "," THEN ItemTrees(Tail(tokens), rule)
    ELSE LET value  == ValueTree(IF rule = "array" THEN tokens
                                 ELSE SubSeq(tokens, 3, Len(tokens)))
             item   == IF rule = "array" THEN value.tree
                       ELSE Tree("pair", <<tokens[1], value.tree>>)
             others == ItemTrees(value.rest, rule)
         IN  [trees |-> <<item>> \o others.trees, rest |-> others.rest]

ParseResult(tokens) == [valid |-> TRUE, tokens |-> tokens, tree |-> ValueTree(tokens).tree]

Parse(s) == IF Reference(s).status = "valid" THEN ParseResult(TokensFrom(s, Start))
            ELSE [valid |-> FALSE, tokens |-> <<>>, tree |-> Tree("none", <<>>)]

-----------------------------------------------------------------------------
(***************************************************************************)
(* What bind<> makes of a tree: the type it lowers to, ok and fail.        *)
(***************************************************************************)
NoBindError == [reason |-> "none", where |-> <<>>]

Bound(type, ok, fail) == [type |-> type, ok |-> ok, fail |-> fail]

\* Fault: the loop goes on, and the last failure wins.
BindFirstFailFault(bs) ==
    LET failed == {i \in DOMAIN bs : bs[i].fail.reason # "none"}
    IN  IF failed = {} THEN NoBindError
        ELSE bs[CHOOSE i \in failed : \A j \in failed : j <= i].fail

BindFirstFail(bs) ==
    LET failed == {i \in DOMAIN bs : bs[i].fail.reason # "none"}
    IN  IF failed = {} THEN NoBindError
        ELSE bs[CHOOSE i \in failed : \A j \in failed : i <= j].fail

\* A STRING, as a key or as a value.
BindString(token) ==
    LET decoded == DecodeString(token.raw)
    IN  Bound(decoded.bytes, decoded.ok,
              IF decoded.ok THEN NoBindError
              ELSE [reason |-> "bad_surrogate", where |-> token.raw])

\* Fault: a quoted key is taken like an identifier.
BindKeyFault(token) == Bound(token.raw, TRUE, NoBindError)

BindKey(token) == IF token.terminal = "STRING" THEN BindString(token)
                  ELSE Bound(token.raw, TRUE, NoBindError)

\* Faults: the value's failure is reported before the key's; only the value
\* decides whether the pair is right.
ValueFirstFault(key, value) ==
    Bound([key |-> key.type, value |-> value.type], key.ok /\ value.ok,
          IF value.ok THEN key.fail ELSE value.fail)

ValueAloneFault(key, value) ==
    Bound([key |-> key.type, value |-> value.type], value.ok,
          IF key.ok THEN value.fail ELSE key.fail)

BindPair(key, value) ==
    Bound([key |-> key.type, value |-> value.type], key.ok /\ value.ok,
          IF key.ok THEN value.fail ELSE key.fail)

BindContainer(kind, bs) ==
    Bound([kind |-> kind, items |-> [i \in DOMAIN bs |-> bs[i].type]],
          \A i \in DOMAIN bs : bs[i].ok, BindFirstFail(bs))

BindLeaf(kind, bound) == [bound EXCEPT !.type = [kind |-> kind, bytes |-> @]]

RECURSIVE Bind(_)
Bind(tree) ==
    LET children == tree.children
    IN  CASE tree.data \in {"object", "array"} ->
                BindContainer(tree.data, [i \in DOMAIN children |-> Bind(children[i])])
          [] tree.data = "pair"   -> BindPair(BindKey(children[1]), Bind(children[2]))
          [] tree.data = "string" -> BindLeaf("string", BindString(children[1]))
          [] tree.data = "number" ->
                BindLeaf("number", Bound(children[1].raw, TRUE, NoBindError))
          [] OTHER -> BindLeaf(tree.data, Bound(<<>>, TRUE, NoBindError))

-----------------------------------------------------------------------------
(***************************************************************************)
(* The front end, over the result of Parse.  parse<> compiles when neither *)
(* static_assert fails.                                                    *)
(***************************************************************************)
IsValid(parsed) == parsed.valid /\ Bind(parsed.tree).ok

BindError(parsed) == IF parsed.valid THEN Bind(parsed.tree).fail ELSE NoBindError

FailedAssertions(parsed) ==
    (IF parsed.valid THEN {} ELSE {"the input is not valid JSON5"})
      \cup (IF parsed.valid => IsValid(parsed) THEN {} ELSE {"breaks the surrogate rules"})

ParsedType(parsed) == IF IsValid(parsed) THEN Bind(parsed.tree).type
                      ELSE [kind |-> "null", bytes |-> <<>>]

=============================================================================

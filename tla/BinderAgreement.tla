-------------------------- MODULE BinderAgreement --------------------------
(***************************************************************************)
(* The binder's verdicts on a text next to what loads makes of it.         *)
(***************************************************************************)
EXTENDS RuntimeParser

Compiled == INSTANCE Binder

\* What ctlark made of the text when the program was compiled.
VARIABLE parsed

BothInit == Init /\ parsed = Compiled!Parse(text)

BothNext == Next /\ UNCHANGED parsed

BothSpec == BothInit /\ [][BothNext]_<<vars, parsed>>

(***************************************************************************)
(* A document type as the events of its traversal.                         *)
(***************************************************************************)
RECURSIVE TypeEvents(_), ItemEvents(_, _)
TypeEvents(type) ==
    IF type.kind \in Container
    THEN <<OpenMark(type.kind)>> \o ItemEvents(type.kind, type.items)
           \o <<CloseMark(type.kind)>>
    ELSE <<type>>

ItemEvents(kind, items) ==
    IF items = <<>> THEN <<>>
    ELSE (IF kind = "object"
          THEN <<Leaf("key", items[1].key)>> \o TypeEvents(items[1].value)
          ELSE TypeEvents(items[1]))
           \o ItemEvents(kind, Tail(items))

\* The STRING tokens that cannot be decoded.
Culprits == {t \in {parsed.tokens[i] : i \in DOMAIN parsed.tokens} :
               t.terminal = "STRING" /\ ~Compiled!DecodeString(t.raw).ok}

(***************************************************************************)
(* Properties.                                                             *)
(***************************************************************************)
\* "the first binder failure: which rule broke, and the raw offending token": the
\* one that comes first in the text, whether it is a key or a value and however
\* deep it is nested; none when the syntax already failed.  (bind.hpp:44, 57-64)
FirstInText ==
    Done =>
        LET fail == Compiled!BindError(parsed)
        IN  IF Culprits # {}
            THEN \E t \in Culprits : /\ \A u \in Culprits : t.pos <= u.pos
                                     /\ fail = [reason |-> "bad_surrogate", where |-> t.raw]
            ELSE fail = Compiled!NoBindError

\* ok and fail are folded separately, and must tell the same: a text that does not
\* compile has one diagnosis, bind_error exactly when it is the surrogates.
\* (bind.hpp:227-243, ctjson5.hpp:68-96)
OneDiagnosis ==
    Done =>
        LET failed == Compiled!FailedAssertions(parsed)
        IN  /\ Compiled!IsValid(parsed) <=> failed = {}
            /\ Compiled!BindError(parsed).reason # "none" <=> failed = {"breaks the surrogate rules"}
            /\ ~parsed.valid <=> failed = {"the input is not valid JSON5"}

SurrogateMessages == {"lone high surrogate", "lone low surrogate", "invalid low surrogate"}

\* parse and loads make the same of a text: the type that is bound is the document
\* loads builds, or the string bind_error names is the one loads stops in, for the
\* same reason.  (bind.hpp:44-64, 126-146; load.hpp:440-470)
SameOutcome ==
    /\ pc = "accepted" /\ Compiled!IsValid(parsed) =>
          TypeEvents(Compiled!ParsedType(parsed)) = out
    /\ Done =>
          LET fail == Compiled!BindError(parsed)
          IN  fail.reason # "none" =>
                 /\ pc = "failed" /\ error.message \in SurrogateMessages
                 /\ \E t \in Culprits : /\ t.raw = fail.where
                                        /\ t.pos < error.position
                                        /\ error.position < t.pos + Len(t.raw)

=============================================================================

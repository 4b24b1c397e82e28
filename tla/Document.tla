------------------------------ MODULE Document ------------------------------
(***************************************************************************)
(* What a parser may build, whatever the text: the rules value, object,    *)
(* pair and array of grammar.hpp as a machine that writes the events of a  *)
(* document from left to right.  An object is a list of pairs, a key is    *)
(* followed by its value, an array is a list of values, containers close   *)
(* in the order opposite to the one they open in, and a document is one    *)
(* value.  A parser may give up at any time, but it may only accept when   *)
(* the document is complete.                                               *)
(***************************************************************************)
EXTENDS Bytes

CONSTANT MaxNesting  \* how many containers a value may be inside of

VARIABLES
    open,    \* the containers that are not closed, outermost first
    out,     \* the events so far
    verdict  \* "reading", "accepted" or "failed"

vars == <<open, out, verdict>>

Container == {"object", "array"}

ScalarKind == {"string", "number", "true", "false", "null"}

Event(kinds) == [kind : kinds, bytes : Seq(Byte)]

\* A value is due: the document has none yet, or a key waits for its value.
ValueDue == out = <<>> \/ out[Len(out)].kind = "key"

Inside(container) == open # <<>> /\ open[Len(open)] = container

\* A value may start here.
ValueMayStart == /\ ValueDue \/ Inside("array")
                 /\ Len(open) <= MaxNesting

-----------------------------------------------------------------------------
Init == open = <<>> /\ out = <<>> /\ verdict = "reading"

\* The document grows by one event of the given kinds.
Write(kinds) ==
    /\ verdict = "reading"
    /\ UNCHANGED verdict
    /\ out' # <<>>
    /\ LET event == out'[Len(out')]
       IN  event \in Event(kinds) /\ out' = Append(out, event)

AddScalar == /\ ValueMayStart
             /\ Write(ScalarKind)
             /\ UNCHANGED open

OpenContainer ==
    /\ ValueMayStart
    /\ \E container \in Container :
          /\ Write({IF container = "object" THEN "{" ELSE "["})
          /\ open' = Append(open, container)

AddKey == /\ Inside("object")
          /\ ~ValueDue
          /\ Write({"key"})
          /\ UNCHANGED open

CloseContainer ==
    /\ ~ValueDue
    /\ \E container \in Container :
          /\ Inside(container)
          /\ Write({IF container = "object" THEN "}" ELSE "]"})
    /\ open' = SubSeq(open, 1, Len(open) - 1)

Accept == /\ verdict = "reading"
          /\ open = <<>>
          /\ ~ValueDue
          /\ verdict' = "accepted"
          /\ UNCHANGED <<open, out>>

GiveUp == /\ verdict = "reading"
          /\ verdict' = "failed"
          /\ UNCHANGED <<open, out>>

Next == \/ AddScalar
        \/ OpenContainer
        \/ AddKey
        \/ CloseContainer
        \/ Accept
        \/ GiveUp

Spec == Init /\ [][Next]_vars

=============================================================================

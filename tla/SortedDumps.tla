---------------------------- MODULE SortedDumps ----------------------------
(***************************************************************************)
(* Two calls of dumps on containers with the same contents that give their *)
(* members in different orders, as two unordered containers may.           *)
(***************************************************************************)
EXTENDS EncoderReadBack
LOCAL INSTANCE FiniteSets

CONSTANT Families  \* sets of traversals; those in one have the same contents

ASSUME FamiliesAssumption ==
    \A family \in Families : Cardinality({Places(events) : events \in family}) = 1

VARIABLE first  \* what the first call returned, nothing while it runs

FirstInit == Init /\ first = <<>>

\* The first call has returned; the second gets another container and the options.
DumpAgain ==
    /\ Done /\ first = <<>>
    /\ first' = out
    /\ \E family \in Families : doc \in family /\ doc' \in family
    /\ i' = 0 /\ stack' = <<>> /\ out' = <<>>
    /\ UNCHANGED options

TwoDumps == \/ Next /\ UNCHANGED first
            \/ DumpAgain

Spec == FirstInit /\ [][TwoDumps]_<<vars, first>>

-----------------------------------------------------------------------------
\* No two members of an object are written with the same key.  A multimap may have
\* them, and under ensure_ascii a key that is no UTF-8 may be written like another.
KeysDiffer ==
    \A j, k \in 1..Len(doc) : Siblings(doc, j, k) => Token(doc[j]) # Token(doc[k])

\* With sort_keys the text depends on what a container holds and not on the order it
\* gives its members in, at any depth.  (write_members; tests/dumps.cpp:70,
\* "sort_keys makes unordered containers deterministic")
Deterministic ==
    Done /\ first # <<>> /\ options.sort_keys /\ KeysDiffer => out = first

=============================================================================

------------------------------- MODULE Lookup -------------------------------
(***************************************************************************)
(* The three ways into a document: the runtime value of load.hpp, the      *)
(* value_view that operator[] gives for a compile-time document, and its   *)
(* typed accessors.  A chain of lookups goes through all three at once.    *)
(*                                                                         *)
(* A node of the document has a kind, bytes (a string's content, a         *)
(* number's spelling, a literal, or a container's text from serialize),    *)
(* elements and members.                                                   *)
(***************************************************************************)
EXTENDS Naturals, Sequences

CONSTANTS
    Nodes,      \* the nodes of the documents
    Documents,  \* their roots
    Keys,       \* the keys that are looked up
    Indices,    \* and the positions
    LiteralNull \* the text of null

Kinds == {"object", "array", "string", "number", "boolean", "null"}

ASSUME NodesAssumption ==
    /\ Documents \subseteq Nodes
    /\ Indices \subseteq Nat
    /\ \A n \in Nodes :
          /\ DOMAIN n = {"kind", "bytes", "elements", "members"}
          /\ n.kind \in Kinds
          /\ n.kind = "null" => n.bytes = LiteralNull
          /\ n.elements \in Seq(Nodes) /\ (n.kind # "array" => n.elements = <<>>)
          /\ n.members \in Seq({n.members[i] : i \in DOMAIN n.members})
          /\ \A i \in DOMAIN n.members : n.members[i].value \in Nodes
          /\ n.kind # "object" => n.members = <<>>

VARIABLES
    value,      \* the runtime value reached
    view,       \* the value_view reached
    typed,      \* <<the node>> that get<...>() reaches, <<>> if it does not compile
    positional  \* history: an object was given an index

vars == <<value, view, typed, positional>>

-----------------------------------------------------------------------------
(***************************************************************************)
(* A loop over the members that stops at the first with the key: <<its     *)
(* value>>, or <<>> if there is none.                                      *)
(***************************************************************************)
First(members, key) ==
    LET hits   == {i \in DOMAIN members : members[i].key = key}
        first  == {i \in hits : \A j \in hits : i <= j}
    IN  IF first = {} THEN <<>> ELSE <<members[CHOOSE i \in first : TRUE].value>>

(***************************************************************************)
(* class value.  Which containers it fills is up to its factories.         *)
(***************************************************************************)
Value(n) == [type_     |-> n.kind,
             string_   |-> IF n.kind = "string" THEN n.bytes ELSE <<>>,
             elements_ |-> n.elements,
             members_  |-> n.members]

SharedNull == [type_ |-> "null", string_ |-> <<>>, elements_ |-> <<>>, members_ |-> <<>>]

ValueSize(v) == CASE v.type_ = "array"  -> Len(v.elements_)
                  [] v.type_ = "object" -> Len(v.members_)
                  [] v.type_ = "string" -> Len(v.string_)
                  [] OTHER              -> 0

Find(v, key) == First(v.members_, key)

\* Fault: the loop goes on and the last member with the key wins.
ValueAtKeyFault(v, key) ==
    LET hits == {i \in DOMAIN v.members_ : v.members_[i].key = key}
    IN  IF hits = {} THEN SharedNull
        ELSE Value(v.members_[CHOOSE i \in hits : \A j \in hits : j <= i].value)

ValueAtKey(v, key) ==
    LET found == Find(v, key) IN IF found = <<>> THEN SharedNull ELSE Value(found[1])

ValueAtIndex(v, index) ==
    IF index < Len(v.elements_) THEN Value(v.elements_[index + 1]) ELSE SharedNull

(***************************************************************************)
(* value_view.  A null pointer to children is an empty sequence.           *)
(***************************************************************************)
View(n) == [type         |-> n.kind,
            text         |-> n.bytes,
            member_data  |-> IF n.kind = "object" THEN n.members ELSE <<>>,
            element_data |-> IF n.kind = "array" THEN n.elements ELSE <<>>,
            child_count  |-> CASE n.kind = "object" -> Len(n.members)
                               [] n.kind = "array"  -> Len(n.elements)
                               [] OTHER             -> 0]

NullView == [type |-> "null", text |-> LiteralNull,
             member_data |-> <<>>, element_data |-> <<>>, child_count |-> 0]

ViewAtKey(w, key) ==
    LET found == IF w.type = "object" THEN First(w.member_data, key) ELSE <<>>
    IN  IF found = <<>> THEN NullView ELSE View(found[1])

\* Fault: the array's bound is the last index it takes.
ViewAtIndexFault(w, index) ==
    IF w.type = "array" /\ index + 1 < w.child_count THEN View(w.element_data[index + 1])
    ELSE IF w.type = "object" /\ index < w.child_count THEN View(w.member_data[index + 1].value)
    ELSE NullView

ViewAtIndex(w, index) ==
    IF w.type = "array" /\ index < w.child_count THEN View(w.element_data[index + 1])
    ELSE IF w.type = "object" /\ index < w.child_count THEN View(w.member_data[index + 1].value)
    ELSE NullView

ViewContains(w, key) == w.type = "object" /\ First(w.member_data, key) # <<>>

(***************************************************************************)
(* get<Name>, get<Index> and value<Index>.                                 *)
(***************************************************************************)
TypedAtKey(n, key) == IF n.kind = "object" THEN First(n.members, key) ELSE <<>>

TypedAtIndex(n, index) ==
    IF n.kind = "array" /\ index < Len(n.elements) THEN <<n.elements[index + 1]>>
    ELSE IF n.kind = "object" /\ index < Len(n.members) THEN <<n.members[index + 1].value>>
    ELSE <<>>

-----------------------------------------------------------------------------
Init == /\ \E document \in Documents : /\ value = Value(document)
                                       /\ view = View(document)
                                       /\ typed = <<document>>
        /\ positional = FALSE

\* ["key"], and get<"key">().
Key(key) == /\ value' = ValueAtKey(value, key)
            /\ view' = ViewAtKey(view, key)
            /\ typed' = IF typed = <<>> THEN <<>> ELSE TypedAtKey(typed[1], key)
            /\ UNCHANGED positional

\* [index], and get<index>() or value<index>().
Index(index) == /\ value' = ValueAtIndex(value, index)
                /\ view' = ViewAtIndex(view, index)
                /\ typed' = IF typed = <<>> THEN <<>> ELSE TypedAtIndex(typed[1], index)
                /\ positional' = (positional \/ view.type = "object")

Next == \/ \E key \in Keys : Key(key)
        \/ \E index \in Indices : Index(index)

Spec == Init /\ [][Next]_vars

-----------------------------------------------------------------------------
(***************************************************************************)
(* Properties.                                                             *)
(***************************************************************************)
\* However a chain goes, hits, misses and comes upon repeated keys, the runtime
\* value and the compile-time view stand at the same element, unless an object was
\* given an index.  (load.hpp:26-30)
SameElement ==
    ~positional =>
        /\ value.type_ = view.type
        /\ value.type_ = "string" => value.string_ = view.text
        /\ value.type_ \in {"array", "object"} => ValueSize(value) = view.child_count
        /\ \A key \in Keys : (Find(value, key) # <<>>) = ViewContains(view, key)

\* Brackets are get<...>() where that compiles and a null view where it does not.
\* (types.hpp:359, 414)
Brackets == view = IF typed = <<>> THEN NullView ELSE View(typed[1])

=============================================================================

------------------------------ MODULE MCValues ------------------------------
(***************************************************************************)
(* A caller that either follows chains of lookups through one of the       *)
(* documents, or compares three of the values.                             *)
(***************************************************************************)
EXTENDS Lookup, Equality
LOCAL INSTANCE SequencesExt

VARIABLE caller

ValuesInit == \/ /\ caller = "chains"
                 /\ Init
                 /\ a = Nothing /\ b = Nothing /\ c = Nothing /\ equal = <<>>
              \/ /\ caller = "compares"
                 /\ CompareInit
                 /\ value = SharedNull /\ view = NullView /\ typed = <<>> /\ positional = FALSE

ValuesNext == \/ caller = "chains" /\ Next /\ UNCHANGED <<caller, compared>>
              \/ caller = "compares" /\ CompareNext /\ UNCHANGED <<caller, vars>>

ValuesSpec == ValuesInit /\ [][ValuesNext]_<<caller, vars, compared>>

-----------------------------------------------------------------------------
(***************************************************************************)
(* Documents: objects and arrays nested to depth 3, keys that repeat, null *)
(* next to what is missing.                                                *)
(***************************************************************************)
Leaf(kind, bytes) == [kind |-> kind, bytes |-> bytes, elements |-> <<>>, members |-> <<>>]
Array(elements)   == [kind |-> "array", bytes |-> "[]", elements |-> elements, members |-> <<>>]
Object(members)   == [kind |-> "object", bytes |-> "{}", elements |-> <<>>, members |-> members]

Leaves == {Leaf("null", "null"), Leaf("string", <<"a">>), Leaf("number", "1")}

Members(values, n) == BoundedSeq([key : {"a", "b"}, value : values], n)

Flat == {Array(q) : q \in BoundedSeq(Leaves, 2)} \cup {Object(q) : q \in Members(Leaves, 2)}

Deep == {Array(q) : q \in BoundedSeq({Leaf("null", "null")} \cup Flat, 1)}
          \cup {Object(q) : q \in Members(Flat, 1)}
          \cup {Object(q) : q \in Members({Leaf("string", <<"a">>), Array(<<>>)}
                                             \cup {Object(r) : r \in Members(Leaves, 1)}, 2)}

MCNodes     == Leaves \cup Flat \cup Deep
MCDocuments == Deep \cup Leaves

-----------------------------------------------------------------------------
(***************************************************************************)
(* Values to compare: numbers on both sides of Exact, as integers, as      *)
(* doubles and as NaN, the other kinds, and containers of at most two.     *)
(***************************************************************************)
Numbers == {MakeInteger(n) : n \in {-9, -8, 0, 1, 8, 9, 10}}
             \cup {MakeDouble(h) : h \in {-16, 0, 1, 2, 3, 16, 20}} \cup {MakeNaN}

Others == {Nothing} \cup {[Nothing EXCEPT !.kind = "boolean", !.boolean = truth] : truth \in BOOLEAN}
                    \cup {[Nothing EXCEPT !.kind = "string", !.string = s] : s \in {"", "a"}}

Few == {MakeInteger(1), MakeDouble(2), MakeDouble(3)}

ArrayValue(q)  == [Nothing EXCEPT !.kind = "array", !.elements = q]
ObjectValue(q) == [Nothing EXCEPT !.kind = "object", !.members = q]

Containers == {ArrayValue(q) : q \in BoundedSeq(Few, 2)}
                \cup {ObjectValue(q) : q \in BoundedSeq([key : {"a", "b"}, value : {MakeInteger(1), MakeDouble(2)}], 2)}

ComparedValues == Numbers \cup Others \cup Containers
              \cup {ArrayValue(<<v>>) : v \in {ArrayValue(<<MakeInteger(1)>>), ArrayValue(<<MakeDouble(2)>>), MakeNaN}}

ComparedDepth ==
    LET depth[v \in ComparedValues] ==
            LET held == {v.elements[i] : i \in DOMAIN v.elements}
                          \cup {v.members[i].value : i \in DOMAIN v.members}
            IN  IF held = {} THEN 0 ELSE 1 + Max({depth[w] : w \in held})
    IN  depth

=============================================================================

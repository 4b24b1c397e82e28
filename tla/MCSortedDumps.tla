--------------------------- MODULE MCSortedDumps ---------------------------
(***************************************************************************)
(* Objects with their members in every order: flat ones of up to four,     *)
(* and objects and arrays of objects that are themselves in every order.   *)
(***************************************************************************)
EXTENDS SortedDumps, MCEncoder
LOCAL INSTANCE SequencesExt
LOCAL INSTANCE FiniteSets

\* The objects whose key k has a value of the family values[k].
Orders(values) ==
    LET keys == DOMAIN values
    IN  {Object([n \in 1..Cardinality(keys) |-> Member(q[n], v[q[n]])]) :
            q \in SetToSeqs(keys),
            v \in {w \in [keys -> UNION {values[k] : k \in keys}] :
                      \A k \in keys : w[k] \in values[k]}}

Objects(keys, families) == {Orders(f) : f \in UNION {[K -> families] : K \in SUBSET keys}}

\* "a" and "a b", a character of two bytes, and the byte that ensure_ascii writes alike.
A        == Ev("key", <<97>>)
Ab       == Ev("key", <<97, 32, 98>>)
Accented == Ev("key", <<195, 169>>)
Latin1   == Ev("key", <<233>>)

Inner == Objects({A, Ab}, {{One}})

FlatFamilies == Objects(Keys \cup {Accented}, {{One}})
          \cup Objects({A, Accented, Latin1}, {{v} : v \in Scalars})

NestedFamilies == Objects({A, Ab}, Inner) \cup {{Array(<<a, b>>) : a \in F, b \in G} : F, G \in Inner}

UnorderedFamilies == FlatFamilies \cup NestedFamilies

AllCalls ==
    MCCalls
      \cup (UNION FlatFamilies) \X [indent : {-1}, sort_keys : {TRUE}, ensure_ascii : BOOLEAN]
      \cup (UNION NestedFamilies) \X [indent : {1}, sort_keys : {TRUE}, ensure_ascii : {FALSE}]

=============================================================================

---------------------------- MODULE ValueProofs ----------------------------
(***************************************************************************)
(* Theorems about the runtime value: for every document, every key and     *)
(* every chain of lookups the three ways into a document agree, and        *)
(* operator== is an equivalence, however deep the values are.              *)
(***************************************************************************)
EXTENDS Lookup, Equality, ScanningProofs

-----------------------------------------------------------------------------
(***************************************************************************)
(* Lookup.                                                                 *)
(***************************************************************************)
\* Where the typed accessors are.
Reached == typed \in {<<>>} \cup {<<n>> : n \in Nodes}

\* The runtime value at that node, as long as no object was given an index.
Follows == ~positional => value = IF typed = <<>> THEN SharedNull ELSE Value(typed[1])

IInv == Reached /\ Brackets /\ Follows

(***************************************************************************)
(* Lookups on one node.                                                    *)
(***************************************************************************)
\* The loop over a node's members finds one of their values, or nothing.
LEMMA FirstReaches ==
    ASSUME NEW n \in Nodes, NEW key
    PROVE  First(n.members, key) \in {<<>>} \cup {<<m>> : m \in Nodes}
BY NodesAssumption DEF First

\* In no members, it finds nothing.
LEMMA FirstOfNone == ASSUME NEW key PROVE First(<<>>, key) = <<>>
BY DEF First

\* A typed accessor arrives at a node or does not compile.
LEMMA TypedReaches ==
    ASSUME NEW n \in Nodes, NEW key, NEW index \in Nat
    PROVE  /\ TypedAtKey(n, key) \in {<<>>} \cup {<<m>> : m \in Nodes}
           /\ TypedAtIndex(n, index) \in {<<>>} \cup {<<m>> : m \in Nodes}
<1>1. TypedAtKey(n, key) \in {<<>>} \cup {<<m>> : m \in Nodes}
  BY FirstReaches DEF TypedAtKey
<1>2. CASE n.kind = "array" /\ index < Len(n.elements)
  <2>0. n.elements \in Seq(Nodes)
    BY NodesAssumption
  <2>1. n.elements[index + 1] \in Nodes
    BY <1>2, <2>0
  <2> QED BY <1>1, <1>2, <2>1 DEF TypedAtIndex
<1>3. CASE n.kind = "object" /\ index < Len(n.members)
  <2>1. n.members \in Seq({n.members[i] : i \in DOMAIN n.members})
    BY NodesAssumption
  <2>2. index + 1 \in DOMAIN n.members
    BY <1>3, <2>1
  <2>3. n.members[index + 1].value \in Nodes
    BY <2>2, NodesAssumption
  <2> QED BY <1>1, <1>3, <2>3 DEF TypedAtIndex
<1> QED BY <1>1, <1>2, <1>3 DEF TypedAtIndex

\* A lookup in a node's view gives the view of what the typed accessor gives.
LEMMA ViewFollowsTyped ==
    ASSUME NEW n \in Nodes, NEW key, NEW index \in Nat
    PROVE  /\ ViewAtKey(View(n), key) =
                 (IF TypedAtKey(n, key) = <<>> THEN NullView ELSE View(TypedAtKey(n, key)[1]))
           /\ ViewAtIndex(View(n), index) =
                 (IF TypedAtIndex(n, index) = <<>> THEN NullView
                                                   ELSE View(TypedAtIndex(n, index)[1]))
<1> DEFINE w == View(n)
<1>1. /\ w.type = n.kind
      /\ n.kind = "object" => w.member_data = n.members /\ w.child_count = Len(n.members)
      /\ n.kind = "array" => w.element_data = n.elements /\ w.child_count = Len(n.elements)
  BY DEF View
<1> HIDE DEF w
<1>2. \A m : <<m>> # <<>> /\ <<m>>[1] = m
  OBVIOUS
<1>3. ViewAtKey(w, key) =
         (IF TypedAtKey(n, key) = <<>> THEN NullView ELSE View(TypedAtKey(n, key)[1]))
  BY <1>1 DEF ViewAtKey, TypedAtKey
<1>4. ViewAtIndex(w, index) =
         (IF TypedAtIndex(n, index) = <<>> THEN NullView
                                                   ELSE View(TypedAtIndex(n, index)[1]))
  BY <1>1, <1>2 DEF ViewAtIndex, TypedAtIndex
<1> QED BY <1>3, <1>4 DEF w

\* So does a lookup in the runtime value, except for an index on an object.
LEMMA ValueFollowsTyped ==
    ASSUME NEW n \in Nodes, NEW key, NEW index \in Nat
    PROVE  /\ ValueAtKey(Value(n), key) =
                 (IF TypedAtKey(n, key) = <<>> THEN SharedNull ELSE Value(TypedAtKey(n, key)[1]))
           /\ n.kind # "object" =>
                 ValueAtIndex(Value(n), index) =
                 (IF TypedAtIndex(n, index) = <<>> THEN SharedNull
                                                   ELSE Value(TypedAtIndex(n, index)[1]))
<1> DEFINE v == Value(n)
<1>1. v.members_ = n.members /\ v.elements_ = n.elements
  BY DEF Value
<1> HIDE DEF v
<1>2. n.kind # "object" => First(n.members, key) = <<>>
  BY NodesAssumption, FirstOfNone
<1>3. ValueAtKey(v, key) =
         (IF TypedAtKey(n, key) = <<>> THEN SharedNull ELSE Value(TypedAtKey(n, key)[1]))
  BY <1>1, <1>2 DEF ValueAtKey, Find, TypedAtKey
<1>4. n.kind # "array" => ~(index < Len(n.elements))
  <2>1. n.kind # "array" => n.elements = <<>>
    BY NodesAssumption
  <2> QED BY <2>1
<1>5. \A m : <<m>> # <<>> /\ <<m>>[1] = m
  OBVIOUS
<1>6. n.kind # "object" =>
         ValueAtIndex(v, index) =
         (IF TypedAtIndex(n, index) = <<>> THEN SharedNull
                                                   ELSE Value(TypedAtIndex(n, index)[1]))
  BY <1>1, <1>4, <1>5 DEF ValueAtIndex, TypedAtIndex
<1> QED BY <1>3, <1>6 DEF v

\* Nothing is found in what is missing, on either side.
LEMMA MissesStay ==
    ASSUME NEW key, NEW index \in Nat
    PROVE  /\ ViewAtKey(NullView, key) = NullView
           /\ ViewAtIndex(NullView, index) = NullView
           /\ ValueAtKey(SharedNull, key) = SharedNull
           /\ ValueAtIndex(SharedNull, index) = SharedNull
           /\ Find(SharedNull, key) = <<>>
BY FirstOfNone DEF ViewAtKey, ViewAtIndex, NullView, ValueAtKey, ValueAtIndex, Find, SharedNull

(***************************************************************************)
(* The invariant.                                                          *)
(***************************************************************************)
\* IInv holds in every state.
LEMMA Invariant == Spec => []IInv
<1>1. Init => IInv
  <2> SUFFICES ASSUME NEW document \in Documents,
                      value = Value(document), view = View(document),
                      typed = <<document>>, positional = FALSE
               PROVE  IInv
    BY DEF Init
  <2>1. document \in Nodes
    BY NodesAssumption
  <2> QED BY <2>1 DEF IInv, Reached, Brackets, Follows
<1>2. IInv /\ [Next]_vars => IInv'
  <2> SUFFICES ASSUME IInv, [Next]_vars PROVE IInv'
    OBVIOUS
  <2>1. ASSUME NEW key \in Keys, Key(key) PROVE IInv'
    <3>1. CASE typed = <<>>
      <4>1. typed' = <<>> /\ view' = NullView
        BY <2>1, <3>1, MissesStay DEF Key, IInv, Brackets
      <4>2. ~positional' => value' = SharedNull
        BY <2>1, <3>1, MissesStay DEF Key, IInv, Follows
      <4> QED BY <4>1, <4>2 DEF IInv, Reached, Brackets, Follows
    <3>2. ASSUME NEW n \in Nodes, typed = <<n>> PROVE IInv'
      <4>1. view = View(n) /\ (~positional => value = Value(n)) /\ typed # <<>> /\ typed[1] = n
        BY <3>2 DEF IInv, Brackets, Follows
      <4>2. typed' = TypedAtKey(n, key) /\ view' = ViewAtKey(View(n), key) /\ positional' = positional
        BY <2>1, <4>1 DEF Key
      <4>3. ~positional' => value' = ValueAtKey(Value(n), key)
        BY <2>1, <4>1, <4>2 DEF Key
      <4>4. Reached'
        BY <4>2, TypedReaches DEF Reached
      <4>5. Brackets'
        BY <4>2, ViewFollowsTyped DEF Brackets
      <4>6. Follows'
        BY <4>2, <4>3, ValueFollowsTyped DEF Follows
      <4> QED BY <4>4, <4>5, <4>6 DEF IInv
    <3> QED BY <3>1, <3>2 DEF IInv, Reached
  <2>2. ASSUME NEW index \in Indices, Index(index) PROVE IInv'
    <3> index \in Nat
      BY NodesAssumption
    <3>1. CASE typed = <<>>
      <4>1. typed' = <<>> /\ view' = NullView
        BY <2>2, <3>1, MissesStay DEF Index, IInv, Brackets
      <4>2. ~positional' => value' = SharedNull
        BY <2>2, <3>1, MissesStay DEF Index, IInv, Follows
      <4> QED BY <4>1, <4>2 DEF IInv, Reached, Brackets, Follows
    <3>2. ASSUME NEW n \in Nodes, typed = <<n>> PROVE IInv'
      <4>1. view = View(n) /\ (~positional => value = Value(n)) /\ typed # <<>> /\ typed[1] = n
        BY <3>2 DEF IInv, Brackets, Follows
      <4>2. typed' = TypedAtIndex(n, index) /\ view' = ViewAtIndex(View(n), index)
        BY <2>2, <4>1 DEF Index
      <4>3. ~positional' => ~positional /\ n.kind # "object"
        BY <2>2, <4>1 DEF Index, View
      <4>4. ~positional' => value' = ValueAtIndex(Value(n), index)
        BY <2>2, <4>1, <4>3 DEF Index
      <4>5. Reached'
        BY <4>2, TypedReaches DEF Reached
      <4>6. Brackets'
        BY <4>2, ViewFollowsTyped DEF Brackets
      <4>7. Follows'
        BY <4>2, <4>3, <4>4, ValueFollowsTyped DEF Follows
      <4> QED BY <4>5, <4>6, <4>7 DEF IInv
    <3> QED BY <3>1, <3>2 DEF IInv, Reached
  <2>3. CASE UNCHANGED vars
    BY <2>3 DEF vars, IInv, Reached, Brackets, Follows
  <2> QED BY <2>1, <2>2, <2>3 DEF Next
<1> QED BY <1>1, <1>2, PTL DEF Spec

(***************************************************************************)
(* The theorems.                                                           *)
(***************************************************************************)
\* Whatever the document and the chain of lookups, brackets are get<...>() where
\* that compiles and a null view where it does not (types.hpp:359, 414).
THEOREM BracketsAreTyped == Spec => []Brackets
BY Invariant, PTL DEF IInv

\* Whatever the document and the chain of lookups, the runtime value and the view
\* stand at the same element unless an object was given an index (load.hpp:26-30).
THEOREM ChainsAgree == Spec => []SameElement
<1>1. IInv => SameElement
  <2> SUFFICES ASSUME IInv, ~positional PROVE SameElement
    BY DEF SameElement
  <2>1. CASE typed = <<>>
    <3>1. value = SharedNull /\ view = NullView
      BY <2>1 DEF IInv, Brackets, Follows
    <3>2. value.type_ = "null" /\ view.type = "null"
      BY <3>1 DEF SharedNull, NullView
    <3>3. ASSUME NEW key \in Keys
          PROVE  (Find(value, key) # <<>>) = ViewContains(view, key)
      <4>1. Find(value, key) = <<>>
        BY <3>1, MissesStay
      <4> QED BY <3>2, <4>1 DEF ViewContains
    <3>4. ~(value.type_ \in {"array", "object"}) /\ value.type_ # "string"
      BY <3>2
    <3> QED BY <3>2, <3>3, <3>4 DEF SameElement
  <2>2. ASSUME NEW n \in Nodes, typed = <<n>> PROVE SameElement
    <3>1. value = Value(n) /\ view = View(n)
      BY <2>2 DEF IInv, Brackets, Follows
    <3>2. value.type_ = n.kind /\ view.type = n.kind /\ value.members_ = n.members
      BY <3>1 DEF Value, View
    <3>3. n.kind = "string" => value.string_ = view.text
      BY <3>1 DEF Value, View
    <3>4. n.kind \in {"array", "object"} => ValueSize(value) = view.child_count
      BY <3>1, <3>2 DEF ValueSize, Value, View
    <3>5. ASSUME NEW key \in Keys
          PROVE  (Find(value, key) # <<>>) = ViewContains(view, key)
      <4>1. CASE n.kind = "object"
        BY <3>1, <3>2, <4>1 DEF Find, ViewContains, View
      <4>2. CASE n.kind # "object"
        BY <3>2, <4>2, NodesAssumption, FirstOfNone DEF Find, ViewContains
      <4> QED BY <4>1, <4>2
    <3> QED BY <3>2, <3>3, <3>4, <3>5 DEF SameElement
  <2> QED BY <2>1, <2>2 DEF IInv, Reached
<1> QED BY <1>1, Invariant, PTL

-----------------------------------------------------------------------------
(***************************************************************************)
(* Equality.  Values are trees, so both the recursion of operator== and    *)
(* the proofs go by how deep they are nested.                              *)
(***************************************************************************)
\* What == compares.
Pairs == Values \X Values

\* A value next to another, when f tells which of their contents are equal.
Matches(f, lhs, rhs) ==
    /\ lhs.kind = rhs.kind
    /\ lhs.kind = "boolean" => lhs.boolean = rhs.boolean
    /\ lhs.kind = "number"  => SameNumber(lhs, rhs)
    /\ lhs.kind = "string"  => lhs.string = rhs.string
    /\ lhs.kind = "array"   =>
          /\ Len(lhs.elements) = Len(rhs.elements)
          /\ \A i \in DOMAIN lhs.elements : f[<<lhs.elements[i], rhs.elements[i]>>]
    /\ lhs.kind = "object"  =>
          /\ Len(lhs.members) = Len(rhs.members)
          /\ \A i \in DOMAIN lhs.members :
                /\ lhs.members[i].key = rhs.members[i].key
                /\ f[<<lhs.members[i].value, rhs.members[i].value>>]

\* What a value holds are values, nested less deep.
LEMMA Held ==
    ASSUME NEW lhs \in Values, NEW rhs \in Values
    PROVE  /\ Len(lhs.elements) = Len(rhs.elements) =>
                 \A i \in DOMAIN lhs.elements :
                    /\ lhs.elements[i] \in Values /\ rhs.elements[i] \in Values
                    /\ Depth[lhs.elements[i]] < Depth[lhs]
           /\ Len(lhs.members) = Len(rhs.members) =>
                 \A i \in DOMAIN lhs.members :
                    /\ lhs.members[i].value \in Values /\ rhs.members[i].value \in Values
                    /\ Depth[lhs.members[i].value] < Depth[lhs]
<1>1. ASSUME Len(lhs.elements) = Len(rhs.elements), NEW i \in DOMAIN lhs.elements
      PROVE  /\ lhs.elements[i] \in Values /\ rhs.elements[i] \in Values
             /\ Depth[lhs.elements[i]] < Depth[lhs]
  <2>1. lhs.elements \in Seq(Values) /\ rhs.elements \in Seq(Values)
    BY ValuesAssumption
  <2>2. i \in DOMAIN rhs.elements
    BY <1>1, <2>1
  <2>3. Depth[lhs.elements[i]] < Depth[lhs]
    BY <1>1, ValuesAssumption
  <2> QED
    BY <1>1, <2>1, <2>2, <2>3
<1>2. ASSUME Len(lhs.members) = Len(rhs.members), NEW i \in DOMAIN lhs.members
      PROVE  /\ lhs.members[i].value \in Values /\ rhs.members[i].value \in Values
             /\ Depth[lhs.members[i].value] < Depth[lhs]
  <2>1. PICK L, R : lhs.members \in Seq(L) /\ rhs.members \in Seq(R)
    BY ValuesAssumption
  <2>2. i \in DOMAIN rhs.members
    BY <1>2, <2>1
  <2>3. Depth[lhs.members[i].value] < Depth[lhs]
    BY <1>2, ValuesAssumption
  <2> QED
    BY <1>2, <2>2, <2>3, ValuesAssumption
<1> QED
  BY <1>1, <1>2

\* The recursion of == ends: it compares values that are nested less deep.
LEMMA EqualRecurs ==
    ASSUME NEW lhs \in Values, NEW rhs \in Values
    PROVE  /\ Equal[<<lhs, rhs>>] <=> Matches(Equal, lhs, rhs)
           /\ Equal[<<lhs, rhs>>] \in BOOLEAN
<1> DEFINE W == [Pairs -> BOOLEAN]
           Step == [pair \in Pairs |-> [f \in W |-> Matches(f, pair[1], pair[2])]]
           Rank == [pair \in Pairs |-> Depth[pair[1]]]
           Computes(f) == f = [pair \in Values \X Values |-> Matches(f, pair[1], pair[2])]
           equalling == CHOOSE f : Computes(f)
<1>1. Rank \in [Pairs -> Nat]
  BY ValuesAssumption DEF Pairs
<1>2. Step \in [Pairs -> [W -> BOOLEAN]]
  BY DEF Matches
<1>3. ASSUME NEW pair \in Pairs, NEW f \in W, NEW g \in W,
             \A p \in Pairs : Rank[p] < Rank[pair] => f[p] = g[p]
      PROVE  Step[pair][f] = Step[pair][g]
  <2>1. PICK u \in Values, v \in Values : pair = <<u, v>>
    BY DEF Pairs
  <2>2. ASSUME NEW x \in Values, NEW y \in Values, Depth[x] < Depth[u]
        PROVE  f[<<x, y>>] = g[<<x, y>>]
    <3>1. <<x, y>> \in Pairs /\ Rank[<<x, y>>] = Depth[x] /\ Rank[pair] = Depth[u]
      BY <2>1 DEF Pairs
    <3> QED
      BY <1>3, <2>2, <3>1
  <2> HIDE DEF W, Rank
  <2>3. ASSUME Len(u.elements) = Len(v.elements), NEW i \in DOMAIN u.elements
        PROVE  f[<<u.elements[i], v.elements[i]>>] = g[<<u.elements[i], v.elements[i]>>]
    BY <2>2, <2>3, Held
  <2>4. ASSUME Len(u.members) = Len(v.members), NEW i \in DOMAIN u.members
        PROVE  f[<<u.members[i].value, v.members[i].value>>]
                  = g[<<u.members[i].value, v.members[i].value>>]
    BY <2>2, <2>4, Held
  <2>5. Matches(f, u, v) = Matches(g, u, v)
    BY <2>3, <2>4 DEF Matches
  <2>6. Step[pair][f] = Matches(f, u, v) /\ Step[pair][g] = Matches(g, u, v)
    <3> HIDE DEF Rank
    <3> QED
      BY <1>3, <2>1 DEF Pairs
  <2> HIDE DEF Step
  <2> QED
    BY <2>5, <2>6
<1>4. PICK h \in W : Solves(h, Step, Pairs)
  <2>1. LooksBelow(Step, Pairs, BOOLEAN, Rank)
    <3> HIDE DEF Step, Rank
    <3> QED
      BY <1>2, <1>3 DEF LooksBelow
  <2>2. PICK B : B = BOOLEAN
    OBVIOUS
  <2>3. FALSE \in B /\ LooksBelow(Step, Pairs, B, Rank)
    BY <2>1, <2>2
  <2> HIDE DEF Step, Rank, W
  <2>4. \E h \in [Pairs -> B] : Solves(h, Step, Pairs)
    BY <1>1, <2>3, TreeRecursion
  <2>5. W = [Pairs -> B]
    BY <2>2 DEF W
  <2> QED
    BY <2>4, <2>5
<1>5. Computes(h)
  <2>1. ASSUME NEW pair \in Pairs PROVE h[pair] = Matches(h, pair[1], pair[2])
    BY <1>4 DEF Solves
  <2>2. h = [pair \in Pairs |-> h[pair]]
    OBVIOUS
  <2>3. h = [pair \in Pairs |-> Matches(h, pair[1], pair[2])]
    BY <2>1, <2>2, Zenon
  <2> QED
    BY <2>3 DEF Pairs
<1>6. Computes(equalling)
  BY <1>5
<1>7. Equal = equalling
  BY DEF Equal, Matches
<1>8. Equal = [pair \in Values \X Values |-> Matches(Equal, pair[1], pair[2])]
  BY <1>6, <1>7
<1>9. <<lhs, rhs>> \in Values \X Values
  OBVIOUS
<1>10. Equal[<<lhs, rhs>>] = Matches(Equal, lhs, rhs)
  BY <1>8, <1>9
<1>11. Matches(Equal, lhs, rhs) \in BOOLEAN
  BY DEF Matches
<1> QED
  BY <1>10, <1>11

\* A value without NaN and with exact integers, when f tells which contents are so.
Plain(f, v) ==
    /\ v.kind = "number" => ~v.nan /\ (v.integral => v.integer \in -Exact..Exact)
    /\ \A i \in DOMAIN v.elements : f[v.elements[i]]
    /\ \A i \in DOMAIN v.members : f[v.members[i].value]

\* The recursion of Exactly ends as well.
LEMMA ExactlyRecurs ==
    ASSUME NEW u \in Values
    PROVE  Exactly[u] <=> Plain(Exactly, u)
<1> DEFINE W == [Values -> BOOLEAN]
           Step == [v \in Values |-> [f \in W |-> Plain(f, v)]]
           Computes(f) == f = [v \in Values |-> Plain(f, v)]
           exactly == CHOOSE f : Computes(f)
<1>1. Depth \in [Values -> Nat]
  BY ValuesAssumption
<1>2. Step \in [Values -> [W -> BOOLEAN]]
  BY DEF Plain
<1>3. ASSUME NEW v \in Values, NEW f \in W, NEW g \in W,
             \A w \in Values : Depth[w] < Depth[v] => f[w] = g[w]
      PROVE  Step[v][f] = Step[v][g]
  <2>1. ASSUME NEW i \in DOMAIN v.elements PROVE f[v.elements[i]] = g[v.elements[i]]
    BY <1>3, Held
  <2>2. ASSUME NEW i \in DOMAIN v.members
        PROVE  f[v.members[i].value] = g[v.members[i].value]
    BY <1>3, Held
  <2>3. Plain(f, v) = Plain(g, v)
    BY <2>1, <2>2 DEF Plain
  <2>4. Step[v][f] = Plain(f, v) /\ Step[v][g] = Plain(g, v)
    BY <1>3
  <2> HIDE DEF Step
  <2> QED
    BY <2>3, <2>4
<1>4. PICK h \in W : Solves(h, Step, Values)
  <2>1. LooksBelow(Step, Values, BOOLEAN, Depth)
    <3> HIDE DEF Step
    <3> QED
      BY <1>2, <1>3 DEF LooksBelow
  <2>2. PICK B : B = BOOLEAN
    OBVIOUS
  <2>3. FALSE \in B /\ LooksBelow(Step, Values, B, Depth)
    BY <2>1, <2>2
  <2> HIDE DEF Step, W
  <2>4. \E h \in [Values -> B] : Solves(h, Step, Values)
    BY <1>1, <2>3, TreeRecursion
  <2>5. W = [Values -> B]
    BY <2>2 DEF W
  <2> QED
    BY <2>4, <2>5
<1>5. Computes(h)
  <2>1. ASSUME NEW v \in Values PROVE h[v] = Plain(h, v)
    BY <1>4 DEF Solves
  <2>2. h = [v \in Values |-> h[v]]
    OBVIOUS
  <2> QED
    BY <2>1, <2>2, Zenon
<1>6. Computes(exactly)
  BY <1>5
<1>7. Exactly = exactly
  BY DEF Exactly, Plain
<1>8. Exactly = [v \in Values |-> Plain(Exactly, v)]
  BY <1>6, <1>7
<1> QED
  BY <1>8

-----------------------------------------------------------------------------
\* Exact numbers are the same if their doubles are.
LEMMA ExactNumbers ==
    ASSUME NEW u \in Values, NEW v \in Values, u.kind = "number", v.kind = "number",
           Exactly[u], Exactly[v]
    PROVE  SameNumber(u, v) <=> u.floating = v.floating
<1>1. ASSUME NEW w \in Values, w.kind = "number", Exactly[w]
      PROVE  ~w.nan /\ (w.integral => w.integer \in Int /\ w.floating = 2 * w.integer)
  <2>1. ~w.nan /\ (w.integral => w.integer \in -Exact..Exact)
    BY <1>1, ExactlyRecurs DEF Plain
  <2>2. w.integral => w.integer \in Int /\ w.floating = 2 * Nearest(w.integer)
    BY <1>1, ValuesAssumption
  <2> QED
    BY <2>1, <2>2 DEF Nearest
<1>2. ~u.nan /\ (u.integral => u.integer \in Int /\ u.floating = 2 * u.integer)
  BY <1>1
<1>3. ~v.nan /\ (v.integral => v.integer \in Int /\ v.floating = 2 * v.integer)
  BY <1>1
<1>4. CASE u.integral /\ v.integral
  BY <1>2, <1>3, <1>4 DEF SameNumber
<1>5. CASE ~(u.integral /\ v.integral)
  BY <1>2, <1>3, <1>5 DEF SameNumber
<1> QED
  BY <1>4, <1>5

\* A value without NaN equals itself.
LEMMA Reflexive ==
    ASSUME NEW u \in Values, Exactly[u]
    PROVE  Equal[<<u, u>>]
<1> DEFINE T == {v \in Values : Exactly[v] => Equal[<<v, v>>]}
<1>1. ASSUME NEW v \in Values, \A w \in Values : Depth[w] < Depth[v] => w \in T
      PROVE  v \in T
  <2> SUFFICES ASSUME Exactly[v] PROVE Matches(Equal, v, v)
    BY EqualRecurs
  <2>1. v.kind = "number" => SameNumber(v, v)
    BY ExactNumbers
  <2>2. ASSUME NEW i \in DOMAIN v.elements PROVE Equal[<<v.elements[i], v.elements[i]>>]
    <3>1. v.elements[i] \in Values /\ Depth[v.elements[i]] < Depth[v]
      BY Held
    <3>2. Exactly[v.elements[i]]
      BY ExactlyRecurs DEF Plain
    <3> QED
      BY <1>1, <3>1, <3>2
  <2>3. ASSUME NEW i \in DOMAIN v.members
        PROVE  Equal[<<v.members[i].value, v.members[i].value>>]
    <3>1. v.members[i].value \in Values /\ Depth[v.members[i].value] < Depth[v]
      BY Held
    <3>2. Exactly[v.members[i].value]
      BY ExactlyRecurs DEF Plain
    <3> QED
      BY <1>1, <3>1, <3>2
  <2> QED
    BY <2>1, <2>2, <2>3 DEF Matches
<1>2. Values \subseteq T
  <2>1. Depth \in [Values -> Nat]
    BY ValuesAssumption
  <2> HIDE DEF T
  <2> QED
    BY <1>1, <2>1, TreeInduction
<1> QED
  BY <1>2

\* Which of two values is on the left does not matter.
LEMMA Symmetric ==
    ASSUME NEW u \in Values, NEW v \in Values, Equal[<<u, v>>]
    PROVE  Equal[<<v, u>>]
<1> DEFINE T == {x \in Values : \A y \in Values : Equal[<<x, y>>] => Equal[<<y, x>>]}
<1>1. ASSUME NEW x \in Values, \A w \in Values : Depth[w] < Depth[x] => w \in T
      PROVE  x \in T
  <2> SUFFICES ASSUME NEW y \in Values, Equal[<<x, y>>] PROVE Matches(Equal, y, x)
    BY EqualRecurs
  <2>1. Matches(Equal, x, y)
    BY EqualRecurs
  <2>2. x.kind = "number" => SameNumber(y, x)
    BY <2>1 DEF Matches, SameNumber
  <2>3. ASSUME x.kind = "array"
        PROVE  /\ Len(y.elements) = Len(x.elements)
               /\ \A i \in DOMAIN y.elements : Equal[<<y.elements[i], x.elements[i]>>]
    <3>1. Len(y.elements) = Len(x.elements)
      BY <2>1, <2>3 DEF Matches
    <3>2. ASSUME NEW i \in DOMAIN y.elements PROVE Equal[<<y.elements[i], x.elements[i]>>]
      <4>1. i \in DOMAIN x.elements
        BY <3>1, ValuesAssumption
      <4>2. /\ x.elements[i] \in Values /\ y.elements[i] \in Values
            /\ Depth[x.elements[i]] < Depth[x]
        BY <3>1, <4>1, Held
      <4>3. Equal[<<x.elements[i], y.elements[i]>>]
        BY <2>1, <2>3, <4>1 DEF Matches
      <4> QED
        BY <1>1, <4>2, <4>3
    <3> QED
      BY <3>1, <3>2
  <2>4. ASSUME x.kind = "object"
        PROVE  /\ Len(y.members) = Len(x.members)
               /\ \A i \in DOMAIN y.members :
                     /\ y.members[i].key = x.members[i].key
                     /\ Equal[<<y.members[i].value, x.members[i].value>>]
    <3>1. Len(y.members) = Len(x.members)
      BY <2>1, <2>4 DEF Matches
    <3>2. ASSUME NEW i \in DOMAIN y.members
          PROVE  /\ y.members[i].key = x.members[i].key
                 /\ Equal[<<y.members[i].value, x.members[i].value>>]
      <4>1. i \in DOMAIN x.members
        <5>1. PICK L, R : x.members \in Seq(L) /\ y.members \in Seq(R)
          BY ValuesAssumption
        <5> QED
          BY <3>1, <3>2, <5>1
      <4>2. /\ x.members[i].value \in Values /\ y.members[i].value \in Values
            /\ Depth[x.members[i].value] < Depth[x]
        BY <3>1, <4>1, Held
      <4>3. /\ x.members[i].key = y.members[i].key
            /\ Equal[<<x.members[i].value, y.members[i].value>>]
        BY <2>1, <2>4, <4>1 DEF Matches
      <4> QED
        BY <1>1, <4>2, <4>3
    <3> QED
      BY <3>1, <3>2
  <2> QED
    BY <2>1, <2>2, <2>3, <2>4 DEF Matches
<1>2. Values \subseteq T
  <2>1. Depth \in [Values -> Nat]
    BY ValuesAssumption
  <2> HIDE DEF T
  <2> QED
    BY <1>1, <2>1, TreeInduction
<1> QED
  BY <1>2

\* What equals the same value is equal, where integers are exact.
LEMMA Transitive ==
    ASSUME NEW u \in Values, NEW v \in Values, NEW w \in Values,
           Exactly[u], Exactly[v], Exactly[w], Equal[<<u, v>>], Equal[<<v, w>>]
    PROVE  Equal[<<u, w>>]
<1> DEFINE Through(x) == \A y, z \in Values :
                            /\ Exactly[x] /\ Exactly[y] /\ Exactly[z]
                            /\ Equal[<<x, y>>] /\ Equal[<<y, z>>]
                            => Equal[<<x, z>>]
           T == {x \in Values : Through(x)}
<1>1. ASSUME NEW x \in Values, \A h \in Values : Depth[h] < Depth[x] => h \in T
      PROVE  x \in T
  <2> SUFFICES ASSUME NEW y \in Values, NEW z \in Values,
                      Exactly[x], Exactly[y], Exactly[z],
                      Equal[<<x, y>>], Equal[<<y, z>>]
               PROVE  Matches(Equal, x, z)
    BY EqualRecurs
  <2>1. Matches(Equal, x, y) /\ Matches(Equal, y, z)
    BY EqualRecurs
  <2>2. x.kind = "number" => SameNumber(x, z)
    <3>1. ASSUME x.kind = "number" PROVE SameNumber(x, z)
      <4>1. y.kind = "number" /\ z.kind = "number" /\ SameNumber(x, y) /\ SameNumber(y, z)
        BY <2>1, <3>1 DEF Matches
      <4> QED
        BY <3>1, <4>1, ExactNumbers
    <3> QED
      BY <3>1
  <2>3. ASSUME NEW h \in Values, NEW k \in Values, NEW l \in Values, Depth[h] < Depth[x],
               Exactly[h], Exactly[k], Exactly[l], Equal[<<h, k>>], Equal[<<k, l>>]
        PROVE  Equal[<<h, l>>]
    BY <1>1, <2>3
  <2>4. ASSUME x.kind = "array"
        PROVE  /\ Len(x.elements) = Len(z.elements)
               /\ \A i \in DOMAIN x.elements : Equal[<<x.elements[i], z.elements[i]>>]
    <3>1. /\ y.kind = "array" /\ Len(x.elements) = Len(y.elements)
          /\ Len(y.elements) = Len(z.elements)
      BY <2>1, <2>4 DEF Matches
    <3>2. ASSUME NEW i \in DOMAIN x.elements PROVE Equal[<<x.elements[i], z.elements[i]>>]
      <4>1. i \in DOMAIN y.elements /\ i \in DOMAIN z.elements
        BY <3>1, ValuesAssumption
      <4>2. /\ x.elements[i] \in Values /\ y.elements[i] \in Values /\ z.elements[i] \in Values
            /\ Depth[x.elements[i]] < Depth[x]
        BY <3>1, <4>1, Held
      <4>3. Exactly[x.elements[i]] /\ Exactly[y.elements[i]] /\ Exactly[z.elements[i]]
        BY <4>1, ExactlyRecurs DEF Plain
      <4>4. Equal[<<x.elements[i], y.elements[i]>>] /\ Equal[<<y.elements[i], z.elements[i]>>]
        BY <2>1, <2>4, <3>1, <4>1 DEF Matches
      <4> QED
        BY <2>3, <4>2, <4>3, <4>4
    <3> QED
      BY <3>1, <3>2
  <2>5. ASSUME x.kind = "object"
        PROVE  /\ Len(x.members) = Len(z.members)
               /\ \A i \in DOMAIN x.members :
                     /\ x.members[i].key = z.members[i].key
                     /\ Equal[<<x.members[i].value, z.members[i].value>>]
    <3>1. /\ y.kind = "object" /\ Len(x.members) = Len(y.members)
          /\ Len(y.members) = Len(z.members)
      BY <2>1, <2>5 DEF Matches
    <3>2. ASSUME NEW i \in DOMAIN x.members
          PROVE  /\ x.members[i].key = z.members[i].key
                 /\ Equal[<<x.members[i].value, z.members[i].value>>]
      <4>1. i \in DOMAIN y.members /\ i \in DOMAIN z.members
        <5>1. PICK L, M, N : x.members \in Seq(L) /\ y.members \in Seq(M) /\ z.members \in Seq(N)
          BY ValuesAssumption
        <5> QED
          BY <3>1, <3>2, <5>1
      <4>2. /\ x.members[i].value \in Values /\ y.members[i].value \in Values
            /\ z.members[i].value \in Values /\ Depth[x.members[i].value] < Depth[x]
        BY <3>1, <4>1, Held
      <4>3. /\ Exactly[x.members[i].value] /\ Exactly[y.members[i].value]
            /\ Exactly[z.members[i].value]
        BY <4>1, ExactlyRecurs DEF Plain
      <4>4. /\ x.members[i].key = y.members[i].key /\ y.members[i].key = z.members[i].key
            /\ Equal[<<x.members[i].value, y.members[i].value>>]
            /\ Equal[<<y.members[i].value, z.members[i].value>>]
        BY <2>1, <2>5, <3>1, <4>1 DEF Matches
      <4> QED
        BY <2>3, <4>2, <4>3, <4>4
    <3> QED
      BY <3>1, <3>2
  <2> QED
    BY <2>1, <2>2, <2>4, <2>5 DEF Matches
<1>2. Values \subseteq T
  <2>1. Depth \in [Values -> Nat]
    BY ValuesAssumption
  <2> HIDE DEF T
  <2> QED
    BY <1>1, <2>1, TreeInduction
<1> QED
  BY <1>2

-----------------------------------------------------------------------------
\* What has been compared, and how.
Compares ==
    /\ a \in Values /\ b \in Values /\ c \in Values
    /\ equal # <<>> =>
          /\ equal.aa = Equal[<<a, a>>]
          /\ equal.ab = Equal[<<a, b>>]
          /\ equal.ba = Equal[<<b, a>>]
          /\ equal.bc = Equal[<<b, c>>]
          /\ equal.ac = Equal[<<a, c>>]

\* == of the runtime value is an equivalence of all values below Exact, however deep
\* they are and however integers and doubles are mixed in them. (operator==)
THEOREM EqualityIsEquivalence == CompareSpec => []Equivalence
<1>1. CompareInit => Compares
  BY DEF CompareInit, Compares
<1>2. Compares /\ [CompareNext]_compared => Compares'
  BY DEF Compares, CompareNext, Compare, Compared, compared
<1>3. Compares => Equivalence
  <2> SUFFICES ASSUME Compares, equal # <<>>, Exactly[a], Exactly[b], Exactly[c]
               PROVE  equal.aa /\ equal.ab = equal.ba /\ (equal.ab /\ equal.bc => equal.ac)
    BY DEF Equivalence
  <2>1. Equal[<<a, b>>] = Equal[<<b, a>>]
    BY Symmetric, EqualRecurs DEF Compares
  <2>2. Equal[<<a, a>>]
    BY Reflexive DEF Compares
  <2>3. Equal[<<a, b>>] /\ Equal[<<b, c>>] => Equal[<<a, c>>]
    BY Transitive DEF Compares
  <2> QED
    BY <2>1, <2>2, <2>3 DEF Compares
<1> QED
  BY <1>1, <1>2, <1>3, PTL DEF CompareSpec

=============================================================================

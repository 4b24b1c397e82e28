--------------------------- MODULE ScanningProofs ---------------------------
(***************************************************************************)
(* What the scanning helpers of module Bytes and the number scanner of     *)
(* module NumberLexer return, for every text and offset, and induction.    *)
(***************************************************************************)
EXTENDS NumberLexer, TLAPS, WellFoundedInduction

-----------------------------------------------------------------------------
\* A non-empty set of natural numbers has a least element.
LEMMA LeastNatural ==
    ASSUME NEW T \in SUBSET Nat, T # {}
    PROVE  \E x \in T : \A y \in T : x <= y
<1>1. \E x \in T : \A y \in T : <<y, x>> \notin OpToRel(<, Nat)
  BY NatLessThanWellFounded, WFMin
<1>2. \A x, y \in T : <<y, x>> \notin OpToRel(<, Nat) => x <= y
  BY DEF OpToRel
<1> QED
  BY <1>1, <1>2

\* Induction, for sets of numbers: the theorems of the library are about predicates,
\* which the provers cannot put in.
LEMMA Induction ==
    ASSUME NEW S, 0 \in S, \A n \in Nat : n \in S => n + 1 \in S
    PROVE  Nat \subseteq S
<1> DEFINE T == Nat \ S
<1>1. SUFFICES ASSUME T # {} PROVE FALSE
  OBVIOUS
<1>2. T \in SUBSET Nat
  OBVIOUS
<1>3. PICK x \in T : \A y \in T : x <= y
  BY <1>1, <1>2, LeastNatural
<1>4. x \in Nat /\ x \notin S /\ x # 0
  BY <1>3
<1>5. x - 1 \in Nat /\ ~(x <= x - 1) /\ (x - 1) + 1 = x
  BY <1>4
<1>6. x - 1 \in S
  BY <1>3, <1>5
<1> QED
  BY <1>4, <1>5, <1>6

\* Induction up to a bound.
LEMMA BoundedInduction ==
    ASSUME NEW N \in Nat, NEW S, 0 \in S, \A n \in 1..N : n - 1 \in S => n \in S
    PROVE  0..N \subseteq S
<1> DEFINE T == {n \in Nat : n <= N => n \in S}
<1>1. 0 \in T
  OBVIOUS
<1>2. ASSUME NEW n \in Nat, n \in T PROVE n + 1 \in T
  <2>1. n + 1 <= N => n + 1 \in 1..N /\ (n + 1) - 1 = n /\ n <= N
    OBVIOUS
  <2> QED
    BY <1>2, <2>1
<1>3. Nat \subseteq T
  <2> HIDE DEF T
  <2> QED
    BY <1>1, <1>2, Induction
<1> QED
  BY <1>3

\* What a function that is defined by recursion from a computes, up to m.
Iterates(h, a, Step, m) == h[0] = a /\ \A n \in 1..m : h[n] = Step[n][h[n - 1]]

\* A recursion has a solution, whatever its steps do.
LEMMA Recursion ==
    ASSUME NEW V, NEW a \in V, NEW N \in Nat, NEW Step \in [1..N -> [V -> V]]
    PROVE  \E h \in [0..N -> V] : Iterates(h, a, Step, N)
<1> DEFINE Good(m) == \E h \in [0..m -> V] : Iterates(h, a, Step, m)
           S == {m \in 0..N : Good(m)}
<1>1. 0 \in S
  <2>1. [k \in 0..0 |-> a] \in [0..0 -> V]
    OBVIOUS
  <2>2. Iterates([k \in 0..0 |-> a], a, Step, 0)
    BY DEF Iterates
  <2>3. Good(0)
    BY <2>1, <2>2
  <2> HIDE DEF Good
  <2> QED
    BY <2>3
<1>2. ASSUME NEW m \in 1..N, m - 1 \in S PROVE m \in S
  <2>1. Good(m - 1)
    <3> HIDE DEF Good
    <3> QED
      BY <1>2
  <2>2. PICK h \in [0..(m - 1) -> V] : Iterates(h, a, Step, m - 1)
    BY <2>1
  <2>3. /\ h[0] = a
        /\ \A k \in 1..(m - 1) : h[k] = Step[k][h[k - 1]]
        /\ \A k \in 0..(m - 1) : h[k] \in V
    BY <2>2 DEF Iterates
  <2> DEFINE top == Step[m][h[m - 1]]
             g == [k \in 0..m |-> IF k = m THEN top ELSE h[k]]
  <2>4. top \in V
    <3>1. Step[m] \in [V -> V] /\ m - 1 \in 0..(m - 1)
      OBVIOUS
    <3> QED
      BY <2>3, <3>1
  <2>5. g[m] = top /\ \A k \in 0..(m - 1) : g[k] = h[k]
    OBVIOUS
  <2>6. g \in [0..m -> V]
    <3>1. ASSUME NEW k \in 0..m PROVE g[k] \in V
      <4>1. k \in 0..(m - 1) \/ k = m
        OBVIOUS
      <4> HIDE DEF g, top
      <4> QED
        BY <4>1, <2>3, <2>4, <2>5
    <3> HIDE DEF top
    <3> QED
      BY <3>1
  <2> HIDE DEF g
  <2>7. ASSUME NEW k \in 1..m PROVE g[k] = Step[k][g[k - 1]]
    <3>1. CASE k = m
      <4>1. m - 1 \in 0..(m - 1)
        OBVIOUS
      <4> QED
        BY <3>1, <4>1, <2>5
    <3>2. CASE k # m
      <4>1. k \in 1..(m - 1) /\ k - 1 \in 0..(m - 1) /\ k \in 0..(m - 1)
        BY <3>2
      <4> QED
        BY <4>1, <2>3, <2>5
    <3> QED
      BY <3>1, <3>2
  <2>8. g[0] = a
    <3>1. 0 \in 0..(m - 1)
      OBVIOUS
    <3> QED
      BY <3>1, <2>3, <2>5
  <2>9. Good(m)
    BY <2>6, <2>7, <2>8 DEF Iterates
  <2> HIDE DEF Good
  <2> QED
    BY <2>9
<1>3. 0..N \subseteq S
  <2> HIDE DEF S
  <2> QED
    BY <1>1, <1>2, BoundedInduction
<1>4. Good(N)
  <2> HIDE DEF Good
  <2> QED
    BY <1>3
<1> QED
  BY <1>4

-----------------------------------------------------------------------------
(***************************************************************************)
(* Trees: a set whose elements are ranked by natural numbers, as the nodes *)
(* of a document are by their depth.                                       *)
(***************************************************************************)
\* What holds of an element whenever it holds of those of lower rank holds of all.
LEMMA TreeInduction ==
    ASSUME NEW S, NEW Rank \in [S -> Nat], NEW T,
           \A x \in S : (\A y \in S : Rank[y] < Rank[x] => y \in T) => x \in T
    PROVE  S \subseteq T
<1> DEFINE R == {n \in Nat : \E x \in S : x \notin T /\ Rank[x] = n}
<1>1. SUFFICES ASSUME NEW z \in S, z \notin T PROVE FALSE
  OBVIOUS
<1>2. R \in SUBSET Nat /\ Rank[z] \in R
  BY <1>1
<1>3. PICK n \in R : \A m \in R : n <= m
  <2> HIDE DEF R
  <2> QED
    BY <1>2, LeastNatural
<1>4. PICK x \in S : x \notin T /\ Rank[x] = n
  BY <1>3
<1>5. ASSUME NEW y \in S, Rank[y] < Rank[x] PROVE y \in T
  <2>1. Rank[y] \in Nat /\ n \in Nat /\ ~(n <= Rank[y])
    BY <1>3, <1>4, <1>5
  <2>2. Rank[y] \notin R
    BY <1>3, <2>1
  <2> QED
    BY <2>1, <2>2
<1> QED
  BY <1>4, <1>5

\* h(n) is what n applications of F make of a.
Orbit(h, a, F) == h[0] = a /\ \A n \in Nat : h[n + 1] = F[h[n]]

\* A function can be applied again and again.
LEMMA Iteration ==
    ASSUME NEW V, NEW a \in V, NEW F \in [V -> V]
    PROVE  \E h \in [Nat -> V] : Orbit(h, a, F)
<1> DEFINE Steps(N) == [n \in 1..N |-> F]
           Chain(N) == CHOOSE c \in [0..N -> V] : Iterates(c, a, Steps(N), N)
           h == [n \in Nat |-> Chain(n)[n]]
<1>1. ASSUME NEW N \in Nat
      PROVE  /\ Chain(N) \in [0..N -> V]
             /\ Chain(N)[0] = a
             /\ \A n \in 1..N : Chain(N)[n] = F[Chain(N)[n - 1]]
  <2>1. Steps(N) \in [1..N -> [V -> V]]
    OBVIOUS
  <2>2. \E c \in [0..N -> V] : Iterates(c, a, Steps(N), N)
    <3> HIDE DEF Steps
    <3> QED
      BY <2>1, Recursion
  <2>3. Chain(N) \in [0..N -> V] /\ Iterates(Chain(N), a, Steps(N), N)
    BY <2>2
  <2> HIDE DEF Chain
  <2> QED
    BY <2>3 DEF Iterates
<1> HIDE DEF Chain
<1>2. ASSUME NEW N \in Nat
      PROVE  Chain(N + 1)[N] = Chain(N)[N]
  <2> DEFINE T == {n \in 0..N : Chain(N + 1)[n] = Chain(N)[n]}
  <2>0. N + 1 \in Nat
    OBVIOUS
  <2>1. 0 \in T
    BY <1>1, <2>0
  <2>2. ASSUME NEW n \in 1..N, n - 1 \in T PROVE n \in T
    <3>1. n \in 0..N /\ n \in 1..(N + 1)
      OBVIOUS
    <3>2. Chain(N + 1)[n - 1] = Chain(N)[n - 1]
      BY <2>2
    <3> QED
      BY <1>1, <2>0, <3>1, <3>2
  <2>3. 0..N \subseteq T
    <3> HIDE DEF T
    <3> QED
      BY <2>1, <2>2, BoundedInduction
  <2> QED
    BY <2>3
<1>3. h \in [Nat -> V]
  <2> SUFFICES ASSUME NEW n \in Nat PROVE Chain(n)[n] \in V
    OBVIOUS
  <2> QED
    BY <1>1
<1>4. h[0] = a
  BY <1>1
<1>5. ASSUME NEW n \in Nat PROVE h[n + 1] = F[h[n]]
  <2>1. n + 1 \in Nat /\ n + 1 \in 1..(n + 1) /\ (n + 1) - 1 = n
    OBVIOUS
  <2>2. Chain(n + 1)[n + 1] = F[Chain(n + 1)[n]]
    BY <1>1, <2>1
  <2> QED
    BY <1>2, <2>1, <2>2
<1> HIDE DEF h
<1> QED
  BY <1>3, <1>4, <1>5 DEF Orbit

\* Each step uses the values at elements of lower rank alone.
LooksBelow(Step, S, V, Rank) ==
    /\ Step \in [S -> [[S -> V] -> V]]
    /\ \A x \in S : \A f, g \in [S -> V] :
           (\A y \in S : Rank[y] < Rank[x] => f[y] = g[y]) => Step[x][f] = Step[x][g]

Solves(f, Step, S) == \A x \in S : f[x] = Step[x][f]

\* A recursion on trees has a solution.
LEMMA TreeRecursion ==
    ASSUME NEW S, NEW V, NEW v \in V, NEW Rank \in [S -> Nat], NEW Step,
           LooksBelow(Step, S, V, Rank)
    PROVE  \E f \in [S -> V] : Solves(f, Step, S)
<1> DEFINE W == [S -> V]
           a == [x \in S |-> v]
           F == [f \in W |-> [x \in S |-> Step[x][f]]]
<1>1. a \in W /\ F \in [W -> W]
  BY DEF LooksBelow
<1>2. PICK h \in [Nat -> W] : Orbit(h, a, F)
  <2> HIDE DEF W, a, F
  <2> QED
    BY <1>1, Iteration
<1>3. ASSUME NEW n \in Nat
      PROVE  /\ h[n] \in W
             /\ \A x \in S : h[n + 1][x] = Step[x][h[n]]
  <2>1. h[n] \in W /\ h[n + 1] = F[h[n]]
    BY <1>2 DEF Orbit
  <2> QED
    BY <2>1
<1> DEFINE Settled(x) == \A n \in Nat : Rank[x] < n => h[n][x] = h[Rank[x] + 1][x]
           T == {x \in S : Settled(x)}
<1> HIDE DEF F, a
<1>4. ASSUME NEW x \in S, \A y \in S : Rank[y] < Rank[x] => y \in T
      PROVE  x \in T
  <2> SUFFICES ASSUME NEW n \in Nat, Rank[x] < n PROVE h[n][x] = h[Rank[x] + 1][x]
    OBVIOUS
  <2>1. PICK r \in Nat : r = Rank[x]
    OBVIOUS
  <2>2. PICK m \in Nat : n = m + 1 /\ r <= m
    <3>1. n - 1 \in Nat /\ n = (n - 1) + 1 /\ r <= n - 1
      BY <2>1
    <3> QED
      BY <3>1
  <2>3. ASSUME NEW y \in S, Rank[y] < r PROVE h[m][y] = h[r][y]
    <3>1. Settled(y)
      BY <1>4, <2>1, <2>3
    <3>2. Rank[y] \in Nat /\ Rank[y] < m
      BY <2>2, <2>3
    <3> QED
      BY <2>3, <3>1, <3>2
  <2>4. Step[x][h[m]] = Step[x][h[r]]
    <3>1. h[m] \in [S -> V] /\ h[r] \in [S -> V]
      BY <1>3
    <3> QED
      BY <2>1, <2>3, <3>1 DEF LooksBelow
  <2> QED
    BY <1>3, <2>1, <2>2, <2>4
<1>5. S \subseteq T
  <2> HIDE DEF T
  <2> QED
    BY <1>4, TreeInduction
<1> DEFINE f == [x \in S |-> h[Rank[x] + 1][x]]
<1>6. f \in [S -> V]
  <2> SUFFICES ASSUME NEW x \in S PROVE h[Rank[x] + 1][x] \in V
    OBVIOUS
  <2>1. Rank[x] + 1 \in Nat
    OBVIOUS
  <2> QED
    BY <1>3, <2>1
<1>7. ASSUME NEW x \in S PROVE f[x] = Step[x][f]
  <2>1. PICK r \in Nat : r = Rank[x]
    OBVIOUS
  <2>2. ASSUME NEW y \in S, Rank[y] < r PROVE h[r][y] = f[y]
    <3>1. Settled(y)
      BY <1>5
    <3> QED
      BY <2>2, <3>1
  <2>3. Step[x][h[r]] = Step[x][f]
    <3> HIDE DEF f
    <3>1. h[r] \in [S -> V]
      BY <1>3
    <3> QED
      BY <1>6, <2>1, <2>2, <3>1 DEF LooksBelow
  <2>4. f[x] = h[r + 1][x]
    BY <2>1
  <2> QED
    BY <1>3, <2>1, <2>3, <2>4
<1> HIDE DEF f
<1> QED
  BY <1>6, <1>7 DEF Solves

\* Each step uses the values before it alone.
LooksBack(Step, V, N) ==
    /\ Step \in [0..N -> [[0..N -> V] -> V]]
    /\ \A n \in 0..N : \A f, g \in [0..N -> V] :
           (\A m \in 0..(n - 1) : f[m] = g[m]) => Step[n][f] = Step[n][g]

\* A recursion in which a value may depend on all values before it has a solution.
LEMMA StrongRecursion ==
    ASSUME NEW V, NEW v \in V, NEW N \in Nat, NEW Step, LooksBack(Step, V, N)
    PROVE  \E h \in [0..N -> V] : Solves(h, Step, 0..N)
<1> DEFINE Rank == [n \in 0..N |-> n]
<1>1. Rank \in [0..N -> Nat]
  OBVIOUS
<1>2. ASSUME NEW n \in 0..N, NEW f \in [0..N -> V], NEW g \in [0..N -> V],
             \A m \in 0..N : Rank[m] < Rank[n] => f[m] = g[m]
      PROVE  Step[n][f] = Step[n][g]
  <2>1. ASSUME NEW m \in 0..(n - 1) PROVE f[m] = g[m]
    <3>1. m \in 0..N /\ m < n
      OBVIOUS
    <3> QED
      BY <1>2, <3>1
  <2> QED
    BY <2>1 DEF LooksBack
<1>3. LooksBelow(Step, 0..N, V, Rank)
  <2> HIDE DEF Rank
  <2> QED
    BY <1>2 DEF LooksBelow, LooksBack
<1> HIDE DEF Rank
<1> QED
  BY <1>1, <1>3, TreeRecursion

-----------------------------------------------------------------------------
(***************************************************************************)
(* Scanning.                                                               *)
(***************************************************************************)
\* RunEnd stays in the text, only passes bytes of S, and stops at the end of
\* the text or before a byte that is not in S.
LEMMA RunEndFacts ==
    ASSUME NEW s \in Seq(Byte), NEW S, NEW p \in Nat, p <= Len(s)
    PROVE  /\ RunEnd(s, p, S) \in p..Len(s)
           /\ RunEnd(s, p, S) = Len(s) \/ s[RunEnd(s, p, S) + 1] \notin S
           /\ \A k \in p..(RunEnd(s, p, S) - 1) : s[k + 1] \in S
<1> DEFINE Stops == {q \in p..Len(s) : q = Len(s) \/ s[q + 1] \notin S}
<1>1. Len(s) \in Stops /\ Stops \in SUBSET Nat
  OBVIOUS
<1>2. PICK q \in Stops : \A r \in Stops : q <= r
  BY <1>1, LeastNatural
<1>3. ASSUME NEW k \in p..(q - 1) PROVE s[k + 1] \in S
  <2>1. q \in p..Len(s) /\ Len(s) \in Nat
    OBVIOUS
  <2>2. k \in p..Len(s) /\ k # Len(s) /\ ~(q <= k)
    BY <2>1
  <2>3. k \notin Stops
    BY <1>2, <2>2
  <2> QED
    BY <2>2, <2>3
<1> QED
  BY <1>2, <1>3 DEF RunEnd

\* A slice of a text is a text.
LEMMA SliceType ==
    ASSUME NEW s \in Seq(Byte), NEW p \in Nat, NEW q \in Nat, q <= Len(s)
    PROVE  Slice(s, p, q) \in Seq(Byte)
<1>1. \A i \in (p + 1)..q : s[i] \in Byte
  OBVIOUS
<1> QED
  BY <1>1 DEF Slice

-----------------------------------------------------------------------------
\* The numbers below 256 are the bytes.
LEMMA ByteBound ==
    ASSUME NEW x \in Nat, x < 256
    PROVE  x \in Byte
BY SMT DEF Byte

\* Hexadecimal digits have the values their loops compute.
LEMMA HexValType ==
    ASSUME NEW h \in HexDigit
    PROVE  HexVal(h) \in Nat /\ HexVal(h) < 16
<1>1. CASE h \in 48..57
  BY SMT, <1>1 DEF HexVal, Digit
<1>2. CASE h \in 65..70
  BY SMT, <1>2 DEF HexVal, Digit
<1>3. CASE h \in 97..102
  BY SMT, <1>3 DEF HexVal, Digit
<1> QED
  BY <1>1, <1>2, <1>3 DEF HexDigit, Digit

\* Two hexadecimal digits make a byte.
LEMMA Hex2Type ==
    ASSUME NEW s, NEW p \in Nat,
           s[p + 1] \in HexDigit, s[p + 2] \in HexDigit
    PROVE  Hex2(s, p) \in Nat /\ Hex2(s, p) < 256
<1> DEFINE a == HexVal(s[p + 1])
           b == HexVal(s[p + 2])
<1>1. a \in Nat /\ a < 16 /\ b \in Nat /\ b < 16
  BY HexValType
<1>2. Hex2(s, p) = 16 * a + b
  BY DEF Hex2
<1> HIDE DEF a, b
<1> QED
  BY SMT, <1>1, <1>2

\* Four hexadecimal digits make a code unit of sixteen bits.
LEMMA Hex4Type ==
    ASSUME NEW s, NEW p \in Nat,
           \A k \in 1..4 : s[p + k] \in HexDigit
    PROVE  Hex4(s, p) \in Nat /\ Hex4(s, p) < 65536
<1> DEFINE a == Hex2(s, p)
           b == Hex2(s, p + 2)
<1>1. s[p + 1] \in HexDigit /\ s[p + 2] \in HexDigit
  OBVIOUS
<1>2. s[p + 2 + 1] \in HexDigit /\ s[p + 2 + 2] \in HexDigit
  <2>1. p + 2 + 1 = p + 3 /\ p + 2 + 2 = p + 4
    OBVIOUS
  <2> QED
    BY <2>1
<1>3. a \in Nat /\ a < 256
  BY <1>1, Hex2Type
<1>4. b \in Nat /\ b < 256
  BY <1>2, Hex2Type
<1>5. Hex4(s, p) = 256 * a + b
  BY DEF Hex4
<1> HIDE DEF a, b
<1> QED
  BY SMT, <1>3, <1>4, <1>5

\* A surrogate pair denotes a code point outside the basic plane.
LEMMA SurrogatePairType ==
    ASSUME NEW high \in HighSurrogate, NEW low \in LowSurrogate
    PROVE  /\ SurrogatePair(high, low) \in Nat
           /\ SurrogatePair(high, low) >= 65536
           /\ SurrogatePair(high, low) < 1114112
<1>1. high \in Nat /\ high >= 55296 /\ high <= 56319
  BY SMT DEF HighSurrogate
<1>2. low \in Nat /\ low >= 56320 /\ low <= 57343
  BY SMT DEF LowSurrogate
<1> QED
  BY SMT, <1>1, <1>2 DEF SurrogatePair

\* What append_utf8 appends is bytes, for every code point an escape denotes.
LEMMA Utf8Type ==
    ASSUME NEW cp \in Nat, cp < 1114112
    PROVE  Utf8(cp) \in Seq(Byte)
<1>1. ASSUME NEW x \in Nat
      PROVE  SixBits(x) \in Byte
  <2>1. SixBits(x) \in Nat /\ SixBits(x) < 256
    BY SMT DEF SixBits
  <2> QED
    BY <2>1, ByteBound
<1>2. cp \div 64 \in Nat
  BY SMT
<1>3. cp \div 4096 \in Nat
  BY SMT
<1>4. cp < 128 => cp \in Byte
  BY ByteBound
<1>5. cp < 2048 => 192 + cp \div 64 \in Byte
  <2>1. cp < 2048 => 192 + cp \div 64 < 256
    BY SMT, <1>2
  <2> QED
    BY <1>2, <2>1, ByteBound
<1>6. cp < 65536 => 224 + cp \div 4096 \in Byte
  <2>1. cp < 65536 => 224 + cp \div 4096 < 256
    BY SMT, <1>3
  <2> QED
    BY <1>3, <2>1, ByteBound
<1>7. 240 + cp \div 262144 \in Byte
  <2>1. 240 + cp \div 262144 < 256 /\ cp \div 262144 \in Nat
    BY SMT
  <2> QED
    BY <2>1, ByteBound
<1> QED
  BY SMT, <1>1, <1>2, <1>3, <1>4, <1>5, <1>6, <1>7 DEF Utf8

-----------------------------------------------------------------------------
\* How far a scan that starts at an offset gets: at least to `from`, and at
\* least to `least` if it succeeds.
Fits(s, scan, from, least) ==
    /\ scan.end \in Nat
    /\ from <= scan.end
    /\ scan.end <= Len(s)
    /\ scan.message = "" => least <= scan.end

\* A number that was read to offset q.
LEMMA ScannedFits ==
    ASSUME NEW s, NEW from \in Nat, NEW least \in Nat, NEW q \in Nat,
           from <= q, least <= q, q <= Len(s)
    PROVE  Fits(s, Scanned(q), from, least)
BY DEF Fits, Scanned

\* A number that was rejected at offset q.
LEMMA RejectedFits ==
    ASSUME NEW s, NEW from \in Nat, NEW least, NEW q \in Nat, NEW message,
           from <= q, q <= Len(s), message # ""
    PROVE  Fits(s, Rejected(q, message), from, least)
BY DEF Fits, Rejected

\* Bounds may be lowered.
LEMMA FitsWeaker ==
    ASSUME NEW s \in Seq(Byte), NEW scan, NEW from \in Nat, NEW least \in Nat,
           NEW from2 \in Nat, NEW least2 \in Nat, from2 <= from, least2 <= least,
           Fits(s, scan, from, least)
    PROVE  Fits(s, scan, from2, least2)
<1>1. PICK end \in Nat : end = scan.end
  BY DEF Fits
<1>2. from <= end /\ end <= Len(s)
  BY <1>1 DEF Fits
<1>3. from2 <= end
  BY <1>2
<1>4. CASE scan.message = ""
  <2>1. least <= end
    BY <1>1, <1>4 DEF Fits
  <2>2. least2 <= end
    BY <2>1
  <2> QED
    BY <1>1, <1>2, <1>3, <2>2 DEF Fits
<1>5. CASE scan.message # ""
  BY <1>1, <1>2, <1>3, <1>5 DEF Fits
<1> QED
  BY <1>4, <1>5

\* A scanning loop stops in the text, past its start if it enters its body.
LEMMA RunEndRange ==
    ASSUME NEW s \in Seq(Byte), NEW S, NEW p \in Nat, p <= Len(s)
    PROVE  /\ RunEnd(s, p, S) \in Nat
           /\ p <= RunEnd(s, p, S)
           /\ RunEnd(s, p, S) <= Len(s)
           /\ ByteIn(s, p, S) => p < RunEnd(s, p, S)
<1>1. RunEnd(s, p, S) \in p..Len(s) /\ Len(s) \in Nat
  BY RunEndFacts
<1>2. ByteIn(s, p, S) => RunEnd(s, p, S) # p
  BY RunEndFacts DEF ByteIn
<1> QED
  BY <1>1, <1>2

\* An optional sign is in the text.
LEMMA AfterSignRange ==
    ASSUME NEW s \in Seq(Byte), NEW p \in Nat, p <= Len(s)
    PROVE  AfterSign(s, p) \in Nat /\ p <= AfterSign(s, p) /\ AfterSign(s, p) <= Len(s)
BY DEF AfterSign, ByteIn

\* The exponent part, which may be empty, ends in the text.
LEMMA ScanExponentFits ==
    ASSUME NEW s \in Seq(Byte), NEW p \in Nat, p <= Len(s)
    PROVE  Fits(s, ScanExponent(s, p), p, p)
<1>1. CASE ~ByteIn(s, p, {69, 101})
  BY <1>1, ScannedFits DEF ScanExponent
<1>2. CASE ByteIn(s, p, {69, 101})
  <2>1. p + 1 <= Len(s)
    BY <1>2 DEF ByteIn
  <2>2. PICK q \in Nat : q = AfterSign(s, p + 1) /\ p <= q /\ q <= Len(s)
    BY <2>1, AfterSignRange
  <2>3. CASE ByteIn(s, q, Digit)
    <3>1. ScanExponent(s, p) = Scanned(RunEnd(s, q, Digit))
      BY <1>2, <2>2, <2>3 DEF ScanExponent
    <3>2. /\ RunEnd(s, q, Digit) \in Nat
          /\ q <= RunEnd(s, q, Digit)
          /\ RunEnd(s, q, Digit) <= Len(s)
      BY <2>2, RunEndRange
    <3> QED
      BY <2>2, <3>1, <3>2, ScannedFits
  <2>4. CASE ~ByteIn(s, q, Digit)
    <3>1. ScanExponent(s, p) = Rejected(q, "an exponent needs a digit")
      BY <1>2, <2>2, <2>4 DEF ScanExponent
    <3> QED
      BY <2>2, <3>1, RejectedFits
  <2> QED
    BY <2>3, <2>4
<1> QED
  BY <1>1, <1>2

\* A decimal number ends in the text and takes a byte.
LEMMA ScanDecimalFits ==
    ASSUME NEW s \in Seq(Byte), NEW p \in Nat, p <= Len(s)
    PROVE  Fits(s, ScanDecimal(s, p), p, p + 1)
<1>1. PICK int \in Nat : /\ int = IntegerEnd(s, p)
                         /\ p <= int
                         /\ int <= Len(s)
  BY RunEndRange DEF IntegerEnd, ByteIn
<1>2. PICK frac \in Nat : /\ frac = FractionEnd(s, int)
                          /\ int <= frac
                          /\ frac <= Len(s)
  <2>1. CASE ByteIn(s, int, {Dot})
    <3>1. int + 1 \in Nat /\ int + 1 <= Len(s)
      BY <2>1 DEF ByteIn
    <3>2. /\ RunEnd(s, int + 1, Digit) \in Nat
          /\ int + 1 <= RunEnd(s, int + 1, Digit)
          /\ RunEnd(s, int + 1, Digit) <= Len(s)
      BY <3>1, RunEndRange
    <3> QED
      BY <2>1, <3>2 DEF FractionEnd
  <2>2. CASE ~ByteIn(s, int, {Dot})
    BY <1>1, <2>2 DEF FractionEnd
  <2> QED
    BY <2>1, <2>2
<1>3. CASE int = p /\ frac <= p + 1
  <2>1. ScanDecimal(s, p) = Rejected(frac, "a number needs a digit")
    BY <1>1, <1>2, <1>3 DEF ScanDecimal
  <2>2. p <= frac
    BY <1>1, <1>2
  <2> QED
    BY <1>2, <2>1, <2>2, RejectedFits
<1>4. CASE ~(int = p /\ frac <= p + 1)
  <2>1. ScanDecimal(s, p) = ScanExponent(s, frac)
    BY <1>1, <1>2, <1>4 DEF ScanDecimal
  <2>2. Fits(s, ScanExponent(s, frac), frac, frac)
    BY <1>2, ScanExponentFits
  <2>3. p + 1 <= frac
    BY <1>1, <1>2, <1>4
  <2>4. p + 1 \in Nat /\ p <= frac
    BY <1>1, <1>2
  <2> QED
    BY <2>1, <2>2, <2>3, <2>4, FitsWeaker
<1> QED
  BY <1>3, <1>4

\* A hexadecimal number ends in the text and takes a byte.
LEMMA ScanHexFits ==
    ASSUME NEW s \in Seq(Byte), NEW p \in Nat, ByteIn(s, p + 1, {88, 120})
    PROVE  Fits(s, ScanHex(s, p), p, p + 1)
<1>1. p + 2 <= Len(s)
  BY DEF ByteIn
<1>2. PICK end \in Nat : /\ end = RunEnd(s, p + 2, HexDigit)
                         /\ p + 2 <= end
                         /\ end <= Len(s)
  BY <1>1, RunEndRange
<1>3. p <= end /\ p + 1 <= end /\ p + 1 \in Nat
  BY <1>2
<1>4. CASE end = p + 2
  <2>1. ScanHex(s, p) = Rejected(end, "a hex number needs a digit")
    BY <1>2, <1>4 DEF ScanHex
  <2> QED
    BY <1>2, <1>3, <2>1, RejectedFits
<1>5. CASE end # p + 2
  <2>1. ScanHex(s, p) = Scanned(end)
    BY <1>2, <1>5 DEF ScanHex
  <2> QED
    BY <1>2, <1>3, <2>1, ScannedFits
<1> QED
  BY <1>4, <1>5

\* parse_number leaves the position in the text, and behind at least one byte
\* if it succeeds.
LEMMA ScanNumberFits ==
    ASSUME NEW s \in Seq(Byte), NEW p \in Nat, p <= Len(s)
    PROVE  Fits(s, ScanNumber(s, p), p, p + 1)
<1>1. PICK q \in Nat : q = AfterSign(s, p) /\ p <= q /\ q <= Len(s)
  BY AfterSignRange
<1>2. CASE OccursAt(s, q, WordInfinity)
  <2>1. q + 8 <= Len(s) /\ ScanNumber(s, p) = Scanned(q + 8)
    BY <1>1, <1>2 DEF OccursAt, WordInfinity, ScanNumber
  <2> QED
    BY <1>1, <2>1, ScannedFits
<1>3. CASE ~OccursAt(s, q, WordInfinity) /\ OccursAt(s, q, WordNaN)
  <2>1. q + 3 <= Len(s) /\ ScanNumber(s, p) = Scanned(q + 3)
    BY <1>1, <1>3 DEF OccursAt, WordNaN, ScanNumber
  <2> QED
    BY <1>1, <2>1, ScannedFits
<1>4. CASE ~OccursAt(s, q, WordInfinity) /\ ~OccursAt(s, q, WordNaN)
  <2>1. CASE ~ByteIn(s, q, Digit \cup {Dot})
    <3>1. ScanNumber(s, p) = Rejected(q, "a number needs a digit")
      BY <1>1, <1>4, <2>1 DEF ScanNumber
    <3> QED
      BY <1>1, <3>1, RejectedFits
  <2>2. CASE /\ ByteIn(s, q, Digit \cup {Dot})
             /\ ByteIn(s, q, {Zero}) /\ ByteIn(s, q + 1, {88, 120})
    <3>1. ScanNumber(s, p) = ScanHex(s, q)
      BY <1>1, <1>4, <2>2 DEF ScanNumber
    <3>2. Fits(s, ScanHex(s, q), q, q + 1)
      BY <2>2, ScanHexFits
    <3>3. q + 1 \in Nat /\ p + 1 \in Nat /\ p + 1 <= q + 1
      BY <1>1
    <3> QED
      BY <1>1, <3>1, <3>2, <3>3, FitsWeaker
  <2>3. CASE /\ ByteIn(s, q, Digit \cup {Dot})
             /\ ~(ByteIn(s, q, {Zero}) /\ ByteIn(s, q + 1, {88, 120}))
    <3>1. ScanNumber(s, p) = ScanDecimal(s, q)
      BY <1>1, <1>4, <2>3 DEF ScanNumber
    <3>2. Fits(s, ScanDecimal(s, q), q, q + 1)
      BY <1>1, ScanDecimalFits
    <3>3. q + 1 \in Nat /\ p + 1 \in Nat /\ p + 1 <= q + 1
      BY <1>1
    <3> QED
      BY <1>1, <3>1, <3>2, <3>3, FitsWeaker
  <2> QED
    BY <2>1, <2>2, <2>3
<1> QED
  BY <1>2, <1>3, <1>4

=============================================================================

---------------------------- MODULE EncoderProofs ----------------------------
(***************************************************************************)
(* Theorems about module Encoder, for every set of calls: every value, of  *)
(* any depth, any bytes in its strings, and all options.                   *)
(***************************************************************************)
EXTENDS EncoderReadBack, ScanningProofs, SequenceTheorems
LOCAL INSTANCE SequencesExt

\* What dumps writes under the options: ASCII, or bytes.
Alphabet == IF options.ensure_ascii THEN 0..127 ELSE Byte

OptionsType == [indent : Int, sort_keys : BOOLEAN, ensure_ascii : BOOLEAN]

-----------------------------------------------------------------------------
(***************************************************************************)
(* FlattenSeq.                                                             *)
(***************************************************************************)
\* The partial concatenations of the sequences in q.
Flattens(h, q) == h[0] = <<>> /\ \A k \in 1..Len(q) : h[k] = h[k - 1] \o q[k]

\* FlattenSeq puts its sequences together from left to right.
LEMMA FlattenSteps ==
    ASSUME NEW S, NEW q \in Seq(Seq(S))
    PROVE  \E h \in [0..Len(q) -> Seq(S)] : Flattens(h, q) /\ FlattenSeq(q) = h[Len(q)]
<1> DEFINE N == Len(q)
           V == Seq(S)
           Step == [k \in 1..N |-> [t \in V |-> t \o q[k]]]
           Computes(f) == f = [m \in 1..N |-> IF m = 1 THEN q[m] ELSE f[m - 1] \o q[m]]
           flatten == CHOOSE f : Computes(f)
<1>1. N \in Nat /\ <<>> \in V /\ \A k \in 1..N : q[k] \in V
  OBVIOUS
<1>2. Step \in [1..N -> [V -> V]]
  <2>1. ASSUME NEW k \in 1..N, NEW t \in V PROVE t \o q[k] \in V
    BY <1>1
  <2> QED
    BY <2>1
<1>3. PICK h \in [0..N -> V] : Iterates(h, <<>>, Step, N)
  <2> HIDE DEF Step, N, V
  <2> QED
    BY <1>1, <1>2, Recursion
<1>4. h[0] = <<>> /\ \A k \in 1..N : h[k - 1] \in V /\ h[k] = h[k - 1] \o q[k]
  <2>1. h[0] = <<>> /\ \A k \in 1..N : h[k] = Step[k][h[k - 1]]
    BY <1>3 DEF Iterates
  <2>2. ASSUME NEW k \in 1..N PROVE h[k - 1] \in V /\ Step[k][h[k - 1]] = h[k - 1] \o q[k]
    <3>1. h[k - 1] \in V
      <4>1. k - 1 \in 0..N
        BY <1>1
      <4> HIDE DEF V
      <4> QED
        BY <4>1
    <3> HIDE DEF V
    <3> QED
      BY <3>1
  <2> HIDE DEF Step
  <2> QED
    BY <2>1, <2>2
<1>5. CASE N = 0
  <2>1. q = <<>> /\ FlattenSeq(q) = q
    BY <1>5 DEF FlattenSeq
  <2> QED
    BY <1>4, <1>5, <2>1 DEF Flattens
<1>6. CASE N # 0
  <2> DEFINE g == [m \in 1..N |-> h[m]]
  <2>1. h[1] = q[1]
    <3>1. 1 \in 1..N /\ 1 - 1 = 0
      BY <1>1, <1>6
    <3>2. h[1] = <<>> \o q[1]
      BY <1>4, <3>1
    <3> QED
      BY <1>1, <3>1, <3>2, ConcatEmptySeq
  <2>2. Computes(g)
    <3>1. ASSUME NEW m \in 1..N
          PROVE  g[m] = IF m = 1 THEN q[m] ELSE g[m - 1] \o q[m]
      <4>1. m # 1 => m - 1 \in 1..N
        BY <1>1
      <4> QED
        BY <1>4, <2>1, <4>1
    <3> QED
      BY <3>1
  <2>3. Computes(flatten)
    BY <2>2
  <2>4. FlattenSeq(q) = flatten[N]
    BY <1>6 DEF FlattenSeq
  <2>5. \A m \in 1..N : flatten[m] = IF m = 1 THEN q[m] ELSE flatten[m - 1] \o q[m]
    <3> HIDE DEF flatten
    <3>1. flatten = [m \in 1..N |-> IF m = 1 THEN q[m] ELSE flatten[m - 1] \o q[m]]
      BY <2>3
    <3> QED
      BY <3>1
  <2> DEFINE T == {m \in 0..N : m > 0 => flatten[m] = h[m]}
  <2> HIDE DEF flatten
  <2>6. 0 \in T
    BY <1>1
  <2>7. ASSUME NEW m \in 1..N, m - 1 \in T PROVE m \in T
    <3>1. CASE m = 1
      BY <1>1, <2>1, <2>5, <3>1
    <3>2. CASE m # 1
      <4>1. m - 1 > 0 /\ flatten[m - 1] = h[m - 1]
        BY <2>7, <3>2
      <4>2. flatten[m] = flatten[m - 1] \o q[m]
        BY <2>5, <3>2
      <4>3. flatten[m] = h[m]
        BY <1>4, <4>1, <4>2
      <4>4. m \in 0..N
        BY <1>1
      <4> QED
        BY <4>3, <4>4
    <3> QED
      BY <3>1, <3>2
  <2>8. 0..N \subseteq T
    <3> HIDE DEF T, N
    <3> QED
      BY <1>1, <2>6, <2>7, BoundedInduction
  <2>9. FlattenSeq(q) = h[N]
    <3>1. N \in 0..N /\ N > 0
      BY <1>1, <1>6
    <3>2. N \in T
      BY <2>8, <3>1
    <3> QED
      BY <2>4, <3>1, <3>2
  <2> QED
    BY <1>4, <2>9 DEF Flattens
<1> QED
  BY <1>5, <1>6

\* The partial concatenations are unique.
LEMMA FlattenUnique ==
    ASSUME NEW S, NEW q \in Seq(Seq(S)), NEW g, Flattens(g, q)
    PROVE  g[Len(q)] = FlattenSeq(q)
<1>1. PICK h \in [0..Len(q) -> Seq(S)] : Flattens(h, q) /\ FlattenSeq(q) = h[Len(q)]
  BY FlattenSteps
<1> DEFINE N == Len(q)
           T == {k \in 0..N : g[k] = h[k]}
<1>2. N \in Nat /\ N \in 0..N
  OBVIOUS
<1>3. 0 \in T
  BY <1>1, <1>2 DEF Flattens
<1>4. ASSUME NEW k \in 1..N, k - 1 \in T PROVE k \in T
  <2>1. g[k - 1] = h[k - 1] /\ k \in 0..N
    BY <1>2, <1>4
  <2>2. g[k] = g[k - 1] \o q[k] /\ h[k] = h[k - 1] \o q[k]
    BY <1>1 DEF Flattens
  <2> QED
    BY <2>1, <2>2
<1>5. 0..N \subseteq T
  <2> HIDE DEF T, N
  <2> QED
    BY <1>2, <1>3, <1>4, BoundedInduction
<1> QED
  BY <1>1, <1>2, <1>5

\* Nothing makes nothing.
LEMMA FlattenEmpty == FlattenSeq(<<>>) = <<>>
BY DEF FlattenSeq

\* What is put together from texts is a text.
LEMMA FlattenType ==
    ASSUME NEW S, NEW q \in Seq(Seq(S))
    PROVE  FlattenSeq(q) \in Seq(S)
<1>1. PICK h \in [0..Len(q) -> Seq(S)] : FlattenSeq(q) = h[Len(q)]
  BY FlattenSteps
<1>2. Len(q) \in 0..Len(q)
  OBVIOUS
<1> QED
  BY <1>1, <1>2

\* A sequence more at the end.
LEMMA FlattenLast ==
    ASSUME NEW S, NEW q \in Seq(Seq(S)), NEW r \in Seq(Seq(S)), NEW x \in Seq(S),
           Len(r) = Len(q) + 1, r[Len(r)] = x, \A k \in 1..Len(q) : r[k] = q[k]
    PROVE  FlattenSeq(r) = FlattenSeq(q) \o x
<1>1. PICK h \in [0..Len(r) -> Seq(S)] : Flattens(h, r) /\ FlattenSeq(r) = h[Len(r)]
  BY FlattenSteps
<1>2. PICK n \in Nat : n = Len(q) /\ Len(r) = n + 1 /\ (n + 1) - 1 = n /\ n + 1 \in 1..Len(r)
  OBVIOUS
<1>3. h[n + 1] = h[n] \o x
  BY <1>1, <1>2 DEF Flattens
<1>4. Flattens(h, q)
  <2>1. \A k \in 1..Len(q) : k \in 1..Len(r)
    BY <1>2
  <2> QED
    BY <1>1, <2>1 DEF Flattens
<1>5. h[Len(q)] = FlattenSeq(q)
  BY <1>4, FlattenUnique
<1> QED
  BY <1>1, <1>2, <1>3, <1>5

-----------------------------------------------------------------------------
(***************************************************************************)
(* Strings.                                                                *)
(***************************************************************************)
\* Bytes are numbers.
LEMMA ByteRange ==
    ASSUME NEW b \in Byte
    PROVE  b \in Nat /\ b < 256
BY SMT DEF Byte

\* An escape is ASCII.
LEMMA EscapeUnitType ==
    ASSUME NEW cp \in Nat
    PROVE  EscapeUnit(cp) \in Seq(0..127)
<1>1. ASSUME NEW n \in 0..15 PROVE HexByte(n) \in 0..127
  BY DEF HexByte
<1>2. ASSUME NEW x \in Nat PROVE x % 16 \in 0..15
  OBVIOUS
<1>3. cp \div 4096 \in Nat /\ cp \div 256 \in Nat /\ cp \div 16 \in Nat
  OBVIOUS
<1> DEFINE a == HexByte((cp \div 4096) % 16)
           b == HexByte((cp \div 256) % 16)
           c == HexByte((cp \div 16) % 16)
           d == HexByte(cp % 16)
<1>4. a \in 0..127 /\ b \in 0..127 /\ c \in 0..127 /\ d \in 0..127
  <2>1. /\ (cp \div 4096) % 16 \in 0..15 /\ (cp \div 256) % 16 \in 0..15
        /\ (cp \div 16) % 16 \in 0..15 /\ cp % 16 \in 0..15
    BY <1>2, <1>3
  <2> QED
    BY <1>1, <2>1
<1>5. EscapeUnit(cp) = <<92, 117, a, b, c, d>>
  BY DEF EscapeUnit, BSlash
<1> HIDE DEF a, b, c, d
<1> QED
  BY <1>4, <1>5

\* So are the escapes of a surrogate pair.
LEMMA EscapeCodePointType ==
    ASSUME NEW cp \in Nat
    PROVE  EscapeCodePoint(cp) \in Seq(0..127)
<1>1. CASE cp < 65536
  BY <1>1, EscapeUnitType DEF EscapeCodePoint
<1>2. CASE ~(cp < 65536)
  <2> DEFINE high == 55296 + (cp - 65536) \div 1024
             low  == 56320 + ((cp - 65536) % 1024)
  <2>1. high \in Nat /\ low \in Nat
    <3>1. PICK x \in Nat : x = cp - 65536
      BY <1>2
    <3>2. x \div 1024 \in Nat /\ x % 1024 \in Nat
      OBVIOUS
    <3> QED
      BY <3>1, <3>2
  <2>2. EscapeCodePoint(cp) = EscapeUnit(high) \o EscapeUnit(low)
    BY <1>2 DEF EscapeCodePoint
  <2> HIDE DEF high, low
  <2>3. EscapeUnit(high) \in Seq(0..127) /\ EscapeUnit(low) \in Seq(0..127)
    BY <2>1, EscapeUnitType
  <2> QED
    BY <2>2, <2>3
<1> QED
  BY <1>1, <1>2

\* What is decoded from a sequence is a number.
LEMMA CodePointType ==
    ASSUME NEW text \in Seq(Byte), NEW p \in Nat, p < Len(text), IsSequence(text, p)
    PROVE  /\ CodePoint(text, p) \in Nat
           /\ p + 1 + Continuation(text[p + 1]) <= Len(text)
           /\ Continuation(text[p + 1]) \in 1..3
<1> DEFINE n == Continuation(text[p + 1])
           first == text[p + 1] % <<32, 16, 8>>[n]
           Step == [k \in 1..n |-> [v \in Nat |-> 64 * v + (text[p + k + 1] % 64)]]
           Computes(f) == f = [k \in 0..n |-> IF k = 0 THEN first
                                             ELSE 64 * f[k - 1] + (text[p + k + 1] % 64)]
           bits == CHOOSE f : Computes(f)
<1>1. text[p + 1] \in Byte /\ n \in 1..3
  <2>1. n \in 0..3
    BY DEF Continuation
  <2> QED
    BY <2>1 DEF IsSequence
<1>2. \A k \in 1..n : p + k + 1 \in 1..Len(text) /\ text[p + k + 1] \in Nat
  <2> HIDE DEF n
  <2>1. ASSUME NEW k \in 1..n PROVE p + k + 1 \in 1..Len(text) /\ text[p + k + 1] \in Nat
    <3>1. p + k < Len(text) /\ p + k + 1 = (p + k) + 1
      BY DEF IsSequence, ByteIn, n
    <3>2. p + k + 1 \in 1..Len(text)
      BY <1>1, <3>1
    <3>3. text[p + k + 1] \in Byte
      BY <3>2
    <3> QED
      BY <3>2, <3>3, ByteRange
  <2> QED
    BY <2>1
<1>3. first \in Nat
  <2>1. PICK m \in {8, 16, 32} : m = <<32, 16, 8>>[n]
    <3> HIDE DEF n
    <3> QED
      BY <1>1
  <2>2. text[p + 1] \in Nat
    BY <1>1, ByteRange
  <2>3. text[p + 1] % m \in Nat
    BY <2>2
  <2> QED
    BY <2>1, <2>3
<1>4. CodePoint(text, p) = bits[n]
  BY DEF CodePoint
<1> HIDE DEF n, first
<1>5. ASSUME NEW k \in 1..n, NEW v \in Nat PROVE 64 * v + (text[p + k + 1] % 64) \in Nat
  <2>1. PICK b \in Nat : b = text[p + k + 1]
    BY <1>2
  <2>2. 64 * v + (b % 64) \in Nat
    OBVIOUS
  <2> QED
    BY <2>1, <2>2
<1>6. Step \in [1..n -> [Nat -> Nat]]
  BY <1>5
<1>7. n \in Nat /\ n \in 0..n
  BY <1>1
<1>8. PICK h \in [0..n -> Nat] : Iterates(h, first, Step, n)
  <2> HIDE DEF Step
  <2> QED
    BY <1>3, <1>6, <1>7, Recursion
<1>9. Computes(h)
  <2>1. h[0] = first /\ \A k \in 1..n : h[k] = Step[k][h[k - 1]]
    BY <1>8 DEF Iterates
  <2>2. ASSUME NEW k \in 1..n PROVE h[k] = 64 * h[k - 1] + (text[p + k + 1] % 64)
    <3>1. h[k - 1] \in Nat
      BY <1>7
    <3> QED
      BY <2>1, <3>1
  <2> QED
    BY <2>1, <2>2
<1>10. Computes(bits)
  BY <1>9
<1>11. bits[0] = first /\ \A k \in 1..n : bits[k] = 64 * bits[k - 1] + (text[p + k + 1] % 64)
  <2> HIDE DEF bits
  <2>1. bits = [k \in 0..n |-> IF k = 0 THEN first
                               ELSE 64 * bits[k - 1] + (text[p + k + 1] % 64)]
    BY <1>10
  <2> QED
    BY <1>7, <2>1
<1> DEFINE T == {k \in 0..n : bits[k] \in Nat}
<1> HIDE DEF bits
<1>12. 0 \in T
  BY <1>3, <1>7, <1>11
<1>13. ASSUME NEW k \in 1..n, k - 1 \in T PROVE k \in T
  <2>1. bits[k - 1] \in Nat
    BY <1>13
  <2> QED
    BY <1>5, <1>11, <2>1
<1>14. 0..n \subseteq T
  <2> HIDE DEF T
  <2> QED
    BY <1>7, <1>12, <1>13, BoundedInduction
<1>15. p + 1 + n <= Len(text)
  <2>1. p + n + 1 \in 1..Len(text)
    BY <1>1, <1>2
  <2> QED
    BY <1>1, <2>1
<1> QED
  BY <1>1, <1>4, <1>7, <1>14, <1>15 DEF n

\* A step of write_string writes ASCII under ensure_ascii, and goes on.
LEMMA StringPieceType ==
    ASSUME options \in OptionsType, NEW text \in Seq(Byte), NEW p \in Nat, p < Len(text)
    PROVE  /\ StringPiece(text, p, options.ensure_ascii).bytes \in Seq(Alphabet)
           /\ StringPiece(text, p, options.ensure_ascii).next \in (p + 1)..Len(text)
<1>1. PICK b \in Byte : b = text[p + 1]
  OBVIOUS
<1>2. b \in Nat /\ Len(text) \in Nat /\ p + 1 \in (p + 1)..Len(text)
  BY ByteRange
<1>3. \A x : x \in Seq(0..127) => x \in Seq(Alphabet)
  BY DEF Alphabet, Byte
<1>4. CASE b \in DOMAIN Named
  <2>1. PICK x \in 0..127 : x = Named[b]
    BY <1>4 DEF Named, Quote, BSlash, LF, CR
  <2>2. PICK w \in Seq(0..127) : w = <<BSlash, x>>
    <3>1. <<92, x>> \in Seq(0..127)
      OBVIOUS
    <3> QED
      BY <3>1 DEF BSlash
  <2>3. StringPiece(text, p, options.ensure_ascii) = [bytes |-> w, next |-> p + 1]
    BY <1>1, <1>4, <2>1, <2>2 DEF StringPiece
  <2>4. w \in Seq(Alphabet)
    BY <1>3, <2>2
  <2> QED
    BY <1>2, <2>3, <2>4
<1>5. CASE b \notin DOMAIN Named /\ b < 32
  <2>1. StringPiece(text, p, options.ensure_ascii) = [bytes |-> EscapeUnit(b), next |-> p + 1]
    BY <1>1, <1>5 DEF StringPiece
  <2> QED
    BY <1>2, <1>3, <2>1, EscapeUnitType
<1>6. CASE b \notin DOMAIN Named /\ b >= 32 /\ (b < 128 \/ ~options.ensure_ascii)
  <2>1. StringPiece(text, p, options.ensure_ascii) = [bytes |-> <<b>>, next |-> p + 1]
    BY <1>1, <1>2, <1>6 DEF StringPiece
  <2>2. b \in Alphabet
    BY <1>2, <1>6 DEF Alphabet
  <2> QED
    BY <1>2, <2>1, <2>2
<1>7. CASE /\ b \notin DOMAIN Named /\ b >= 128 /\ options.ensure_ascii
           /\ IsSequence(text, p)
  <2>1. PICK c \in 1..3 : c = Continuation(b) /\ p + 1 + c <= Len(text)
    BY <1>1, <1>7, CodePointType
  <2>2. StringPiece(text, p, options.ensure_ascii) = [bytes |-> EscapeCodePoint(CodePoint(text, p)),
                                next |-> p + 1 + Continuation(b)]
    BY <1>1, <1>2, <1>7 DEF StringPiece
  <2>3. p + 1 + c \in (p + 1)..Len(text)
    BY <1>2, <2>1
  <2>4. EscapeCodePoint(CodePoint(text, p)) \in Seq(0..127)
    BY <1>7, CodePointType, EscapeCodePointType
  <2> QED
    BY <1>3, <2>1, <2>2, <2>3, <2>4
<1>8. CASE /\ b \notin DOMAIN Named /\ b >= 128 /\ options.ensure_ascii
           /\ ~IsSequence(text, p)
  <2>1. StringPiece(text, p, options.ensure_ascii) = [bytes |-> EscapeUnit(b), next |-> p + 1]
    BY <1>1, <1>2, <1>8 DEF StringPiece, Alone
  <2> QED
    BY <1>2, <1>3, <2>1, EscapeUnitType
<1> QED
  BY <1>2, <1>4, <1>5, <1>6, <1>7, <1>8

\* write_string writes a text in the alphabet.
LEMMA WriteStringType ==
    ASSUME options \in OptionsType, NEW text \in Seq(Byte)
    PROVE  WriteString(text, options.ensure_ascii) \in Seq(Alphabet)
<1>0. PICK A : A = Alphabet
  OBVIOUS
<1> DEFINE N == Len(text)
           V == Seq(A)
           piece(p) == StringPiece(text, p, options.ensure_ascii)
           Step == [q \in 0..N |-> [f \in [0..N -> V] |->
                       IF q = 0 THEN <<>> ELSE piece(N - q).bytes \o f[N - piece(N - q).next]]]
           Computes(f) == f = [p \in 0..N |->
                                  IF p = N THEN <<>>
                                  ELSE LET pc == StringPiece(text, p, options.ensure_ascii)
                                       IN  pc.bytes \o f[pc.next]]
           rest == CHOOSE f : Computes(f)
<1>1. N \in Nat /\ <<>> \in V
  OBVIOUS
<1>2. ASSUME NEW p \in Nat, p < N
      PROVE  piece(p).bytes \in V /\ piece(p).next \in (p + 1)..N
  BY <1>0, <1>2, StringPieceType
<1>3. WriteString(text, options.ensure_ascii) = <<Quote>> \o rest[0] \o <<Quote>>
  BY DEF WriteString
<1> HIDE DEF piece, N, V
<1>4. ASSUME NEW q \in 0..N, q # 0
      PROVE  /\ N - q \in Nat /\ N - q < N
             /\ piece(N - q).bytes \in V /\ N - piece(N - q).next \in 0..(q - 1)
  <2>1. N - q \in Nat /\ N - q < N
    BY <1>1, <1>4
  <2>2. PICK p \in Nat : p = N - q /\ p < N
    BY <2>1
  <2>3. piece(p).bytes \in V /\ piece(p).next \in (p + 1)..N
    BY <1>2, <2>2
  <2>4. N - piece(p).next \in 0..(q - 1)
    BY <1>1, <2>2, <2>3
  <2> QED
    BY <2>1, <2>2, <2>3, <2>4
<1>5. Step \in [0..N -> [[0..N -> V] -> V]]
  <2>1. ASSUME NEW q \in 0..N, NEW f \in [0..N -> V]
        PROVE  (IF q = 0 THEN <<>> ELSE piece(N - q).bytes \o f[N - piece(N - q).next]) \in V
    <3>1. CASE q = 0
      BY <1>1, <3>1
    <3>2. CASE q # 0
      <4>1. N - piece(N - q).next \in 0..N
        BY <1>1, <1>4, <3>2
      <4>2. f[N - piece(N - q).next] \in V
        BY <4>1
      <4> QED
        BY <1>4, <3>2, <4>2 DEF V
    <3> QED
      BY <3>1, <3>2
  <2> QED
    BY <2>1
<1>6. ASSUME NEW q \in 0..N, NEW f \in [0..N -> V], NEW g \in [0..N -> V],
             \A m \in 0..(q - 1) : f[m] = g[m]
      PROVE  Step[q][f] = Step[q][g]
  BY <1>4, <1>6
<1>7. PICK h \in [0..N -> V] : Solves(h, Step, 0..N)
  <2>1. LooksBack(Step, V, N)
    BY <1>5, <1>6 DEF LooksBack
  <2> HIDE DEF Step
  <2> QED
    BY <1>1, <2>1, StrongRecursion
<1>8. \A q \in 0..N : h[q] = IF q = 0 THEN <<>>
                             ELSE piece(N - q).bytes \o h[N - piece(N - q).next]
  BY <1>7 DEF Solves
<1> DEFINE g == [p \in 0..N |-> h[N - p]]
<1>9. Computes(g)
  <2>1. ASSUME NEW p \in 0..N
        PROVE  g[p] = IF p = N THEN <<>> ELSE piece(p).bytes \o g[piece(p).next]
    <3>1. N - p \in 0..N /\ N - (N - p) = p /\ (N - p = 0 <=> p = N)
      BY <1>1
    <3>2. g[p] = IF p = N THEN <<>> ELSE piece(p).bytes \o h[N - piece(p).next]
      BY <1>8, <3>1
    <3>3. p # N => piece(p).next \in 0..N
      BY <1>1, <1>2
    <3> QED
      BY <3>2, <3>3
  <2> HIDE DEF g
  <2>2. g = [p \in 0..N |-> IF p = N THEN <<>> ELSE piece(p).bytes \o g[piece(p).next]]
    BY <2>1 DEF g
  <2> QED
    BY <2>2 DEF piece
<1>10. Computes(rest)
  <2> HIDE DEF g
  <2> QED
    BY <1>9
<1>11. rest = [p \in 0..N |-> IF p = N THEN <<>> ELSE piece(p).bytes \o rest[piece(p).next]]
  <2> HIDE DEF rest
  <2> QED
    BY <1>10 DEF piece
<1> DEFINE T == {q \in 0..N : \A r \in 0..q : rest[N - r] \in V}
<1> HIDE DEF rest, g, Step
<1>12. 0 \in T
  <2>1. rest[N] = <<>>
    BY <1>1, <1>11
  <2> QED
    BY <1>1, <2>1
<1>13. ASSUME NEW q \in 1..N, q - 1 \in T PROVE q \in T
  <2>1. q \in 0..N /\ q # 0 /\ N - q \in 0..N /\ N - q # N
    BY <1>1
  <2>2. PICK n \in 0..N : n = piece(N - q).next /\ N - n \in 0..(q - 1) /\ N - (N - n) = n
    <3>1. piece(N - q).next \in 0..N
      BY <1>1, <1>2, <1>4, <2>1
    <3> QED
      BY <1>1, <1>4, <2>1, <3>1
  <2>3. rest[n] \in V
    BY <1>13, <2>2
  <2>4. rest[N - q] = piece(N - q).bytes \o rest[n]
    BY <1>11, <2>1, <2>2
  <2>5. rest[N - q] \in V
    BY <1>4, <2>1, <2>3, <2>4 DEF V
  <2>6. \A r \in 0..q : r \in 0..(q - 1) \/ r = q
    BY <2>1
  <2> QED
    BY <1>13, <2>1, <2>5, <2>6
<1>14. 0..N \subseteq T
  <2> HIDE DEF T
  <2> QED
    BY <1>1, <1>12, <1>13, BoundedInduction
<1>15. rest[0] \in V
  <2>1. N \in T /\ N \in 0..N /\ N - N = 0
    BY <1>1, <1>14
  <2> QED
    BY <2>1
<1>16. <<Quote>> \in V
  <2>1. 34 \in A
    BY <1>0 DEF Alphabet, Byte
  <2> QED
    BY <2>1 DEF V, Quote
<1> QED
  BY <1>0, <1>3, <1>15, <1>16 DEF V

-----------------------------------------------------------------------------
(***************************************************************************)
(* Tokens.                                                                 *)
(***************************************************************************)
\* The digits of a number are digits.
LEMMA DecimalType ==
    ASSUME NEW n \in Nat
    PROVE  Decimal(n) \in Seq(48..57)
<1> DEFINE V == Seq(48..57)
           last(m) == <<Zero + (m % 10)>>
           Step == [m \in 0..n |-> [f \in [0..n -> V] |->
                       (IF m < 10 THEN <<>> ELSE f[m \div 10]) \o last(m)]]
           Computes(f) == f = [m \in 0..n |->
                                  (IF m < 10 THEN <<>> ELSE f[m \div 10]) \o <<Zero + (m % 10)>>]
           digits == CHOOSE f : Computes(f)
<1>1. n \in 0..n /\ <<>> \in V
  OBVIOUS
<1>2. ASSUME NEW m \in 0..n PROVE last(m) \in V
  <2>1. Zero + (m % 10) \in 48..57
    BY DEF Zero
  <2> QED
    BY <2>1
<1>3. ASSUME NEW m \in 0..n, ~(m < 10) PROVE m \div 10 \in 0..(m - 1)
  BY <1>3
<1>4. Decimal(n) = digits[n]
  BY DEF Decimal
<1>5. ASSUME NEW m \in 0..n, NEW f \in [0..n -> V]
      PROVE  (IF m < 10 THEN <<>> ELSE f[m \div 10]) \o last(m) \in V
  <2>1. ~(m < 10) => m \div 10 \in 0..n
    BY <1>3
  <2>2. (IF m < 10 THEN <<>> ELSE f[m \div 10]) \in V
    <3> HIDE DEF V
    <3> QED
      BY <1>1, <2>1
  <2> HIDE DEF last
  <2> QED
    BY <1>2, <2>2
<1> HIDE DEF last, V
<1>6. LooksBack(Step, V, n)
  <2>1. Step \in [0..n -> [[0..n -> V] -> V]]
    BY <1>5
  <2>2. ASSUME NEW m \in 0..n, NEW f \in [0..n -> V], NEW g \in [0..n -> V],
               \A k \in 0..(m - 1) : f[k] = g[k]
        PROVE  Step[m][f] = Step[m][g]
    BY <1>3, <2>2
  <2> QED
    BY <2>1, <2>2 DEF LooksBack
<1>7. PICK h \in [0..n -> V] : Solves(h, Step, 0..n)
  <2> HIDE DEF Step
  <2> QED
    BY <1>1, <1>6, StrongRecursion
<1>8. h = [m \in 0..n |-> (IF m < 10 THEN <<>> ELSE h[m \div 10]) \o last(m)]
  BY <1>7 DEF Solves
<1>9. Computes(h)
  BY <1>8 DEF last
<1>10. Computes(digits)
  BY <1>9
<1>11. \A m \in 0..n : digits[m] = (IF m < 10 THEN <<>> ELSE digits[m \div 10]) \o last(m)
  <2> HIDE DEF digits
  <2>1. digits = [m \in 0..n |-> (IF m < 10 THEN <<>> ELSE digits[m \div 10]) \o last(m)]
    BY <1>10 DEF last
  <2> QED
    BY <2>1
<1> DEFINE T == {m \in 0..n : \A k \in 0..m : digits[k] \in V}
<1> HIDE DEF digits, Step
<1>12. ASSUME NEW m \in 0..n, \A k \in 0..(m - 1) : digits[k] \in V PROVE digits[m] \in V
  <2>1. (IF m < 10 THEN <<>> ELSE digits[m \div 10]) \in V
    BY <1>1, <1>3, <1>12
  <2>2. PICK x \in V : x = IF m < 10 THEN <<>> ELSE digits[m \div 10]
    BY <2>1
  <2>3. PICK y \in V : y = last(m)
    BY <1>2
  <2>4. x \o y \in V
    BY DEF V
  <2> QED
    BY <1>11, <2>2, <2>3, <2>4
<1>13. 0 \in T
  <2>1. digits[0] \in V
    BY <1>12
  <2> QED
    BY <2>1
<1>14. ASSUME NEW m \in 1..n, m - 1 \in T PROVE m \in T
  <2>1. \A k \in 0..(m - 1) : digits[k] \in V
    BY <1>14
  <2>2. m \in 0..n /\ \A k \in 0..m : k \in 0..(m - 1) \/ k = m
    OBVIOUS
  <2>3. digits[m] \in V
    BY <1>12, <2>1, <2>2
  <2> QED
    BY <2>1, <2>2, <2>3
<1>15. 0..n \subseteq T
  <2> HIDE DEF T
  <2> QED
    BY <1>13, <1>14, BoundedInduction
<1> QED
  BY <1>1, <1>4, <1>15 DEF V

\* A remainder is a natural number.
LEMMA RemainderNat ==
    ASSUME NEW v \in Int, NEW m \in Nat \ {0}
    PROVE  v % m \in Nat
OBVIOUS

\* An integer is a sign and digits.
LEMMA WriteIntegerType ==
    ASSUME NEW v \in Int
    PROVE  WriteInteger(v) \in Seq(0..127)
<1>1. PICK m \in Nat \ {0} : m = 2 ^ IntegerBits
  BY WidthAssumption
<1>2. PICK cast \in Nat : cast = v % m
  BY RemainderNat
<1>3. (0 - cast) % m \in Nat
  BY <1>2, RemainderNat
<1>4. Magnitude(v) \in Nat
  BY <1>1, <1>2, <1>3 DEF Magnitude
<1>5. PICK d \in Seq(48..57) : d = Decimal(Magnitude(v))
  BY <1>4, DecimalType
<1>6. d \in Seq(0..127)
  OBVIOUS
<1>7. <<Minus>> \in Seq(0..127) /\ <<>> \in Seq(0..127)
  BY DEF Minus
<1>8. PICK sign \in Seq(0..127) : sign = IF v < 0 THEN <<Minus>> ELSE <<>>
  BY <1>7
<1> QED
  BY <1>5, <1>6, <1>8 DEF WriteInteger

\* The kinds of the brackets are kinds of their own.
LEMMA KindsDiffer ==
    /\ ObjectStart # ObjectEnd /\ ObjectStart # ArrayStart /\ ObjectStart # ArrayEnd
    /\ ObjectEnd # ArrayStart /\ ObjectEnd # ArrayEnd /\ ArrayStart # ArrayEnd
    /\ \A kind \in {"key", "integer_key", "string", "number", "integer", "true", "false", "null"} :
          /\ kind # ObjectStart /\ kind # ObjectEnd
          /\ kind # ArrayStart /\ kind # ArrayEnd
BY Zenon DEF ObjectStart, ObjectEnd, ArrayStart, ArrayEnd

\* The token of an event is a text in the alphabet.
LEMMA TokenType ==
    ASSUME options \in OptionsType, NEW event, Dumpable(event)
    PROVE  Token(event) \in Seq(Alphabet)
<1>1. \A x : x \in Seq(0..127) => x \in Seq(Alphabet)
  BY DEF Alphabet, Byte
<1>2. CASE event.kind \in {"string", "key"}
  <2>1. Token(event) = WriteString(event.bytes, options.ensure_ascii)
    BY <1>2, KindsDiffer DEF Token
  <2> QED
    BY <1>2, <2>1, WriteStringType DEF Dumpable
<1>3. CASE event.kind = "number"
  BY <1>1, <1>3, KindsDiffer DEF Token, Dumpable
<1>4. CASE event.kind \in {"integer", "integer_key"}
  <2>1. PICK t \in Seq(0..127) : t = WriteInteger(event.value)
    BY <1>4, WriteIntegerType DEF Dumpable
  <2>2. <<34>> \in Seq(0..127)
    OBVIOUS
  <2>3. Token(event) = t \/ Token(event) = <<34>> \o t \o <<34>>
    BY <1>4, <2>1, KindsDiffer DEF Token, Quote
  <2>4. <<34>> \o t \o <<34>> \in Seq(0..127)
    BY <2>2
  <2> QED
    BY <1>1, <2>1, <2>3, <2>4
<1>5. CASE event.kind \in {"true", "false", "null"}
  <2>1. /\ <<116, 114, 117, 101>> \in Seq(0..127)
        /\ <<102, 97, 108, 115, 101>> \in Seq(0..127)
        /\ <<110, 117, 108, 108>> \in Seq(0..127)
    OBVIOUS
  <2>2. WordTrue \in Seq(0..127) /\ WordFalse \in Seq(0..127) /\ WordNull \in Seq(0..127)
    BY <2>1 DEF WordTrue, WordFalse, WordNull
  <2>3. Token(event) \in {WordTrue, WordFalse, WordNull}
    BY <1>5, KindsDiffer DEF Token
  <2> QED
    BY <1>1, <2>2, <2>3
<1>6. CASE event.kind \in Starts \cup Ends
  <2>1. /\ <<LBrace>> \in Seq(0..127) /\ <<RBrace>> \in Seq(0..127)
        /\ <<LBracket>> \in Seq(0..127) /\ <<RBracket>> \in Seq(0..127)
    BY DEF LBrace, RBrace, LBracket, RBracket
  <2>2. Token(event) \in {<<LBrace>>, <<RBrace>>, <<LBracket>>, <<RBracket>>}
    BY <1>6, KindsDiffer DEF Token, Starts, Ends
  <2> QED
    BY <1>1, <2>1, <2>2
<1> QED
  BY <1>2, <1>3, <1>4, <1>5, <1>6 DEF Dumpable, KeyKinds, ScalarKinds

-----------------------------------------------------------------------------
(***************************************************************************)
(* The containers around.                                                  *)
(***************************************************************************)
Container == {"object", "array"}

AroundNext(event, around) ==
    IF event.kind = ObjectStart THEN Append(around, "object")
    ELSE IF event.kind = ArrayStart THEN Append(around, "array")
    ELSE IF event.kind \in Ends THEN Front(around)
    ELSE around

\* What Around computes, event by event.
LEMMA AroundSteps ==
    ASSUME NEW events, Len(events) \in Nat
    PROVE  /\ Around(events)[0] = <<>>
           /\ \A n \in 0..Len(events) : Around(events)[n] \in Seq(Container)
           /\ \A n \in 1..Len(events) :
                 Around(events)[n] = AroundNext(events[n], Around(events)[n - 1])
<1> DEFINE N == Len(events)
           V == Seq(Container)
           Step == [n \in 1..N |-> [w \in V |-> AroundNext(events[n], w)]]
           Computes(f) == f = [n \in 0..N |->
                                  IF n = 0 THEN <<>>
                                  ELSE IF events[n].kind = ObjectStart THEN Append(f[n - 1], "object")
                                  ELSE IF events[n].kind = ArrayStart THEN Append(f[n - 1], "array")
                                  ELSE IF events[n].kind \in Ends THEN Front(f[n - 1])
                                  ELSE f[n - 1]]
           around == CHOOSE f : Computes(f)
<1>1. N \in Nat /\ 0 \in 0..N /\ <<>> \in V
  OBVIOUS
<1>2. ASSUME NEW n \in 1..N, NEW w \in V PROVE AroundNext(events[n], w) \in V
  <2>1. Append(w, "object") \in V /\ Append(w, "array") \in V
    BY DEF Container
  <2>2. Front(w) \in V
    <3>1. \A k \in 1..(Len(w) - 1) : w[k] \in Container
      OBVIOUS
    <3> QED
      BY <3>1 DEF Front
  <2> HIDE DEF V
  <2> QED
    BY <2>1, <2>2 DEF AroundNext
<1>3. Around(events) = around
  BY DEF Around
<1> HIDE DEF N, V
<1>4. Step \in [1..N -> [V -> V]]
  BY <1>2
<1>5. PICK h \in [0..N -> V] : Iterates(h, <<>>, Step, N)
  <2> HIDE DEF Step
  <2> QED
    BY <1>1, <1>4, Recursion
<1>6. h[0] = <<>> /\ \A n \in 1..N : h[n] = AroundNext(events[n], h[n - 1])
  <2>1. \A n \in 1..N : n - 1 \in 0..N
    BY <1>1
  <2> QED
    BY <1>5, <2>1 DEF Iterates
<1>7. Computes(h)
  <2>1. h = [n \in 0..N |-> IF n = 0 THEN <<>> ELSE AroundNext(events[n], h[n - 1])]
    <3>1. \A n \in 0..N : n # 0 => n \in 1..N
      BY <1>1
    <3> QED
      BY <1>5, <1>6, <3>1
  <2> QED
    BY <2>1 DEF AroundNext
<1>8. Computes(around)
  BY <1>7
<1>9. around[0] = <<>> /\ \A n \in 1..N : around[n] = AroundNext(events[n], around[n - 1])
  <2> HIDE DEF around
  <2>1. around = [n \in 0..N |-> IF n = 0 THEN <<>> ELSE AroundNext(events[n], around[n - 1])]
    BY <1>8 DEF AroundNext
  <2>2. \A n \in 1..N : n \in 0..N /\ n # 0
    BY <1>1
  <2> QED
    BY <1>1, <2>1, <2>2
<1> DEFINE T == {n \in 0..N : around[n] \in V}
<1> HIDE DEF around
<1>10. 0 \in T
  BY <1>1, <1>9
<1>11. ASSUME NEW n \in 1..N, n - 1 \in T PROVE n \in T
  BY <1>2, <1>9, <1>11
<1>12. 0..N \subseteq T
  <2> HIDE DEF T
  <2> QED
    BY <1>1, <1>10, <1>11, BoundedInduction
<1> QED
  BY <1>3, <1>9, <1>12 DEF N, V

-----------------------------------------------------------------------------
(***************************************************************************)
(* Types.                                                                  *)
(***************************************************************************)
MembersOf(S) == Seq([token : Seq(S), value : Seq(S)])

FramesOf(S) ==
    [kind : Container, first : BOOLEAN, members : MembersOf(S), outer : Seq(S)]

\* The types of the state: all texts are in the alphabet.
EncoderTypeOK ==
    /\ Traversal(doc) /\ doc # <<>>
    /\ options \in OptionsType
    /\ i \in 0..Len(doc)
    /\ stack \in Seq(FramesOf(Alphabet))
    /\ out \in Seq(Alphabet)

\* The stack is the containers around what comes next.
Nested ==
    /\ Len(stack) = Len(Around(doc)[i])
    /\ \A j \in 1..Len(stack) : stack[j].kind = Around(doc)[i][j]

\* The white space of the layout is in the alphabet.
LEMMA SpaceType ==
    ASSUME options \in OptionsType, NEW depth \in Nat
    PROVE  NewlineIfPretty(depth) \in Seq(Alphabet) /\ ItemSeparator(depth) \in Seq(Alphabet)
<1>1. \A x : x \in Seq(0..127) => x \in Seq(Alphabet)
  BY DEF Alphabet, Byte
<1>2. Pretty => Newline(depth) \in Seq(0..127)
  <2>1. ASSUME Pretty PROVE Newline(depth) \in Seq(0..127)
    <3>1. PICK n \in Nat : n = options.indent
      BY <2>1 DEF Pretty, OptionsType
    <3>2. PICK m \in Nat : m = n * depth
      OBVIOUS
    <3>3. [k \in 1..m |-> 32] \in Seq(0..127) /\ <<10>> \in Seq(0..127)
      OBVIOUS
    <3>4. Newline(depth) = <<10>> \o [k \in 1..m |-> 32]
      BY <3>1, <3>2 DEF Newline, LF
    <3> QED
      BY <3>3, <3>4
  <2> QED
    BY <2>1
<1>3. <<Comma>> \in Seq(0..127) /\ <<32>> \in Seq(0..127) /\ <<>> \in Seq(0..127)
  BY DEF Comma
<1>4. NewlineIfPretty(depth) \in Seq(0..127)
  BY <1>2, <1>3 DEF NewlineIfPretty
<1>5. PICK x \in Seq(0..127) : x = IF Pretty THEN Newline(depth) ELSE <<32>>
  BY <1>2, <1>3
<1>6. ItemSeparator(depth) \in Seq(0..127)
  BY <1>3, <1>5 DEF ItemSeparator
<1> QED
  BY <1>1, <1>4, <1>6

\* What stands where in a state.
Keyed == i > 0 /\ doc[i].kind \in KeyKinds

\* The next event is one that may stand here.
LEMMA NextEvent ==
    ASSUME EncoderTypeOK, Nested, i < Len(doc)
    PROVE  /\ i + 1 \in 1..Len(doc)
           /\ Dumpable(doc[i + 1])
           /\ Around(doc)[i + 1] = AroundNext(doc[i + 1], Around(doc)[i])
           /\ Around(doc)[i] \in Seq(Container)
           /\ i > 0 => stack # <<>>
           /\ doc[i + 1].kind = ArrayEnd => Inside("array")
           /\ doc[i + 1].kind \in KeyKinds \cup {ObjectEnd} => Inside("object") /\ ~Keyed
           /\ doc[i + 1].kind \in ScalarKinds \cup Starts => (Inside("object") <=> Keyed)
<1>1. /\ i \in Nat /\ i + 1 \in 1..Len(doc) /\ (i + 1) - 1 = i /\ i \in 0..Len(doc)
      /\ Len(doc) \in Nat /\ stack \in Seq(FramesOf(Alphabet))
  BY DEF EncoderTypeOK, Traversal
<1>2. Dumpable(doc[i + 1]) /\ MayStand(doc, i, doc[i + 1].kind)
  BY <1>1 DEF EncoderTypeOK, Traversal
<1>3. /\ Around(doc)[i + 1] = AroundNext(doc[i + 1], Around(doc)[i])
      /\ Around(doc)[i] \in Seq(Container)
  BY <1>1, AroundSteps
<1> DEFINE w == Around(doc)[i]
           Is(type) == w # <<>> /\ Last(w) = type
<1>4. ASSUME NEW type PROVE Is(type) <=> Inside(type)
  <2>1. Len(stack) \in Nat /\ Len(w) = Len(stack)
    BY <1>1 DEF Nested
  <2>2. w # <<>> <=> stack # <<>>
    BY <1>1, <1>3, <2>1
  <2>3. stack # <<>> => Last(w) = Last(stack).kind
    <3>1. stack # <<>> => Len(stack) \in 1..Len(stack)
      BY <1>1, <2>1
    <3> QED
      BY <2>1, <3>1 DEF Last, Nested
  <2> QED
    BY <2>2, <2>3 DEF Inside
<1>5. w # <<>> => stack # <<>>
  BY <1>1, <1>3 DEF Nested
<1>6. /\ i > 0 => w # <<>>
      /\ doc[i + 1].kind = ArrayEnd => Is("array")
      /\ doc[i + 1].kind \in KeyKinds \cup {ObjectEnd} => Is("object") /\ ~Keyed
      /\ doc[i + 1].kind \in ScalarKinds \cup Starts => (Is("object") <=> Keyed)
  BY <1>2 DEF MayStand, Keyed
<1> HIDE DEF w, Is
<1> QED
  BY <1>1, <1>2, <1>3, <1>4, <1>5, <1>6

\* A container that is begun is not ended with the document.
LEMMA MoreEvents ==
    ASSUME EncoderTypeOK, Nested, i < Len(doc), doc[i + 1].kind \in Starts
    PROVE  i + 1 < Len(doc)
<1>1. /\ i + 1 \in 1..Len(doc) /\ Around(doc)[i] \in Seq(Container)
      /\ Around(doc)[i + 1] = AroundNext(doc[i + 1], Around(doc)[i])
  BY NextEvent
<1>2. Around(doc)[i + 1] # <<>>
  <2>1. PICK w \in Seq(Container) : w = Around(doc)[i]
    BY <1>1
  <2>2. Append(w, "object") # <<>> /\ Append(w, "array") # <<>>
    <3>1. ASSUME NEW e \in Container PROVE Append(w, e) # <<>>
      OBVIOUS
    <3> QED
      BY <3>1 DEF Container
  <2> QED
    BY <1>1, <2>1, <2>2 DEF AroundNext, Starts
<1>3. Around(doc)[Len(doc)] = <<>>
  BY Zenon DEF EncoderTypeOK, Traversal
<1>4. Len(doc) \in Nat
  <2>1. PICK T : doc \in Seq(T)
    BY Zenon DEF EncoderTypeOK, Traversal
  <2> QED
    BY <2>1
<1>5. i + 1 # Len(doc)
  BY <1>2, <1>3
<1> QED
  BY <1>1, <1>4, <1>5

\* The last member takes its value.
LEMMA LastMember ==
    ASSUME NEW S, NEW m \in MembersOf(S), NEW text \in Seq(S)
    PROVE  LET n == [m EXCEPT ![Len(m)].value = text]
           IN  /\ n \in MembersOf(S) /\ Len(n) = Len(m)
               /\ \A k \in 1..Len(m) : n[k] = IF k = Len(m) THEN [m[k] EXCEPT !.value = text]
                                                        ELSE m[k]
<1> DEFINE n == [m EXCEPT ![Len(m)].value = text]
           R == [token : Seq(S), value : Seq(S)]
<1>1. m \in Seq(R)
  BY DEF MembersOf
<1>2. CASE Len(m) = 0
  <2>1. m = <<>>
    BY <1>1, <1>2
  <2>2. n = m
    BY <2>1
  <2>3. \A k \in 1..Len(m) : FALSE
    BY <1>2
  <2> HIDE DEF n
  <2> QED
    BY <2>2, <2>3 DEF n
<1>3. CASE Len(m) # 0
  <2>1. Len(m) \in 1..Len(m)
    BY <1>1, <1>3
  <2>2. m[Len(m)] \in R
    <3> HIDE DEF R
    <3> QED
      BY <1>1, <2>1
  <2> DEFINE e == [m[Len(m)] EXCEPT !.value = text]
  <2>3. e \in R
    BY <2>2
  <2>4. n = [m EXCEPT ![Len(m)] = e]
    OBVIOUS
  <2> HIDE DEF e, n, R
  <2>5. n \in Seq(R) /\ Len(n) = Len(m)
        /\ \A k \in 1..Len(m) : n[k] = IF k = Len(m) THEN e ELSE m[k]
    BY <1>1, <2>1, <2>3, <2>4, ExceptSeq
  <2>6. \A k \in 1..Len(m) : n[k] = IF k = Len(m) THEN [m[k] EXCEPT !.value = text] ELSE m[k]
    BY <2>5 DEF e
  <2>7. n \in MembersOf(S)
    BY <2>5 DEF MembersOf, R
  <2> QED
    BY <2>5, <2>6, <2>7 DEF n
<1> QED
  BY <1>2, <1>3

Valued(members, text) == [members EXCEPT ![Len(members)].value = text]

\* A value is written into the last member of the innermost frame, or to the text.
LEMMA WrittenFacts ==
    ASSUME NEW S, NEW frames \in Seq(FramesOf(S)), NEW text \in Seq(S), Written(frames, text)
    PROVE  /\ stack' \in Seq(FramesOf(S)) /\ out' \in Seq(S)
           /\ Len(stack') = Len(frames)
           /\ \A j \in 1..Len(frames) : /\ stack'[j].kind = frames[j].kind
                                        /\ stack'[j].first = frames[j].first
                                        /\ stack'[j].outer = frames[j].outer
                                        /\ j < Len(frames) => stack'[j] = frames[j]
           /\ IF frames # <<>> /\ Last(frames).kind = "object"
              THEN /\ out' = <<>>
                   /\ stack'[Len(frames)].members = Valued(frames[Len(frames)].members, text)
              ELSE stack' = frames /\ out' = text
<1>1. CASE ~(frames # <<>> /\ Last(frames).kind = "object")
  BY <1>1 DEF Written
<1>2. CASE frames # <<>> /\ Last(frames).kind = "object"
  <2>1. PICK d \in Nat : d = Len(frames) /\ d \in 1..Len(frames)
    BY <1>2
  <2>2. frames[d] \in FramesOf(S)
    BY <2>1
  <2> DEFINE m == frames[d].members
             n == [m EXCEPT ![Len(m)].value = text]
             f == [frames[d] EXCEPT !.members = n]
  <2>3. m \in MembersOf(S)
    BY <2>2 DEF FramesOf
  <2>4. n \in MembersOf(S)
    <3> HIDE DEF m
    <3> QED
      BY <2>3, LastMember
  <2>5. stack' = [frames EXCEPT ![d] = f] /\ out' = <<>>
    <3>1. stack' = [frames EXCEPT ![d].members = n]
      BY <1>2, <2>1 DEF Written
    <3>2. [frames EXCEPT ![d].members = n] = [frames EXCEPT ![d] = f]
      <4> HIDE DEF n
      <4> QED
        OBVIOUS
    <3> QED
      BY <1>2, <3>1, <3>2 DEF Written
  <2> HIDE DEF m, n
  <2>6. /\ f \in FramesOf(S) /\ f.members = n /\ f.kind = frames[d].kind
        /\ f.first = frames[d].first /\ f.outer = frames[d].outer
    BY <2>2, <2>4 DEF FramesOf
  <2> HIDE DEF f
  <2>7. /\ stack' \in Seq(FramesOf(S)) /\ Len(stack') = Len(frames)
        /\ \A j \in 1..Len(frames) : stack'[j] = IF j = d THEN f ELSE frames[j]
    BY <2>1, <2>5, <2>6, ExceptSeq
  <2>8. out' \in Seq(S)
    BY <2>5
  <2>9. stack'[d].members = Valued(frames[d].members, text)
    BY <2>1, <2>6, <2>7, Zenon DEF m, n, Valued
  <2> QED
    BY <1>2, <2>1, <2>5, <2>6, <2>7, <2>8, <2>9
<1> QED
  BY <1>1, <1>2

\* It keeps the types and the containers.
LEMMA WrittenTypes ==
    ASSUME NEW S, NEW frames \in Seq(FramesOf(S)), NEW text \in Seq(S), Written(frames, text)
    PROVE  /\ stack' \in Seq(FramesOf(S)) /\ out' \in Seq(S)
           /\ Len(stack') = Len(frames)
           /\ \A j \in 1..Len(frames) : stack'[j].kind = frames[j].kind
BY WrittenFacts

\* The loop over elements marks the array around.
LEMMA BegunFacts ==
    ASSUME NEW S, stack \in Seq(FramesOf(S))
    PROVE  /\ Begun \in Seq(FramesOf(S)) /\ Len(Begun) = Len(stack)
           /\ \A j \in 1..Len(stack) : /\ Begun[j].kind = stack[j].kind
                                       /\ Begun[j].members = stack[j].members
                                       /\ Begun[j].outer = stack[j].outer
                                       /\ j < Len(stack) => Begun[j] = stack[j]
           /\ Inside("array") => ~Begun[Len(stack)].first
           /\ ~Inside("array") => Begun = stack
           /\ Begun # <<>> <=> stack # <<>>
           /\ Begun # <<>> => Last(Begun).kind = Last(stack).kind
<1>1. CASE ~Inside("array")
  BY <1>1 DEF Begun
<1>2. CASE Inside("array")
  <2>1. PICK d \in Nat : d = Len(stack) /\ d \in 1..Len(stack)
    BY <1>2 DEF Inside
  <2>2. stack[d] \in FramesOf(S)
    BY <2>1
  <2> DEFINE f == [stack[d] EXCEPT !.first = FALSE]
  <2>3. Begun = [stack EXCEPT ![d] = f]
    BY <1>2, <2>1 DEF Begun
  <2>4. /\ f \in FramesOf(S) /\ f.members = stack[d].members /\ f.kind = stack[d].kind
        /\ f.first = FALSE /\ f.outer = stack[d].outer
    BY <2>2 DEF FramesOf
  <2> HIDE DEF f
  <2>5. /\ Begun \in Seq(FramesOf(S)) /\ Len(Begun) = Len(stack)
        /\ \A j \in 1..Len(stack) : Begun[j] = IF j = d THEN f ELSE stack[j]
    BY <2>1, <2>3, <2>4, ExceptSeq
  <2>6. Begun # <<>> /\ stack # <<>> /\ Last(Begun) = Begun[d] /\ Last(stack) = stack[d]
    BY <2>1, <2>5 DEF Last
  <2> QED
    BY <1>2, <2>1, <2>4, <2>5, <2>6
<1> QED
  BY <1>1, <1>2

\* The frames around the innermost.
LEMMA OutsideFacts ==
    ASSUME NEW S, stack \in Seq(FramesOf(S)), stack # <<>>
    PROVE  /\ Outside \in Seq(FramesOf(S)) /\ Len(Outside) = Len(stack) - 1
           /\ \A j \in 1..(Len(stack) - 1) : Outside[j] = stack[j]
           /\ Len(stack) - 1 \in Nat /\ Len(stack) \in 1..Len(stack)
           /\ Last(stack) = stack[Len(stack)] /\ stack[Len(stack)] \in FramesOf(S)
<1>1. Len(stack) - 1 \in Nat /\ Len(stack) \in 1..Len(stack)
  OBVIOUS
<1>2. PICK d \in Nat : d = Len(stack) - 1
  BY <1>1
<1>3. \A j \in 1..d : stack[j] \in FramesOf(S)
  BY <1>2
<1>4. Outside = SubSeq(stack, 1, d)
  BY <1>2 DEF Outside
<1>5. 1 \in Int /\ d \in Int
  OBVIOUS
<1>6. /\ SubSeq(stack, 1, d) \in Seq(FramesOf(S)) /\ Len(SubSeq(stack, 1, d)) = d
      /\ \A j \in 1..d : SubSeq(stack, 1, d)[j] = stack[j]
  BY <1>2, <1>3
<1> QED
  BY <1>1, <1>2, <1>4, <1>6 DEF Last

-----------------------------------------------------------------------------
(***************************************************************************)
(* Objects.                                                                *)
(***************************************************************************)
MemberText(members, k, depth) ==
    (IF k = 1 THEN <<>> ELSE ItemSeparator(depth))
      \o members[k].token \o <<Colon, 32>> \o members[k].value

\* The members of an object with what separates them.
Joined(members, depth) == FlattenSeq([k \in 1..Len(members) |-> MemberText(members, k, depth)])

\* write_object_shell around the members.
LEMMA ObjectTextForm ==
    ASSUME NEW members, NEW depth
    PROVE  ObjectText(members, depth) =
               IF members = <<>> THEN <<LBrace, RBrace>>
               ELSE <<LBrace>> \o NewlineIfPretty(depth + 1) \o Joined(members, depth + 1)
                      \o NewlineIfPretty(depth) \o <<RBrace>>
BY DEF ObjectText, Joined, MemberText

\* The text of a member.
LEMMA MemberTextType ==
    ASSUME options \in OptionsType, NEW members \in MembersOf(Alphabet), NEW depth \in Nat,
           NEW k \in 1..Len(members)
    PROVE  MemberText(members, k, depth) \in Seq(Alphabet)
<1>1. PICK A : A = Alphabet
  OBVIOUS
<1> DEFINE R == [token : Seq(A), value : Seq(A)]
<1>2. members[k] \in R
  <2>1. members \in Seq(R)
    BY <1>1 DEF MembersOf
  <2> HIDE DEF R
  <2> QED
    BY <2>1
<1>3. PICK t \in Seq(A), v \in Seq(A) : t = members[k].token /\ v = members[k].value
  BY <1>2
<1>4. PICK x \in Seq(A) : x = IF k = 1 THEN <<>> ELSE ItemSeparator(depth)
  <2>1. ItemSeparator(depth) \in Seq(A) /\ <<>> \in Seq(A)
    BY <1>1, SpaceType
  <2> QED
    BY <2>1
<1>5. PICK y \in Seq(A) : y = <<Colon, 32>>
  <2>1. 58 \in A /\ 32 \in A
    BY <1>1 DEF Alphabet, Byte
  <2>2. <<58, 32>> \in Seq(A)
    BY <2>1
  <2> QED
    BY <2>2 DEF Colon
<1>6. MemberText(members, k, depth) = x \o t \o y \o v
  BY <1>3, <1>4, <1>5 DEF MemberText
<1>7. x \o t \o y \o v \in Seq(A)
  OBVIOUS
<1> QED
  BY <1>1, <1>6, <1>7

\* The text of all members.
LEMMA JoinedType ==
    ASSUME options \in OptionsType, NEW members \in MembersOf(Alphabet), NEW depth \in Nat
    PROVE  /\ [k \in 1..Len(members) |-> MemberText(members, k, depth)] \in Seq(Seq(Alphabet))
           /\ Joined(members, depth) \in Seq(Alphabet)
<1>1. PICK A : A = Alphabet
  OBVIOUS
<1> DEFINE q == [k \in 1..Len(members) |-> MemberText(members, k, depth)]
<1>2. Len(members) \in Nat
  BY DEF MembersOf
<1>3. \A k \in 1..Len(members) : MemberText(members, k, depth) \in Seq(A)
  BY <1>1, MemberTextType
<1>4. q \in Seq(Seq(A))
  BY <1>2, <1>3
<1> HIDE DEF q
<1>5. FlattenSeq(q) \in Seq(A)
  BY <1>4, FlattenType
<1> QED
  BY <1>1, <1>4, <1>5 DEF q, Joined

\* The text of an object.
LEMMA ObjectTextType ==
    ASSUME options \in OptionsType, NEW members \in MembersOf(Alphabet), NEW depth \in Nat
    PROVE  ObjectText(members, depth) \in Seq(Alphabet)
<1>1. PICK A : A = Alphabet
  OBVIOUS
<1>2. <<LBrace>> \in Seq(A) /\ <<RBrace>> \in Seq(A) /\ <<LBrace, RBrace>> \in Seq(A)
  <2>1. 123 \in A /\ 125 \in A
    BY <1>1 DEF Alphabet, Byte
  <2> QED
    BY <2>1 DEF LBrace, RBrace
<1>3. depth + 1 \in Nat
  OBVIOUS
<1>4. PICK a \in Seq(A), b \in Seq(A), c \in Seq(A) :
         a = NewlineIfPretty(depth + 1) /\ b = Joined(members, depth + 1)
         /\ c = NewlineIfPretty(depth)
  BY <1>1, <1>3, SpaceType, JoinedType
<1>5. <<LBrace>> \o a \o b \o c \o <<RBrace>> \in Seq(A)
  BY <1>2
<1> QED
  BY <1>1, <1>2, <1>4, <1>5, ObjectTextForm

\* Sorting keeps the members.
LEMMA WriteOrdersType ==
    ASSUME NEW S, NEW members \in MembersOf(S), NEW m \in WriteOrders(members)
    PROVE  m \in MembersOf(S)
<1>1. CASE m = members
  BY <1>1
<1>2. CASE m # members
  <2>1. PICK f \in Shuffles(Len(members)) : m = [k \in 1..Len(members) |-> members[f[k]]]
    BY <1>2 DEF WriteOrders
  <2> DEFINE R == [token : Seq(S), value : Seq(S)]
  <2>2. members \in Seq(R) /\ Len(members) \in Nat
    BY DEF MembersOf
  <2> HIDE DEF R
  <2>3. \A k \in 1..Len(members) : f[k] \in 1..Len(members)
    BY DEF Shuffles
  <2>4. \A k \in 1..Len(members) : members[f[k]] \in R
    BY <2>2, <2>3
  <2>5. [k \in 1..Len(members) |-> members[f[k]]] \in Seq(R)
    BY <2>2, <2>4
  <2> QED
    BY <2>1, <2>5 DEF MembersOf, R
<1> QED
  BY <1>1, <1>2

-----------------------------------------------------------------------------
(***************************************************************************)
(* Every action keeps the types, and the stack the containers around.      *)
(***************************************************************************)
\* The types after a step.
LEMMA TypeAfter ==
    ASSUME EncoderTypeOK, UNCHANGED <<doc, options>>, i' \in 0..Len(doc),
           stack' \in Seq(FramesOf(Alphabet)), out' \in Seq(Alphabet)
    PROVE  EncoderTypeOK'
<1>1. Alphabet' = Alphabet
  BY DEF Alphabet
<1> QED
  BY <1>1 DEF EncoderTypeOK

\* What comes before an element is in the alphabet.
LEMMA BeforeType ==
    ASSUME EncoderTypeOK
    PROVE  Before \in Seq(Alphabet) /\ Len(stack) \in Nat
<1>1. Len(stack) \in Nat /\ options \in OptionsType
  BY DEF EncoderTypeOK
<1> QED
  BY <1>1, SpaceType DEF Before

\* A value is written, and what comes next has the same containers around.
LEMMA ValueWritten ==
    ASSUME EncoderTypeOK, Nested, UNCHANGED <<doc, options>>, NEW text \in Seq(Alphabet),
           Written(Begun, text), i' \in 0..Len(doc), Around(doc)[i'] = Around(doc)[i]
    PROVE  EncoderTypeOK' /\ Nested'
<1>1. PICK A : A = Alphabet
  OBVIOUS
<1>2. stack \in Seq(FramesOf(A)) /\ text \in Seq(A)
  BY <1>1 DEF EncoderTypeOK
<1>3. /\ Begun \in Seq(FramesOf(A)) /\ Len(Begun) = Len(stack)
      /\ \A j \in 1..Len(stack) : Begun[j].kind = stack[j].kind
  BY <1>2, BegunFacts
<1>4. /\ stack' \in Seq(FramesOf(A)) /\ out' \in Seq(A) /\ Len(stack') = Len(Begun)
      /\ \A j \in 1..Len(Begun) : stack'[j].kind = Begun[j].kind
  BY <1>2, <1>3, WrittenFacts
<1>5. EncoderTypeOK'
  BY <1>1, <1>4, TypeAfter
<1>6. Nested'
  BY <1>3, <1>4 DEF Nested
<1> QED
  BY <1>5, <1>6

\* A container is written, and what comes next is outside.
LEMMA ContainerWritten ==
    ASSUME EncoderTypeOK, Nested, UNCHANGED <<doc, options>>, NEW text \in Seq(Alphabet),
           Written(Outside, text), i < Len(doc), i' = i + 1, stack # <<>>,
           doc[i + 1].kind \in Ends
    PROVE  EncoderTypeOK' /\ Nested'
<1>1. PICK A : A = Alphabet
  OBVIOUS
<1>2. stack \in Seq(FramesOf(A)) /\ text \in Seq(A)
  BY <1>1 DEF EncoderTypeOK
<1>3. PICK d \in Nat :
         /\ d = Len(stack) - 1 /\ Len(stack) = d + 1
         /\ Outside \in Seq(FramesOf(A)) /\ Len(Outside) = d
         /\ \A j \in 1..d : Outside[j] = stack[j]
  BY <1>2, OutsideFacts
<1>4. /\ stack' \in Seq(FramesOf(A)) /\ out' \in Seq(A) /\ Len(stack') = d
      /\ \A j \in 1..d : stack'[j].kind = stack[j].kind
  <2>1. /\ stack' \in Seq(FramesOf(A)) /\ out' \in Seq(A) /\ Len(stack') = Len(Outside)
        /\ \A j \in 1..Len(Outside) : stack'[j].kind = Outside[j].kind
    <3>1. PICK frames \in Seq(FramesOf(A)) : frames = Outside
      BY <1>3
    <3>2. Written(frames, text)
      BY <3>1
    <3>3. /\ stack' \in Seq(FramesOf(A)) /\ out' \in Seq(A) /\ Len(stack') = Len(frames)
          /\ \A j \in 1..Len(frames) : stack'[j].kind = frames[j].kind
      BY <1>2, <3>2, WrittenTypes
    <3> QED
      BY <3>1, <3>3
  <2> QED
    BY <1>3, <2>1
<1>5. /\ i + 1 \in 1..Len(doc) /\ i + 1 \in 0..Len(doc)
      /\ Around(doc)[i + 1] = AroundNext(doc[i + 1], Around(doc)[i])
      /\ Around(doc)[i] \in Seq(Container)
  BY NextEvent
<1>6. EncoderTypeOK'
  BY <1>1, <1>4, <1>5, TypeAfter
<1>7. PICK w \in Seq(Container) : w = Around(doc)[i] /\ Len(w) = d + 1
  BY <1>3, <1>5 DEF Nested
<1>8. Around(doc)[i + 1] = SubSeq(w, 1, Len(w) - 1)
  BY <1>5, <1>7, KindsDiffer DEF AroundNext, Ends, Front
<1>9. Len(SubSeq(w, 1, d)) = d /\ \A j \in 1..d : SubSeq(w, 1, d)[j] = w[j]
  BY <1>7
<1>10. Len(w) - 1 = d
  BY <1>7
<1>11. \A j \in 1..d : j \in 1..Len(stack) /\ stack[j].kind = w[j]
  BY <1>3, <1>7 DEF Nested
<1>12. Nested'
  BY <1>4, <1>8, <1>9, <1>10, <1>11 DEF Nested
<1> QED
  BY <1>6, <1>12

\* What is dumped is well formed, and nothing is written yet.
LEMMA EncoderStarts ==
    ASSUME Init
    PROVE  EncoderTypeOK /\ Nested
<1>1. PICK call \in Calls : doc = call[1] /\ options = call[2]
  BY DEF Init
<1>2. Traversal(doc) /\ doc # <<>> /\ options \in OptionsType
  BY <1>1, CallsAssumption, Zenon DEF OptionsType
<1>3. i = 0 /\ stack = <<>> /\ out = <<>>
  BY DEF Init
<1>4. Len(doc) \in Nat
  BY <1>2 DEF Traversal
<1>5. EncoderTypeOK
  BY <1>2, <1>3, <1>4 DEF EncoderTypeOK
<1>6. Around(doc)[0] = <<>>
  BY <1>4, AroundSteps
<1>7. Nested
  BY <1>3, <1>6 DEF Nested
<1> QED
  BY <1>5, <1>7

\* A scalar.
LEMMA ScalarKeeps ==
    ASSUME EncoderTypeOK, Nested, Scalar
    PROVE  EncoderTypeOK' /\ Nested'
<1>1. i < Len(doc) /\ doc[i + 1].kind \in ScalarKinds /\ i' = i + 1 /\ UNCHANGED <<doc, options>>
  BY DEF Scalar, Due
<1>2. Dumpable(doc[i + 1]) /\ i + 1 \in 1..Len(doc)
      /\ Around(doc)[i + 1] = AroundNext(doc[i + 1], Around(doc)[i])
  BY <1>1, NextEvent
<1>3. Around(doc)[i'] = Around(doc)[i]
  BY <1>1, <1>2, KindsDiffer DEF AroundNext, ScalarKinds, Ends
<1>4. PICK A : A = Alphabet
  OBVIOUS
<1>5. PICK a \in Seq(A), b \in Seq(A), t \in Seq(A) :
         a = out /\ b = Before /\ t = Token(doc[i + 1])
  BY <1>2, <1>4, BeforeType, TokenType DEF EncoderTypeOK
<1>6. PICK text \in Seq(A) : text = a \o b \o t
  <2>1. a \o b \o t \in Seq(A)
    OBVIOUS
  <2> QED
    BY <2>1
<1>7. Written(Begun, text) /\ text \in Seq(Alphabet)
  BY <1>4, <1>5, <1>6 DEF Scalar
<1>8. i' \in 0..Len(doc)
  BY <1>1, <1>2
<1> QED
  BY <1>1, <1>3, <1>7, <1>8, ValueWritten

\* An array that has no elements.
LEMMA EmptyArrayKeeps ==
    ASSUME EncoderTypeOK, Nested, EmptyArray
    PROVE  EncoderTypeOK' /\ Nested'
<1>1. /\ i < Len(doc) /\ doc[i + 1].kind = ArrayStart /\ i' = i + 2 /\ UNCHANGED <<doc, options>>
      /\ doc[i + 2].kind = ArrayEnd
  BY DEF EmptyArray, Due
<1>2. /\ i + 1 \in 1..Len(doc) /\ Around(doc)[i] \in Seq(Container)
      /\ Around(doc)[i + 1] = AroundNext(doc[i + 1], Around(doc)[i])
  BY <1>1, NextEvent
<1>3. i + 2 \in 1..Len(doc) /\ (i + 2) - 1 = i + 1 /\ i + 2 \in 0..Len(doc)
  <2>1. doc[i + 1].kind \in Starts
    BY <1>1 DEF Starts
  <2>2. i + 1 < Len(doc) /\ Len(doc) \in Nat /\ i \in Nat
    <3>1. PICK T : doc \in Seq(T)
      BY Zenon DEF EncoderTypeOK, Traversal
    <3>2. Len(doc) \in Nat
      BY <3>1
    <3> QED
      BY <1>1, <2>1, <3>2, MoreEvents DEF EncoderTypeOK
  <2> QED
    BY <2>2
<1>4. Around(doc)[i + 2] = AroundNext(doc[i + 2], Around(doc)[i + 1])
  <2>1. Len(doc) \in Nat
    <3>1. PICK T : doc \in Seq(T)
      BY Zenon DEF EncoderTypeOK, Traversal
    <3> QED
      BY <3>1
  <2>2. PICK n \in 1..Len(doc) : n = i + 2 /\ n - 1 = i + 1
    BY <1>3
  <2>3. Around(doc)[n] = AroundNext(doc[n], Around(doc)[n - 1])
    BY <2>1, AroundSteps
  <2> QED
    BY <2>2, <2>3
<1>5. PICK w \in Seq(Container) : w = Around(doc)[i]
  BY <1>2
<1>6. Around(doc)[i + 1] = Append(w, "array")
  BY <1>1, <1>2, <1>5, KindsDiffer DEF AroundNext
<1>7. Around(doc)[i + 2] = Front(Append(w, "array"))
  BY <1>1, <1>4, <1>6, KindsDiffer DEF AroundNext, Ends
<1>8. Front(Append(w, "array")) = w
  BY DEF Front
<1>9. PICK A : A = Alphabet
  OBVIOUS
<1>10. PICK a \in Seq(A), b \in Seq(A) : a = out /\ b = Before
  BY <1>9, BeforeType DEF EncoderTypeOK
<1>11. PICK t \in Seq(A) : t = <<LBracket, RBracket>>
  <2>1. 91 \in A /\ 93 \in A
    BY <1>9 DEF Alphabet, Byte
  <2>2. <<91, 93>> \in Seq(A)
    BY <2>1
  <2> QED
    BY <2>2 DEF LBracket, RBracket
<1>12. PICK text \in Seq(A) : text = a \o b \o t
  <2>1. a \o b \o t \in Seq(A)
    OBVIOUS
  <2> QED
    BY <2>1
<1>13. Written(Begun, text) /\ text \in Seq(Alphabet)
  BY <1>9, <1>10, <1>11, <1>12 DEF EmptyArray
<1> QED
  BY <1>1, <1>3, <1>5, <1>7, <1>8, <1>13, ValueWritten

\* The stack when a container begins.
LEMMA ContainerBegun ==
    ASSUME EncoderTypeOK, Nested, UNCHANGED <<doc, options>>, i < Len(doc), i' = i + 1,
           NEW kind \in Container, NEW outer \in Seq(Alphabet),
           stack' = Append(Begun, Frame(kind, outer)), out' \in Seq(Alphabet),
           doc[i + 1].kind = IF kind = "object" THEN ObjectStart ELSE ArrayStart
    PROVE  EncoderTypeOK' /\ Nested'
<1>1. PICK A : A = Alphabet
  OBVIOUS
<1>2. stack \in Seq(FramesOf(A)) /\ outer \in Seq(A)
  BY <1>1 DEF EncoderTypeOK
<1>3. PICK frames \in Seq(FramesOf(A)) :
         /\ frames = Begun /\ Len(frames) = Len(stack)
         /\ \A j \in 1..Len(stack) : frames[j].kind = stack[j].kind
  BY <1>2, BegunFacts
<1>4. PICK frame \in FramesOf(A) : frame = Frame(kind, outer) /\ frame.kind = kind
  <2>1. PICK M : M = MembersOf(A)
    OBVIOUS
  <2>2. <<>> \in M
    BY <2>1 DEF MembersOf
  <2>3. Frame(kind, outer) \in [kind : Container, first : BOOLEAN, members : M, outer : Seq(A)]
    BY <1>2, <2>2 DEF Frame
  <2>4. Frame(kind, outer).kind = kind
    BY DEF Frame
  <2> QED
    BY <2>1, <2>3, <2>4 DEF FramesOf
<1> HIDE DEF Frame
<1>5. PICK d \in Nat : d = Len(stack) /\ d = Len(frames)
  BY <1>3
<1>6. /\ stack' \in Seq(FramesOf(A)) /\ Len(stack') = d + 1
      /\ \A j \in 1..d : stack'[j] = frames[j]
      /\ stack'[d + 1] = frame
  BY <1>3, <1>4, <1>5
<1>7. /\ i + 1 \in 0..Len(doc) /\ Around(doc)[i] \in Seq(Container)
      /\ Around(doc)[i + 1] = AroundNext(doc[i + 1], Around(doc)[i])
  BY NextEvent
<1>8. EncoderTypeOK'
  BY <1>1, <1>6, <1>7, TypeAfter
<1>9. PICK w \in Seq(Container) : w = Around(doc)[i] /\ Len(w) = d
  BY <1>5, <1>7 DEF Nested
<1>10. Around(doc)[i + 1] = Append(w, kind)
  BY <1>7, <1>9, KindsDiffer DEF AroundNext, Container
<1>11. /\ Len(Append(w, kind)) = d + 1 /\ Append(w, kind)[d + 1] = kind
       /\ \A j \in 1..d : Append(w, kind)[j] = w[j]
  BY <1>9
<1>12. \A j \in 1..d : w[j] = frames[j].kind
  BY <1>3, <1>5, <1>9 DEF Nested
<1>13. \A j \in 1..(d + 1) : j \in 1..d \/ j = d + 1
  OBVIOUS
<1>14. Nested'
  BY <1>4, <1>6, <1>10, <1>11, <1>12, <1>13 DEF Nested
<1> QED
  BY <1>8, <1>14

\* An array that has elements begins.
LEMMA OpenArrayKeeps ==
    ASSUME EncoderTypeOK, Nested, OpenArray
    PROVE  EncoderTypeOK' /\ Nested'
<1>1. /\ i < Len(doc) /\ doc[i + 1].kind = ArrayStart /\ i' = i + 1 /\ UNCHANGED <<doc, options>>
      /\ stack' = Append(Begun, Frame("array", <<>>))
      /\ out' = out \o Before \o <<LBracket>> \o NewlineIfPretty(Len(stack) + 1)
  BY DEF OpenArray, Due
<1>2. PICK A : A = Alphabet
  OBVIOUS
<1>3. options \in OptionsType /\ Len(stack) + 1 \in Nat
  BY DEF EncoderTypeOK
<1>4. PICK a \in Seq(A), b \in Seq(A), c \in Seq(A) :
         a = out /\ b = Before /\ c = NewlineIfPretty(Len(stack) + 1)
  BY <1>2, <1>3, BeforeType, SpaceType DEF EncoderTypeOK
<1>5. PICK t \in Seq(A) : t = <<LBracket>>
  <2>1. 91 \in A
    BY <1>2 DEF Alphabet, Byte
  <2>2. <<91>> \in Seq(A)
    BY <2>1
  <2> QED
    BY <2>2 DEF LBracket
<1>6. a \o b \o t \o c \in Seq(A)
  OBVIOUS
<1>7. out' \in Seq(Alphabet)
  BY <1>1, <1>2, <1>4, <1>5, <1>6
<1>8. PICK kind \in Container : kind = "array"
  BY DEF Container
<1>9. <<>> \in Seq(Alphabet)
  OBVIOUS
<1> QED
  BY <1>1, <1>7, <1>8, <1>9, ContainerBegun

\* An object begins.
LEMMA OpenObjectKeeps ==
    ASSUME EncoderTypeOK, Nested, OpenObject
    PROVE  EncoderTypeOK' /\ Nested'
<1>1. /\ i < Len(doc) /\ doc[i + 1].kind = ObjectStart /\ i' = i + 1 /\ UNCHANGED <<doc, options>>
      /\ stack' = Append(Begun, Frame("object", out \o Before)) /\ out' = <<>>
  BY DEF OpenObject, Due
<1>2. PICK A : A = Alphabet
  OBVIOUS
<1>3. PICK a \in Seq(A), b \in Seq(A) : a = out /\ b = Before
  BY <1>2, BeforeType DEF EncoderTypeOK
<1>4. PICK outer \in Seq(A) : outer = a \o b
  <2>1. a \o b \in Seq(A)
    OBVIOUS
  <2> QED
    BY <2>1
<1>5. outer \in Seq(Alphabet) /\ out' \in Seq(Alphabet)
  BY <1>1, <1>2
<1>6. PICK kind \in Container : kind = "object"
  BY DEF Container
<1>7. stack' = Append(Begun, Frame(kind, outer))
  BY <1>1, <1>3, <1>4, <1>6
<1> QED
  BY <1>1, <1>5, <1>6, <1>7, ContainerBegun

\* A container ends.
LEMMA CloseArrayKeeps ==
    ASSUME EncoderTypeOK, Nested, CloseArray
    PROVE  EncoderTypeOK' /\ Nested'
<1>1. /\ i < Len(doc) /\ doc[i + 1].kind = ArrayEnd /\ i' = i + 1 /\ UNCHANGED <<doc, options>>
      /\ Written(Outside, out \o NewlineIfPretty(Len(stack) - 1) \o <<RBracket>>)
  BY DEF CloseArray, Due
<1>2. stack # <<>>
  BY <1>1, NextEvent DEF Inside
<1>3. PICK A : A = Alphabet
  OBVIOUS
<1>4. options \in OptionsType /\ Len(stack) - 1 \in Nat
  BY <1>2 DEF EncoderTypeOK
<1>5. PICK a \in Seq(A), b \in Seq(A) : a = out /\ b = NewlineIfPretty(Len(stack) - 1)
  BY <1>3, <1>4, SpaceType DEF EncoderTypeOK
<1>6. PICK t \in Seq(A) : t = <<RBracket>>
  <2>1. 93 \in A
    BY <1>3 DEF Alphabet, Byte
  <2>2. <<93>> \in Seq(A)
    BY <2>1
  <2> QED
    BY <2>2 DEF RBracket
<1>7. PICK text \in Seq(A) : text = a \o b \o t
  <2>1. a \o b \o t \in Seq(A)
    OBVIOUS
  <2> QED
    BY <2>1
<1>8. Written(Outside, text) /\ text \in Seq(Alphabet) /\ doc[i + 1].kind \in Ends
  BY <1>1, <1>3, <1>5, <1>6, <1>7 DEF Ends
<1> QED
  BY <1>1, <1>2, <1>8, ContainerWritten

\* The end of an object keeps the types: its text is one of dumpers in the alphabet.
LEMMA CloseObjectKeeps ==
    ASSUME EncoderTypeOK, Nested, CloseObject
    PROVE  EncoderTypeOK' /\ Nested'
<1>1. PICK members \in WriteOrders(Last(stack).members) :
         /\ i < Len(doc) /\ doc[i + 1].kind = ObjectEnd /\ i' = i + 1 /\ UNCHANGED <<doc, options>>
         /\ Written(Outside, Last(stack).outer \o ObjectText(members, Len(stack) - 1))
  BY DEF CloseObject, Due
<1>2. stack # <<>>
  BY <1>1, NextEvent DEF Inside
<1>3. PICK A : A = Alphabet
  OBVIOUS
<1>4. options \in OptionsType /\ Len(stack) - 1 \in Nat
  BY <1>2 DEF EncoderTypeOK
<1>5. Last(stack) \in FramesOf(A)
  BY <1>2, <1>3, OutsideFacts DEF EncoderTypeOK
<1>6. PICK frame \in FramesOf(A) : frame = Last(stack)
  BY <1>5
<1>7. frame.members \in MembersOf(A) /\ frame.outer \in Seq(A)
  BY DEF FramesOf
<1>8. members \in MembersOf(A)
  BY <1>1, <1>6, <1>7, WriteOrdersType
<1>9. PICK a \in Seq(A), b \in Seq(A) : a = frame.outer /\ b = ObjectText(members, Len(stack) - 1)
  BY <1>3, <1>4, <1>7, <1>8, ObjectTextType
<1>10. PICK text \in Seq(A) : text = a \o b
  <2>1. a \o b \in Seq(A)
    OBVIOUS
  <2> QED
    BY <2>1
<1>11. Written(Outside, text) /\ text \in Seq(Alphabet) /\ doc[i + 1].kind \in Ends
  BY <1>1, <1>3, <1>6, <1>9, <1>10 DEF Ends
<1> QED
  BY <1>1, <1>2, <1>11, ContainerWritten

\* A key is rendered.
LEMMA KeyKeeps ==
    ASSUME EncoderTypeOK, Nested, Key
    PROVE  EncoderTypeOK' /\ Nested'
<1> DEFINE member == [token |-> Token(doc[i + 1]), value |-> <<>>]
<1>1. /\ i < Len(doc) /\ doc[i + 1].kind \in KeyKinds /\ i' = i + 1 /\ UNCHANGED <<doc, options>>
      /\ stack' = [stack EXCEPT ![Len(stack)].members = Append(@, member)] /\ out' = <<>>
  BY DEF Key, Due
<1>2. PICK A : A = Alphabet
  OBVIOUS
<1>3. /\ i + 1 \in 0..Len(doc) /\ Dumpable(doc[i + 1]) /\ Inside("object")
      /\ Around(doc)[i + 1] = AroundNext(doc[i + 1], Around(doc)[i])
  BY <1>1, NextEvent
<1>4. PICK d \in Nat : d = Len(stack) /\ d \in 1..Len(stack) /\ stack[d] \in FramesOf(A)
  BY <1>2, <1>3, OutsideFacts DEF EncoderTypeOK, Inside
<1> DEFINE R == [token : Seq(A), value : Seq(A)]
<1>5. member \in R
  BY <1>2, <1>3, TokenType DEF EncoderTypeOK
<1>6. stack[d].members \in Seq(R)
  BY <1>4 DEF FramesOf, MembersOf
<1> HIDE DEF member, R
<1>7. Append(stack[d].members, member) \in Seq(R)
  BY <1>5, <1>6
<1> DEFINE members == Append(stack[d].members, member)
           frame == [stack[d] EXCEPT !.members = members]
<1>8. members \in MembersOf(A)
  BY <1>7 DEF MembersOf, R
<1>9. stack' = [stack EXCEPT ![d] = frame]
  BY <1>1, <1>4
<1> HIDE DEF members
<1>10. frame \in FramesOf(A) /\ frame.kind = stack[d].kind
  BY <1>4, <1>8 DEF FramesOf
<1> HIDE DEF frame
<1>11. stack \in Seq(FramesOf(A))
  BY <1>2 DEF EncoderTypeOK
<1>12. /\ stack' \in Seq(FramesOf(A)) /\ Len(stack') = Len(stack)
       /\ \A j \in 1..Len(stack) : stack'[j] = IF j = d THEN frame ELSE stack[j]
  BY <1>4, <1>9, <1>10, <1>11, ExceptSeq
<1>13. EncoderTypeOK'
  <2>1. out' \in Seq(Alphabet)
    BY <1>1
  <2> QED
    BY <1>1, <1>2, <1>3, <1>12, <2>1, TypeAfter
<1>14. Around(doc)[i + 1] = Around(doc)[i]
  BY <1>1, <1>3, KindsDiffer DEF AroundNext, KeyKinds, Ends
<1>15. Nested'
  BY <1>1, <1>10, <1>12, <1>14 DEF Nested
<1> QED
  BY <1>13, <1>15

\* Every step keeps the types, and the stack the containers around.
LEMMA EncoderSteps ==
    ASSUME EncoderTypeOK, Nested, [Next]_vars
    PROVE  EncoderTypeOK' /\ Nested'
<1>1. CASE UNCHANGED vars
  BY <1>1 DEF vars, EncoderTypeOK, Nested, Alphabet
<1>2. CASE Finished
  BY <1>1, <1>2 DEF Finished
<1> QED
  BY <1>1, <1>2, ScalarKeeps, EmptyArrayKeeps, OpenArrayKeeps, CloseArrayKeeps,
     OpenObjectKeeps, KeyKeeps, CloseObjectKeeps DEF Next

\* In every reachable state the texts of all dumpers are of bytes, and their
\* stack is the containers around what is to be dumped next. (dumper::value)
THEOREM EncoderTypes == FairSpec => [](EncoderTypeOK /\ Nested)
<1>1. Init => EncoderTypeOK /\ Nested
  BY EncoderStarts
<1>2. EncoderTypeOK /\ Nested /\ [Next]_vars => (EncoderTypeOK /\ Nested)'
  BY EncoderSteps
<1> QED
  BY <1>1, <1>2, PTL DEF FairSpec

\* Whatever bytes the strings hold, and wherever in the value they stand, under
\* ensure_ascii none above 127 is ever written. (write_string)
THEOREM AsciiAlways == FairSpec => []AsciiOnly
<1>1. EncoderTypeOK => AsciiOnly
  <2> SUFFICES ASSUME EncoderTypeOK, options.ensure_ascii
               PROVE  \A k \in 1..Len(out) : out[k] < 128
    BY DEF AsciiOnly
  <2>1. PICK A : A = 0..127
    OBVIOUS
  <2>2. out \in Seq(A)
    BY <2>1 DEF EncoderTypeOK, Alphabet
  <2>3. \A k \in 1..Len(out) : out[k] \in A
    BY <2>2
  <2>4. \A x \in A : x < 128
    BY <2>1
  <2> QED
    BY <2>3, <2>4
<1> QED
  BY <1>1, EncoderTypes, PTL

-----------------------------------------------------------------------------
(***************************************************************************)
(* The layout: what all dumpers hold, from the outermost to the one at     *)
(* work, is always the layout of the events that are handled.              *)
(***************************************************************************)
\* The rest of an object's text as far as it is known: the members.
MembersText(members, depth) ==
    IF members = <<>> THEN <<>> ELSE NewlineIfPretty(depth) \o Joined(members, depth)

\* What a container kept outside the dumper at work.  An array writes at once.
Contents(frame, depth) ==
    IF frame.kind = "object" THEN frame.outer \o <<LBrace>> \o MembersText(frame.members, depth)
    ELSE <<>>

Kept(frames) == FlattenSeq([j \in 1..Len(frames) |-> Contents(frames[j], j)])

\* The layout of the first n events.
Laid(n) == FlattenSeq([k \in 1..n |-> Between(doc, k) \o Token(doc[k])])

\* What is written behind event n before the next one is known.
Gap(n, depth) ==
    IF n = 0 THEN <<>>
    ELSE IF doc[n].kind = ArrayStart THEN NewlineIfPretty(depth)
    ELSE IF doc[n].kind \in KeyKinds THEN <<Colon, 32>>
    ELSE <<>>

\* The flags and the members of a container tell which event was the last.
FrameAt(n, frames, j) ==
    LET frame == frames[j]
        Follows(kinds) == j = Len(frames) /\ doc[n].kind \in kinds
    IN  /\ frame.kind = "array" => (frame.first <=> Follows({ArrayStart}))
        /\ frame.kind = "object" =>
              /\ frame.members = <<>> <=> Follows({ObjectStart})
              /\ j < Len(frames) \/ Follows(KeyKinds) => Last(frame.members).value = <<>>

LaidAt(n, frames, text) ==
    /\ Kept(frames) \o text = Laid(n) \o Gap(n, Len(frames))
    /\ frames # <<>> /\ Last(frames).kind = "object" => text = <<>>
    /\ \A j \in 1..Len(frames) : FrameAt(n, frames, j)
    /\ n > 0 /\ doc[n].kind = ArrayStart => doc[n + 1].kind # ArrayEnd

Texts(S, a, b, c) == a \in Seq(S) /\ b \in Seq(S) /\ c \in Seq(S)

\* Three texts, bracketed one way and the other.
LEMMA Bracket ==
    ASSUME NEW S, NEW a, NEW b, NEW c, Texts(S, a, b, c)
    PROVE  (a \o b) \o c = a \o (b \o c)
BY ConcatAssociative DEF Texts

Bracketed(a, b, c) == (a \o b) \o c = a \o (b \o c)

\* The same, as one fact.
LEMMA Brackets ==
    ASSUME NEW S, NEW a, NEW b, NEW c, Texts(S, a, b, c)
    PROVE  Bracketed(a, b, c)
BY Bracket DEF Bracketed

\* Four texts, bracketed one way and another.
LEMMA Concat4 ==
    ASSUME NEW S, NEW a \in Seq(S), NEW b \in Seq(S), NEW c \in Seq(S), NEW d \in Seq(S)
    PROVE  /\ a \o b \o c \o d = a \o (b \o c \o d)
           /\ a \o b \o c \o d = a \o b \o (c \o d)
           /\ a \o b \o c = a \o (b \o c)
           /\ a \o b \o c \o d \in Seq(S) /\ b \o c \o d \in Seq(S)
           /\ a \o b \o c \in Seq(S) /\ a \o b \in Seq(S) /\ c \o d \in Seq(S)
<1>1. /\ a \o b \in Seq(S) /\ b \o c \in Seq(S) /\ c \o d \in Seq(S)
  BY ConcatProperties
<1>2. a \o b \o c \in Seq(S) /\ b \o c \o d \in Seq(S)
  BY <1>1, ConcatProperties
<1>3. Texts(S, a, b, c) /\ Texts(S, a \o b, c, d) /\ Texts(S, a, b \o c, d)
  BY <1>1 DEF Texts
<1>4. Bracketed(a, b, c) /\ Bracketed(a \o b, c, d) /\ Bracketed(a, b \o c, d)
  BY <1>3, Brackets
<1>5. /\ a \o b \o c = a \o (b \o c)
      /\ a \o b \o c \o d = a \o b \o (c \o d)
      /\ a \o (b \o c) \o d = a \o (b \o c \o d)
  BY <1>4 DEF Bracketed
<1>6. a \o b \o c \o d \in Seq(S)
  BY <1>2, ConcatProperties
<1> QED
  BY <1>1, <1>2, <1>5, <1>6

\* The parts of the text of a member.
LEMMA MemberParts ==
    ASSUME options \in OptionsType, NEW members \in MembersOf(Alphabet), NEW depth \in Nat,
           NEW k \in 1..Len(members)
    PROVE  /\ (IF k = 1 THEN <<>> ELSE ItemSeparator(depth)) \in Seq(Alphabet)
           /\ members[k].token \in Seq(Alphabet) /\ members[k].value \in Seq(Alphabet)
           /\ <<Colon, 32>> \in Seq(Alphabet)
<1>1. PICK A : A = Alphabet
  OBVIOUS
<1> DEFINE R == [token : Seq(A), value : Seq(A)]
<1>2. members[k] \in R
  <2>1. members \in Seq(R)
    BY <1>1 DEF MembersOf
  <2> HIDE DEF R
  <2> QED
    BY <2>1
<1>3. (IF k = 1 THEN <<>> ELSE ItemSeparator(depth)) \in Seq(A)
  <2>1. ItemSeparator(depth) \in Seq(A) /\ <<>> \in Seq(A)
    BY <1>1, SpaceType
  <2> QED
    BY <2>1
<1>4. <<Colon, 32>> \in Seq(A)
  <2>1. 58 \in A /\ 32 \in A
    BY <1>1 DEF Alphabet, Byte
  <2>2. <<58, 32>> \in Seq(A)
    BY <2>1
  <2> QED
    BY <2>2 DEF Colon
<1> QED
  BY <1>1, <1>2, <1>3, <1>4

\* One member more.
LEMMA JoinedAppend ==
    ASSUME options \in OptionsType, NEW members \in MembersOf(Alphabet), NEW depth \in Nat,
           NEW more \in MembersOf(Alphabet), Len(more) = Len(members) + 1,
           \A k \in 1..Len(members) : more[k] = members[k]
    PROVE  Joined(more, depth) = Joined(members, depth) \o MemberText(more, Len(more), depth)
<1>1. PICK A : A = Alphabet
  OBVIOUS
<1> DEFINE q == [k \in 1..Len(members) |-> MemberText(members, k, depth)]
           r == [k \in 1..Len(more) |-> MemberText(more, k, depth)]
<1>2. PICK n \in Nat : n = Len(members) /\ n + 1 = Len(more) /\ n + 1 \in 1..Len(more)
  BY DEF MembersOf
<1>3. q \in Seq(Seq(A)) /\ r \in Seq(Seq(A)) /\ Len(q) = n /\ Len(r) = n + 1
  <2>1. q \in Seq(Seq(A)) /\ r \in Seq(Seq(A))
    BY <1>1, JoinedType
  <2>2. Len(q) = n /\ Len(r) = n + 1
    BY <1>2
  <2> HIDE DEF q, r
  <2> QED
    BY <2>1, <2>2
<1>4. PICK x \in Seq(A) : x = MemberText(more, n + 1, depth)
  BY <1>1, <1>2, MemberTextType
<1>5. r[n + 1] = x
  BY <1>2, <1>4
<1>6. \A k \in 1..n : r[k] = q[k]
  <2>1. \A k \in 1..n : MemberText(more, k, depth) = MemberText(members, k, depth)
    BY <1>2 DEF MemberText
  <2>2. \A k \in 1..n : q[k] = MemberText(members, k, depth)
    BY <1>2
  <2>3. \A k \in 1..n : r[k] = MemberText(more, k, depth)
    BY <1>2
  <2> HIDE DEF q, r
  <2> QED
    BY <2>1, <2>2, <2>3
<1>7. Joined(members, depth) = FlattenSeq(q) /\ Joined(more, depth) = FlattenSeq(r)
  BY DEF Joined
<1> HIDE DEF q, r
<1>8. FlattenSeq(r) = FlattenSeq(q) \o x
  BY <1>3, <1>5, <1>6, FlattenLast
<1> QED
  BY <1>2, <1>4, <1>7, <1>8

\* The last member takes its value.
LEMMA JoinedValue ==
    ASSUME options \in OptionsType, NEW members \in MembersOf(Alphabet), NEW depth \in Nat,
           members # <<>>, Last(members).value = <<>>, NEW text \in Seq(Alphabet)
    PROVE  Joined([members EXCEPT ![Len(members)].value = text], depth)
             = Joined(members, depth) \o text
<1> DEFINE full == [members EXCEPT ![Len(members)].value = text]
<1>1. PICK A : A = Alphabet
  OBVIOUS
<1>2. PICK n \in Nat : n + 1 = Len(members) /\ n + 1 \in 1..Len(members) /\ n = Len(members) - 1
  <2>1. PICK T : members \in Seq(T)
    BY DEF MembersOf
  <2>2. Len(members) \in Nat /\ Len(members) # 0
    BY <2>1
  <2> QED
    BY <2>2
<1>3. /\ full \in MembersOf(A) /\ Len(full) = n + 1
      /\ \A k \in 1..(n + 1) : full[k] = IF k = n + 1 THEN [members[k] EXCEPT !.value = text]
                                                  ELSE members[k]
  <2>1. members \in MembersOf(A) /\ text \in Seq(A)
    BY <1>1
  <2>2. /\ full \in MembersOf(A) /\ Len(full) = Len(members)
        /\ \A k \in 1..Len(members) :
              full[k] = IF k = Len(members) THEN [members[k] EXCEPT !.value = text]
                                            ELSE members[k]
    BY <2>1, LastMember
  <2> HIDE DEF full
  <2> QED
    BY <1>2, <2>2
<1> DEFINE R == [token : Seq(A), value : Seq(A)]
<1>4. members \in Seq(R)
  BY <1>1 DEF MembersOf
<1>5. members[n + 1] \in R
  <2> HIDE DEF R
  <2> QED
    BY <1>2, <1>4
<1>6. /\ full[n + 1].token = members[n + 1].token /\ full[n + 1].value = text
      /\ members[n + 1].value = <<>>
  BY <1>2, <1>3, <1>5 DEF Last
<1> HIDE DEF full, R
<1>7. PICK init \in Seq(R) : Len(init) = n /\ \A k \in 1..n : init[k] = members[k]
  <2>1. SubSeq(members, 1, n) \in Seq(R) /\ Len(SubSeq(members, 1, n)) = n
        /\ \A k \in 1..n : SubSeq(members, 1, n)[k] = members[k]
    BY <1>2, <1>4
  <2> QED
    BY <2>1
<1>8. init \in MembersOf(A)
  BY DEF MembersOf, R
<1>9. PICK w \in Seq(A) :
         w = (IF n + 1 = 1 THEN <<>> ELSE ItemSeparator(depth))
               \o members[n + 1].token \o <<Colon, 32>>
  <2>1. PICK a \in Seq(A), b \in Seq(A), c \in Seq(A) :
           /\ a = IF n + 1 = 1 THEN <<>> ELSE ItemSeparator(depth)
           /\ b = members[n + 1].token /\ c = <<Colon, 32>>
    BY <1>1, <1>2, MemberParts
  <2>2. a \o b \o c \in Seq(A)
    BY Concat4
  <2> QED
    BY <2>1, <2>2
<1>10. PICK j \in Seq(A) : j = Joined(init, depth)
  BY <1>1, <1>8, JoinedType
<1>11. Joined(members, depth) = j \o MemberText(members, n + 1, depth)
  BY <1>1, <1>2, <1>7, <1>8, <1>10, JoinedAppend
<1>12. Joined(full, depth) = j \o MemberText(full, n + 1, depth)
  <2>1. \A k \in 1..n : full[k] = init[k]
    BY <1>3, <1>7
  <2>2. Len(full) = Len(init) + 1 /\ Len(init) = n
    BY <1>3, <1>7
  <2>3. full \in MembersOf(Alphabet) /\ init \in MembersOf(Alphabet)
    BY <1>1, <1>3, <1>8
  <2>4. Joined(full, depth) = Joined(init, depth) \o MemberText(full, Len(full), depth)
    BY <2>1, <2>2, <2>3, JoinedAppend
  <2> QED
    BY <1>3, <1>10, <2>4
<1>13. MemberText(members, n + 1, depth) = w \o <<>>
  BY <1>6, <1>9 DEF MemberText
<1>14. MemberText(full, n + 1, depth) = w \o text
  BY <1>6, <1>9 DEF MemberText
<1>15. w \o <<>> = w
  BY ConcatEmptySeq
<1>16. j \o (w \o text) = (j \o w) \o text
  <2>1. Texts(A, j, w, text)
    BY <1>1 DEF Texts
  <2>2. Bracketed(j, w, text)
    BY <2>1, Brackets
  <2> QED
    BY <2>2 DEF Bracketed
<1> QED
  BY <1>11, <1>12, <1>13, <1>14, <1>15, <1>16 DEF full

\* What the members and the container kept is a text.
LEMMA ContentsType ==
    ASSUME options \in OptionsType, NEW depth \in Nat
    PROVE  /\ \A members \in MembersOf(Alphabet) : MembersText(members, depth) \in Seq(Alphabet)
           /\ \A frame \in FramesOf(Alphabet) : Contents(frame, depth) \in Seq(Alphabet)
<1>1. PICK A : A = Alphabet
  OBVIOUS
<1>2. ASSUME NEW members \in MembersOf(A) PROVE MembersText(members, depth) \in Seq(A)
  <2>1. PICK a \in Seq(A), b \in Seq(A) :
           a = NewlineIfPretty(depth) /\ b = Joined(members, depth)
    BY <1>1, SpaceType, JoinedType
  <2>2. a \o b \in Seq(A) /\ <<>> \in Seq(A)
    OBVIOUS
  <2> QED
    BY <2>1, <2>2 DEF MembersText
<1>3. <<LBrace>> \in Seq(A)
  <2>1. 123 \in A
    BY <1>1 DEF Alphabet, Byte
  <2>2. <<123>> \in Seq(A)
    BY <2>1
  <2> QED
    BY <2>2 DEF LBrace
<1>4. ASSUME NEW frame \in FramesOf(A) PROVE Contents(frame, depth) \in Seq(A)
  <2>1. frame.outer \in Seq(A) /\ frame.members \in MembersOf(A)
    BY DEF FramesOf
  <2>2. PICK a \in Seq(A), b \in Seq(A), c \in Seq(A) :
           a = frame.outer /\ b = <<LBrace>> /\ c = MembersText(frame.members, depth)
    BY <1>2, <1>3, <2>1
  <2>3. a \o b \o c \in Seq(A) /\ <<>> \in Seq(A)
    OBVIOUS
  <2> QED
    BY <2>2, <2>3 DEF Contents
<1> QED
  BY <1>1, <1>2, <1>4

\* A key more: what comes before it, the key, and a colon.
LEMMA MembersAppend ==
    ASSUME options \in OptionsType, NEW members \in MembersOf(Alphabet), NEW depth \in Nat,
           NEW more \in MembersOf(Alphabet), Len(more) = Len(members) + 1,
           \A k \in 1..Len(members) : more[k] = members[k],
           more[Len(more)].value = <<>>
    PROVE  MembersText(more, depth) =
               MembersText(members, depth)
                 \o ((IF members = <<>> THEN NewlineIfPretty(depth) ELSE ItemSeparator(depth))
                       \o (more[Len(more)].token \o <<Colon, 32>>))
<1>1. PICK A : A = Alphabet
  OBVIOUS
<1>2. /\ Len(members) \in Nat /\ Len(more) \in 1..Len(more) /\ more # <<>>
      /\ Len(more) = 1 <=> members = <<>>
  <2>1. PICK T : members \in Seq(T) /\ more \in Seq(T)
    BY DEF MembersOf
  <2>2. Len(members) = 0 <=> members = <<>>
    BY <2>1
  <2> QED
    BY <2>1, <2>2
<1>3. PICK rest \in Seq(A) :
         /\ rest = more[Len(more)].token \o <<Colon, 32>>
         /\ MemberText(more, Len(more), depth)
              = (IF members = <<>> THEN <<>> ELSE ItemSeparator(depth)) \o rest
  <2>1. PICK a \in Seq(A), b \in Seq(A), c \in Seq(A) :
           /\ a = IF Len(more) = 1 THEN <<>> ELSE ItemSeparator(depth)
           /\ b = more[Len(more)].token /\ c = <<Colon, 32>>
    BY <1>1, <1>2, MemberParts
  <2>2. MemberText(more, Len(more), depth) = a \o b \o c \o <<>>
    BY <2>1 DEF MemberText
  <2>3. a \o b \o c \o <<>> = a \o (b \o c) /\ b \o c \in Seq(A)
    <3>1. a \o b \o c \in Seq(A) /\ b \o c \in Seq(A)
      BY ConcatProperties
    <3>2. Texts(A, a, b, c)
      BY <2>1 DEF Texts
    <3>3. Bracketed(a, b, c)
      BY <3>2, Brackets
    <3>4. a \o b \o c = a \o (b \o c)
      BY <3>3 DEF Bracketed
    <3> QED
      BY <3>1, <3>4, ConcatEmptySeq
  <2>4. a = IF members = <<>> THEN <<>> ELSE ItemSeparator(depth)
    BY <1>2, <2>1
  <2> QED
    BY <2>1, <2>2, <2>3, <2>4
<1>4. PICK j \in Seq(A) : j = Joined(members, depth)
  BY <1>1, JoinedType
<1>5. Joined(more, depth) = j \o MemberText(more, Len(more), depth)
  BY <1>4, JoinedAppend
<1>6. PICK nl \in Seq(A) : nl = NewlineIfPretty(depth)
  BY <1>1, SpaceType
<1>7. MembersText(more, depth) = nl \o (j \o MemberText(more, Len(more), depth))
  BY <1>2, <1>5, <1>6 DEF MembersText
<1>8. CASE members = <<>>
  <2>1. j = <<>>
    <3>1. [k \in 1..Len(members) |-> MemberText(members, k, depth)] = <<>>
      BY <1>8
    <3> QED
      BY <1>4, <3>1, FlattenEmpty DEF Joined
  <2>2. MemberText(more, Len(more), depth) = rest
    BY <1>3, <1>8, ConcatEmptySeq
  <2>3. MembersText(more, depth) = nl \o rest
    BY <1>7, <2>1, <2>2, ConcatEmptySeq
  <2>4. nl \o rest = <<>> \o (nl \o rest)
    OBVIOUS
  <2>5. MembersText(members, depth) = <<>>
    BY <1>8 DEF MembersText
  <2> QED
    BY <1>3, <1>6, <1>8, <2>3, <2>4, <2>5
<1>9. CASE members # <<>>
  <2>1. PICK m \in Seq(A) : m = ItemSeparator(depth) \o rest
    <3>1. PICK s \in Seq(A) : s = ItemSeparator(depth)
      BY <1>1, SpaceType
    <3>2. s \o rest \in Seq(A)
      OBVIOUS
    <3> QED
      BY <3>1, <3>2
  <2>2. MembersText(more, depth) = nl \o (j \o m)
    BY <1>3, <1>7, <1>9, <2>1
  <2>3. (nl \o j) \o m = nl \o (j \o m)
    <3>1. Texts(A, nl, j, m)
      BY <2>1 DEF Texts
    <3>2. Bracketed(nl, j, m)
      BY <3>1, Brackets
    <3> QED
      BY <3>2 DEF Bracketed
  <2>4. MembersText(members, depth) = nl \o j
    BY <1>4, <1>6, <1>9 DEF MembersText
  <2> QED
    BY <1>3, <1>9, <2>1, <2>2, <2>3, <2>4
<1> QED
  BY <1>8, <1>9

\* A value more.
LEMMA MembersValue ==
    ASSUME options \in OptionsType, NEW members \in MembersOf(Alphabet), NEW depth \in Nat,
           members # <<>>, Last(members).value = <<>>, NEW text \in Seq(Alphabet)
    PROVE  LET full == [members EXCEPT ![Len(members)].value = text]
           IN  full # <<>> /\ MembersText(full, depth) = MembersText(members, depth) \o text
<1> DEFINE full == [members EXCEPT ![Len(members)].value = text]
<1>1. PICK A : A = Alphabet
  OBVIOUS
<1>2. full # <<>>
  <2>1. members \in MembersOf(A) /\ text \in Seq(A)
    BY <1>1
  <2>2. full \in MembersOf(A) /\ Len(full) = Len(members)
    BY <2>1, LastMember
  <2>3. PICK T : members \in Seq(T) /\ full \in Seq(T)
    BY <2>1, <2>2 DEF MembersOf
  <2> HIDE DEF full
  <2> QED
    BY <2>2, <2>3
<1>3. Joined(full, depth) = Joined(members, depth) \o text
  BY JoinedValue
<1> HIDE DEF full
<1>4. PICK a \in Seq(A), b \in Seq(A), c \in Seq(A) :
         a = NewlineIfPretty(depth) /\ b = Joined(members, depth) /\ c = text
  BY <1>1, SpaceType, JoinedType
<1>5. (a \o b) \o c = a \o (b \o c)
  <2>1. Texts(A, a, b, c)
    BY <1>4 DEF Texts
  <2>2. Bracketed(a, b, c)
    BY <2>1, Brackets
  <2> QED
    BY <2>2 DEF Bracketed
<1>6. MembersText(full, depth) = a \o (b \o c)
  BY <1>2, <1>3, <1>4 DEF MembersText
<1>7. MembersText(members, depth) = a \o b
  BY <1>4 DEF MembersText
<1> QED
  BY <1>2, <1>4, <1>5, <1>6, <1>7 DEF full

\* What an object keeps grows with the text of its members.
LEMMA ContentsLonger ==
    ASSUME options \in OptionsType, NEW frame \in FramesOf(Alphabet), NEW depth \in Nat,
           NEW next \in FramesOf(Alphabet), frame.kind = "object", next.kind = "object",
           next.outer = frame.outer, NEW text \in Seq(Alphabet),
           MembersText(next.members, depth) = MembersText(frame.members, depth) \o text
    PROVE  Contents(next, depth) = Contents(frame, depth) \o text
<1>1. PICK A : A = Alphabet
  OBVIOUS
<1>2. PICK a \in Seq(A) : a = frame.outer \o <<LBrace>>
  <2>1. 123 \in A
    BY <1>1 DEF Alphabet, Byte
  <2>2. PICK b \in Seq(A) : b = <<LBrace>>
    <3>1. <<123>> \in Seq(A)
      BY <2>1
    <3> QED
      BY <3>1 DEF LBrace
  <2>3. PICK o \in Seq(A) : o = frame.outer
    BY <1>1 DEF FramesOf
  <2>4. o \o b \in Seq(A)
    OBVIOUS
  <2> QED
    BY <2>2, <2>3, <2>4
<1>3. PICK m \in Seq(A), t \in Seq(A) : m = MembersText(frame.members, depth) /\ t = text
  <2>1. frame.members \in MembersOf(A)
    BY <1>1 DEF FramesOf
  <2> QED
    BY <1>1, <2>1, ContentsType
<1>4. (a \o m) \o t = a \o (m \o t)
  <2>1. Texts(A, a, m, t)
    BY DEF Texts
  <2>2. Bracketed(a, m, t)
    BY <2>1, Brackets
  <2> QED
    BY <2>2 DEF Bracketed
<1> QED
  BY <1>2, <1>3, <1>4 DEF Contents

\* What is kept is a text.
LEMMA KeptType ==
    ASSUME options \in OptionsType, NEW frames \in Seq(FramesOf(Alphabet))
    PROVE  /\ [j \in 1..Len(frames) |-> Contents(frames[j], j)] \in Seq(Seq(Alphabet))
           /\ Kept(frames) \in Seq(Alphabet)
<1>1. PICK A : A = Alphabet
  OBVIOUS
<1> DEFINE q == [j \in 1..Len(frames) |-> Contents(frames[j], j)]
<1>2. Len(frames) \in Nat /\ \A j \in 1..Len(frames) : frames[j] \in FramesOf(A) /\ j \in Nat
  BY <1>1
<1>3. \A j \in 1..Len(frames) : Contents(frames[j], j) \in Seq(A)
  BY <1>1, <1>2, ContentsType
<1>4. q \in Seq(Seq(A))
  BY <1>2, <1>3
<1> HIDE DEF q
<1>5. FlattenSeq(q) \in Seq(A)
  BY <1>4, FlattenType
<1> QED
  BY <1>1, <1>4, <1>5 DEF q, Kept

\* One container more.
LEMMA KeptLast ==
    ASSUME options \in OptionsType, NEW frames \in Seq(FramesOf(Alphabet)),
           NEW next \in Seq(FramesOf(Alphabet)), Len(next) = Len(frames) + 1,
           \A j \in 1..Len(frames) : Contents(next[j], j) = Contents(frames[j], j)
    PROVE  Kept(next) = Kept(frames) \o Contents(next[Len(next)], Len(next))
<1>1. PICK A : A = Alphabet
  OBVIOUS
<1> DEFINE q == [j \in 1..Len(frames) |-> Contents(frames[j], j)]
           r == [j \in 1..Len(next) |-> Contents(next[j], j)]
<1>2. PICK n \in Nat : n = Len(frames) /\ n + 1 = Len(next) /\ n + 1 \in 1..Len(next)
  OBVIOUS
<1>3. q \in Seq(Seq(A)) /\ r \in Seq(Seq(A))
  BY <1>1, KeptType
<1>4. /\ Len(q) = n /\ Len(r) = n + 1
      /\ \A j \in 1..n : q[j] = Contents(frames[j], j)
      /\ \A j \in 1..(n + 1) : r[j] = Contents(next[j], j)
  BY <1>2
<1>5. Kept(frames) = FlattenSeq(q) /\ Kept(next) = FlattenSeq(r)
  BY DEF Kept
<1> HIDE DEF q, r
<1>6. \A j \in 1..n : r[j] = q[j]
  BY <1>2, <1>4
<1>7. next[n + 1] \in FramesOf(A) /\ n + 1 \in Nat
  BY <1>1, <1>2
<1>8. PICK x \in Seq(A) : x = Contents(next[n + 1], n + 1)
  BY <1>1, <1>7, ContentsType
<1>9. r[n + 1] = x
  BY <1>2, <1>4, <1>8
<1>10. FlattenSeq(r) = FlattenSeq(q) \o x
  BY <1>3, <1>4, <1>6, <1>9, FlattenLast
<1> QED
  BY <1>2, <1>5, <1>8, <1>10

\* The flag of an array is not kept text.
LEMMA KeptSame ==
    ASSUME NEW frames, NEW next, Len(next) = Len(frames),
           \A j \in 1..Len(frames) : /\ next[j].kind = frames[j].kind
                                     /\ next[j].members = frames[j].members
                                     /\ next[j].outer = frames[j].outer
    PROVE  Kept(next) = Kept(frames)
<1>1. \A j \in 1..Len(frames) : Contents(next[j], j) = Contents(frames[j], j)
  BY DEF Contents
<1>2. [j \in 1..Len(next) |-> Contents(next[j], j)]
        = [j \in 1..Len(frames) |-> Contents(frames[j], j)]
  BY <1>1
<1> QED
  BY <1>2 DEF Kept

\* What the innermost container keeps, behind what those around it keep.
LEMMA KeptSplit ==
    ASSUME options \in OptionsType, NEW frames \in Seq(FramesOf(Alphabet)), frames # <<>>,
           NEW init \in Seq(FramesOf(Alphabet)), Len(init) = Len(frames) - 1,
           \A j \in 1..Len(init) : init[j] = frames[j]
    PROVE  Kept(frames) = Kept(init) \o Contents(frames[Len(frames)], Len(frames))
<1>1. Len(frames) = Len(init) + 1
  OBVIOUS
<1> QED
  BY <1>1, KeptLast

\* The innermost container keeps some more.
LEMMA KeptLonger ==
    ASSUME options \in OptionsType, NEW frames \in Seq(FramesOf(Alphabet)), frames # <<>>,
           NEW next \in Seq(FramesOf(Alphabet)), Len(next) = Len(frames),
           \A j \in 1..(Len(frames) - 1) : next[j] = frames[j],
           NEW text \in Seq(Alphabet),
           Contents(next[Len(frames)], Len(frames))
             = Contents(frames[Len(frames)], Len(frames)) \o text
    PROVE  Kept(next) = Kept(frames) \o text
<1>1. PICK A : A = Alphabet
  OBVIOUS
<1>2. PICK n \in Nat : n = Len(frames) - 1 /\ Len(frames) = n + 1 /\ n + 1 \in 1..Len(frames)
  <2>1. PICK F : frames \in Seq(F)
    OBVIOUS
  <2>2. PICK m \in Nat : m = Len(frames) /\ m # 0
    BY <2>1
  <2>3. m - 1 \in Nat /\ (m - 1) + 1 = m /\ m \in 1..m
    BY <2>2
  <2> QED
    BY <2>2, <2>3
<1>3. PICK init \in Seq(FramesOf(A)) : Len(init) = n /\ \A j \in 1..n : init[j] = frames[j]
  <2>1. PICK F : F = FramesOf(A)
    OBVIOUS
  <2>2. frames \in Seq(F)
    BY <1>1, <2>1
  <2>3. SubSeq(frames, 1, n) \in Seq(F) /\ Len(SubSeq(frames, 1, n)) = n
        /\ \A j \in 1..n : SubSeq(frames, 1, n)[j] = frames[j]
    BY <1>2, <2>2
  <2> QED
    BY <2>1, <2>3
<1>4. init \in Seq(FramesOf(Alphabet)) /\ next # <<>>
  BY <1>1, <1>2, <1>3
<1>5. Kept(frames) = Kept(init) \o Contents(frames[n + 1], n + 1)
  BY <1>2, <1>3, <1>4, KeptSplit
<1>6. Kept(next) = Kept(init) \o Contents(next[n + 1], n + 1)
  BY <1>2, <1>3, <1>4, KeptSplit
<1>7. frames[n + 1] \in FramesOf(A) /\ n + 1 \in Nat
  BY <1>1, <1>2
<1>8. Kept(init) \in Seq(A) /\ Contents(frames[n + 1], n + 1) \in Seq(A) /\ text \in Seq(A)
  BY <1>1, <1>4, <1>7, KeptType, ContentsType
<1>9. (Kept(init) \o Contents(frames[n + 1], n + 1)) \o text
        = Kept(init) \o (Contents(frames[n + 1], n + 1) \o text)
  <2>1. Texts(A, Kept(init), Contents(frames[n + 1], n + 1), text)
    BY <1>8 DEF Texts
  <2> QED
    BY <2>1, Bracket
<1> QED
  BY <1>2, <1>5, <1>6, <1>9

-----------------------------------------------------------------------------
(***************************************************************************)
(* The layout of the events.                                               *)
(***************************************************************************)
\* The text before an event, and the layout of the first events, are texts.
LEMMA BetweenType ==
    ASSUME EncoderTypeOK, NEW k \in 1..Len(doc)
    PROVE  /\ Depth(doc, k) \in Nat /\ Between(doc, k) \in Seq(Alphabet)
           /\ Token(doc[k]) \in Seq(Alphabet)
<1>1. PICK A : A = Alphabet
  OBVIOUS
<1>2. Len(doc) \in Nat /\ Dumpable(doc[k]) /\ options \in OptionsType
  <2>1. PICK T : doc \in Seq(T)
    BY Zenon DEF EncoderTypeOK, Traversal
  <2>2. Dumpable(doc[k]) /\ options \in OptionsType
    BY Zenon DEF EncoderTypeOK, Traversal
  <2> QED
    BY <2>1, <2>2
<1>3. PICK n \in 0..Len(doc) : n = IF doc[k].kind \in Ends THEN k ELSE k - 1
  BY <1>2
<1>4. PICK w \in Seq(Container) : w = Around(doc)[n]
  BY <1>2, AroundSteps
<1>5. Depth(doc, k) \in Nat
  BY <1>3, <1>4 DEF Depth
<1>6. /\ NewlineIfPretty(Depth(doc, k)) \in Seq(A) /\ ItemSeparator(Depth(doc, k)) \in Seq(A)
  BY <1>1, <1>2, <1>5, SpaceType
<1>7. <<Colon, 32>> \in Seq(A) /\ <<>> \in Seq(A)
  <2>1. 58 \in A /\ 32 \in A
    BY <1>1 DEF Alphabet, Byte
  <2>2. <<58, 32>> \in Seq(A)
    BY <2>1
  <2> QED
    BY <2>2 DEF Colon
<1>8. Between(doc, k) \in {<<>>, <<Colon, 32>>, NewlineIfPretty(Depth(doc, k)),
                           ItemSeparator(Depth(doc, k))}
  BY DEF Between
<1> QED
  BY <1>1, <1>2, <1>5, <1>6, <1>7, <1>8, TokenType

\* The layout of the first n events is a text in the alphabet.
LEMMA LaidType ==
    ASSUME EncoderTypeOK, NEW n \in 0..Len(doc)
    PROVE  /\ [k \in 1..n |-> Between(doc, k) \o Token(doc[k])] \in Seq(Seq(Alphabet))
           /\ Laid(n) \in Seq(Alphabet)
<1>1. PICK A : A = Alphabet
  OBVIOUS
<1>2. Len(doc) \in Nat /\ n \in Nat
  <2>1. PICK T : doc \in Seq(T)
    BY Zenon DEF EncoderTypeOK, Traversal
  <2> QED
    BY <2>1
<1>3. ASSUME NEW k \in 1..n PROVE Between(doc, k) \o Token(doc[k]) \in Seq(A)
  <2>1. k \in 1..Len(doc)
    BY <1>2
  <2>2. PICK a \in Seq(A), b \in Seq(A) : a = Between(doc, k) /\ b = Token(doc[k])
    BY <1>1, <2>1, BetweenType
  <2>3. a \o b \in Seq(A)
    OBVIOUS
  <2> QED
    BY <2>2, <2>3
<1> DEFINE q == [k \in 1..n |-> Between(doc, k) \o Token(doc[k])]
<1>4. q \in Seq(Seq(A))
  BY <1>2, <1>3
<1> HIDE DEF q
<1>5. FlattenSeq(q) \in Seq(A)
  BY <1>4, FlattenType
<1> QED
  BY <1>1, <1>4, <1>5 DEF q, Laid

\* One event more.
LEMMA LaidStep ==
    ASSUME EncoderTypeOK, NEW n \in 0..Len(doc), n + 1 \in 1..Len(doc)
    PROVE  Laid(n + 1) = Laid(n) \o (Between(doc, n + 1) \o Token(doc[n + 1]))
<1>1. PICK A : A = Alphabet
  OBVIOUS
<1> DEFINE q == [k \in 1..n |-> Between(doc, k) \o Token(doc[k])]
           r == [k \in 1..(n + 1) |-> Between(doc, k) \o Token(doc[k])]
<1>2. n \in Nat /\ n + 1 \in 0..Len(doc) /\ n + 1 \in 1..(n + 1)
  OBVIOUS
<1>3. q \in Seq(Seq(A)) /\ r \in Seq(Seq(A))
  BY <1>1, <1>2, LaidType
<1>4. Len(q) = n /\ Len(r) = n + 1 /\ \A k \in 1..n : r[k] = q[k]
  BY <1>2
<1>5. PICK x \in Seq(A) : x = Between(doc, n + 1) \o Token(doc[n + 1])
  <2>1. PICK a \in Seq(A), b \in Seq(A) : a = Between(doc, n + 1) /\ b = Token(doc[n + 1])
    BY <1>1, BetweenType
  <2>2. a \o b \in Seq(A)
    OBVIOUS
  <2> QED
    BY <2>1, <2>2
<1>6. r[n + 1] = x
  BY <1>2, <1>5
<1>7. Laid(n) = FlattenSeq(q) /\ Laid(n + 1) = FlattenSeq(r)
  BY DEF Laid
<1> HIDE DEF q, r
<1>8. FlattenSeq(r) = FlattenSeq(q) \o x
  BY <1>3, <1>4, <1>6, FlattenLast
<1> QED
  BY <1>5, <1>7, <1>8

\* An event that begins or names something is inside of what it began or named in.
LEMMA LastEvent ==
    ASSUME EncoderTypeOK, Nested, i > 0
    PROVE  /\ stack # <<>> \/ doc[i].kind \notin KeyKinds \cup Starts
           /\ doc[i].kind = ArrayStart => Inside("array")
           /\ doc[i].kind \in KeyKinds \cup {ObjectStart} => Inside("object")
<1>1. Len(doc) \in Nat /\ i \in 1..Len(doc) /\ i - 1 \in 0..Len(doc) /\ i \in 0..Len(doc)
  <2>1. PICK T : doc \in Seq(T)
    BY Zenon DEF EncoderTypeOK, Traversal
  <2>2. Len(doc) \in Nat
    BY <2>1
  <2> QED
    BY <2>2 DEF EncoderTypeOK
<1>2. MayStand(doc, i - 1, doc[i].kind)
  BY <1>1, Zenon DEF EncoderTypeOK, Traversal
<1>3. PICK w \in Seq(Container), v \in Seq(Container) :
         w = Around(doc)[i] /\ v = Around(doc)[i - 1] /\ w = AroundNext(doc[i], v)
  BY <1>1, AroundSteps
<1>4. PICK F : stack \in Seq(F)
  BY DEF EncoderTypeOK
<1>5. ASSUME NEW type, w # <<>>, w[Len(w)] = type PROVE stack # <<>> /\ Inside(type)
  <2>1. Len(w) = Len(stack) /\ Len(w) \in 1..Len(w)
    BY <1>3, <1>5 DEF Nested
  <2>2. stack # <<>> /\ stack[Len(stack)].kind = w[Len(w)]
    BY <1>3, <1>4, <2>1 DEF Nested
  <2> QED
    BY <1>5, <2>2 DEF Inside, Last
<1>6. ASSUME NEW type \in Container
      PROVE  Append(v, type) # <<>> /\ Append(v, type)[Len(Append(v, type))] = type
  OBVIOUS
<1>7. CASE doc[i].kind = ArrayStart
  <2>1. w = Append(v, "array")
    BY <1>3, <1>7, KindsDiffer DEF AroundNext
  <2>2. Inside("array") /\ stack # <<>>
    BY <1>5, <1>6, <2>1 DEF Container
  <2> QED
    BY <1>7, <2>2, KindsDiffer DEF KeyKinds
<1>8. CASE doc[i].kind = ObjectStart
  <2>1. w = Append(v, "object")
    BY <1>3, <1>8, KindsDiffer DEF AroundNext
  <2>2. Inside("object") /\ stack # <<>>
    BY <1>5, <1>6, <2>1 DEF Container
  <2> QED
    BY <1>8, <2>2, KindsDiffer
<1>9. CASE doc[i].kind \in KeyKinds
  <2>1. w = v
    BY <1>3, <1>9, KindsDiffer DEF AroundNext, KeyKinds, Ends
  <2>2. v # <<>> /\ v[Len(v)] = "object"
    BY <1>2, <1>3, <1>9 DEF MayStand, Last
  <2>3. Inside("object") /\ stack # <<>>
    BY <1>5, <2>1, <2>2
  <2> QED
    BY <1>9, <2>3, KindsDiffer DEF KeyKinds
<1> QED
  BY <1>7, <1>8, <1>9 DEF Starts

\* How deep the next event is.
LEMMA NextDepth ==
    ASSUME EncoderTypeOK, Nested, i < Len(doc)
    PROVE  /\ (i + 1) - 1 = i /\ i \in Nat /\ Len(stack) \in Nat
           /\ doc[i + 1].kind \notin Ends => Depth(doc, i + 1) = Len(stack)
           /\ doc[i + 1].kind \in Ends => Depth(doc, i + 1) = Len(stack) - 1 /\ stack # <<>>
<1>1. i \in Nat /\ (i + 1) - 1 = i /\ Len(stack) \in Nat
  BY DEF EncoderTypeOK
<1>2. PICK w \in Seq(Container), v \in Seq(Container) :
         w = Around(doc)[i] /\ v = Around(doc)[i + 1] /\ v = AroundNext(doc[i + 1], w)
  <2>1. Len(doc) \in Nat
    <3>1. PICK T : doc \in Seq(T)
      BY Zenon DEF EncoderTypeOK, Traversal
    <3> QED
      BY <3>1
  <2>2. i + 1 \in 0..Len(doc)
    BY <1>1, <2>1
  <2> QED
    BY <2>1, <2>2, NextEvent, AroundSteps
<1>3. Len(w) = Len(stack)
  BY <1>2 DEF Nested
<1>4. CASE doc[i + 1].kind \notin Ends
  BY <1>1, <1>2, <1>3, <1>4 DEF Depth
<1>5. CASE doc[i + 1].kind \in Ends
  <2>1. stack # <<>>
    BY <1>5, NextEvent DEF Ends, Inside
  <2>2. v = SubSeq(w, 1, Len(w) - 1)
    BY <1>2, <1>5, KindsDiffer DEF AroundNext, Ends, Front
  <2>3. w # <<>>
    <3>1. PICK F : stack \in Seq(F)
      BY DEF EncoderTypeOK
    <3>2. Len(stack) # 0
      BY <2>1, <3>1
    <3> QED
      BY <1>3, <3>2
  <2>4. Len(v) = Len(w) - 1
    <3>1. PICK m \in Nat : m = Len(w) - 1
      <4>1. Len(w) \in Nat /\ Len(w) # 0
        BY <2>3
      <4> QED
        BY <4>1
    <3>2. Len(SubSeq(w, 1, m)) = m
      BY <3>1
    <3> QED
      BY <2>2, <3>1, <3>2
  <2> QED
    BY <1>1, <1>2, <1>3, <1>5, <2>1, <2>4 DEF Depth
<1> QED
  BY <1>4, <1>5

\* The kinds of events are apart.
LEMMA KindsApart ==
    /\ \A kind \in KeyKinds : kind \notin Starts \cup Ends \cup ScalarKinds
    /\ \A kind \in ScalarKinds : kind \notin Starts \cup Ends \cup KeyKinds
    /\ \A kind \in Starts : kind \notin Ends \cup KeyKinds \cup ScalarKinds
    /\ \A kind \in Ends : kind \notin Starts \cup KeyKinds \cup ScalarKinds
<1>1. /\ \A kind \in KeyKinds : kind \notin Starts \cup Ends
      /\ \A kind \in ScalarKinds : kind \notin Starts \cup Ends
  BY Zenon, KindsDiffer DEF KeyKinds, ScalarKinds, Starts, Ends
<1>2. \A kind \in KeyKinds : kind \notin ScalarKinds
  BY DEF KeyKinds, ScalarKinds
<1>3. \A kind \in Starts : kind \notin Ends
  BY KindsDiffer DEF Starts, Ends
<1> QED
  BY <1>1, <1>2, <1>3

\* Behind the gap, an element is separated from the one before it, and a value
\* follows its key, as the layout has it. (write_array_shell, write_members)
LEMMA GapBefore ==
    ASSUME EncoderTypeOK, Nested, LaidAt(i, stack, out), i < Len(doc),
           doc[i + 1].kind \in ScalarKinds \cup Starts
    PROVE  Gap(i, Len(stack)) \o Before = Between(doc, i + 1)
<1>1. /\ (i + 1) - 1 = i /\ i \in Nat /\ Len(stack) \in Nat
      /\ Depth(doc, i + 1) = Len(stack) /\ doc[i + 1].kind \notin Ends
  BY NextDepth, KindsApart
<1>2. PICK A : A = Alphabet
  OBVIOUS
<1>3. PICK nl \in Seq(A), sep \in Seq(A) :
         nl = NewlineIfPretty(Len(stack)) /\ sep = ItemSeparator(Len(stack))
  BY <1>1, <1>2, SpaceType DEF EncoderTypeOK
<1>4. <<>> \o <<>> = <<>> /\ nl \o <<>> = nl /\ <<>> \o sep = sep
  BY ConcatEmptySeq
<1>5. /\ i > 0 => stack # <<>>
      /\ Inside("object") <=> Keyed
  BY NextEvent
<1>6. stack # <<>> => Inside("array") \/ Inside("object")
  <2>1. stack # <<>> => Last(stack).kind \in Container
    <3>1. ASSUME stack # <<>> PROVE Last(stack) \in FramesOf(A)
      BY <1>2, <3>1, OutsideFacts DEF EncoderTypeOK
    <3> QED
      BY <3>1 DEF FramesOf
  <2> QED
    BY <2>1 DEF Inside, Container
<1>7. ~(Inside("array") /\ Inside("object"))
  BY DEF Inside
<1>8. Inside("array") => (Last(stack).first <=> doc[i].kind = ArrayStart)
  <2>1. ASSUME Inside("array") PROVE Len(stack) \in 1..Len(stack) /\ Last(stack) = stack[Len(stack)]
    BY <2>1, OutsideFacts DEF EncoderTypeOK, Inside
  <2>2. \A j \in 1..Len(stack) : FrameAt(i, stack, j)
    BY DEF LaidAt
  <2> QED
    BY <2>1, <2>2 DEF FrameAt, Inside
<1>9. CASE i = 0
  <2>1. Len(Around(doc)[0]) = 0
    <3>1. PICK T : doc \in Seq(T)
      BY Zenon DEF EncoderTypeOK, Traversal
    <3>2. Around(doc)[0] = <<>>
      BY <3>1, AroundSteps
    <3> QED
      BY <3>2
  <2>2. stack = <<>>
    <3>1. PICK F : stack \in Seq(F)
      BY DEF EncoderTypeOK
    <3> QED
      BY <1>9, <2>1, <3>1 DEF Nested
  <2>3. Before = <<>> /\ Gap(i, Len(stack)) = <<>>
    BY <1>9, <2>2 DEF Before, Inside, Gap
  <2>4. Between(doc, i + 1) = <<>>
    BY <1>9 DEF Between
  <2> QED
    BY <1>4, <2>3, <2>4
<1>10. CASE i > 0 /\ doc[i].kind \in KeyKinds
  <2>1. Before = <<>>
    BY <1>7, <1>10, LastEvent DEF Before
  <2>2. Gap(i, Len(stack)) = <<Colon, 32>> /\ doc[i].kind # ArrayStart
    BY <1>1, <1>10, KindsApart DEF Gap, Starts
  <2>3. Between(doc, i + 1) = <<Colon, 32>>
    BY <1>1, <1>10, KindsApart DEF Between
  <2>4. <<Colon, 32>> \o <<>> = <<Colon, 32>>
    OBVIOUS
  <2> QED
    BY <2>1, <2>2, <2>3, <2>4
<1>11. CASE i > 0 /\ doc[i].kind = ArrayStart
  <2>1. Before = <<>>
    BY <1>8, <1>11, LastEvent DEF Before
  <2>2. Gap(i, Len(stack)) = nl
    BY <1>1, <1>3, <1>11 DEF Gap
  <2>3. doc[i].kind \in Starts
    BY <1>11 DEF Starts
  <2>4. Between(doc, i + 1) = nl
    BY <1>1, <1>3, <1>11, <2>3, KindsApart DEF Between
  <2> QED
    BY <1>4, <2>1, <2>2, <2>4
<1>12. CASE i > 0 /\ doc[i].kind = ObjectStart
  <2>1. Inside("object") /\ doc[i].kind \notin KeyKinds
    BY <1>12, LastEvent, KindsApart DEF Starts
  <2> QED
    BY <1>5, <2>1 DEF Keyed
<1>13. CASE i > 0 /\ doc[i].kind \notin KeyKinds \cup Starts
  <2>1. Inside("array")
    BY <1>5, <1>6, <1>13 DEF Keyed
  <2>2. Before = sep
    BY <1>3, <1>8, <1>13, <2>1 DEF Before, Starts
  <2>3. Gap(i, Len(stack)) = <<>>
    BY <1>1, <1>13 DEF Gap, Starts
  <2>4. Between(doc, i + 1) = sep
    BY <1>1, <1>3, <1>13 DEF Between
  <2> QED
    BY <1>4, <2>2, <2>3, <2>4
<1> QED
  BY <1>1, <1>9, <1>10, <1>11, <1>12, <1>13 DEF Starts

\* Nothing stands between a container's last event and its end, or between a
\* member and the next key, but what the layout has. (write_array_shell,
\* write_object_shell, write_members)
LEMMA GapInside ==
    ASSUME EncoderTypeOK, Nested, LaidAt(i, stack, out), i < Len(doc),
           doc[i + 1].kind \in KeyKinds \cup Ends
    PROVE  /\ Gap(i, Len(stack)) = <<>> /\ i > 0 /\ stack # <<>>
           /\ doc[i + 1].kind \in KeyKinds =>
                 Between(doc, i + 1) = IF doc[i].kind = ObjectStart THEN NewlineIfPretty(Len(stack))
                                       ELSE ItemSeparator(Len(stack))
           /\ doc[i + 1].kind \in Ends =>
                 Between(doc, i + 1) = IF doc[i].kind = ObjectStart THEN <<>>
                                       ELSE NewlineIfPretty(Len(stack) - 1)
           /\ doc[i + 1].kind = ArrayEnd => doc[i].kind # ObjectStart
<1>1. (i + 1) - 1 = i /\ i \in Nat /\ Len(stack) \in Nat
  BY NextDepth
<1>2. ~(Inside("array") /\ Inside("object"))
  BY DEF Inside
<1>3. stack # <<>>
  BY NextEvent DEF Inside, Ends
<1>4. i > 0
  <2>1. PICK T : doc \in Seq(T)
    BY Zenon DEF EncoderTypeOK, Traversal
  <2>2. Around(doc)[0] = <<>>
    BY <2>1, AroundSteps
  <2>3. PICK F : stack \in Seq(F)
    BY DEF EncoderTypeOK
  <2>4. i = 0 => stack = <<>>
    BY <2>2, <2>3 DEF Nested
  <2> QED
    BY <1>1, <1>3, <2>4
<1>5. doc[i].kind \notin KeyKinds
  BY <1>2, <1>4, LastEvent, NextEvent DEF Ends, Keyed
<1>6. doc[i].kind # ArrayStart
  BY <1>2, <1>4, LastEvent, NextEvent DEF LaidAt, Ends
<1>7. Gap(i, Len(stack)) = <<>>
  BY <1>5, <1>6 DEF Gap
<1>8. doc[i + 1].kind = ArrayEnd => doc[i].kind # ObjectStart
  BY <1>2, <1>4, LastEvent, NextEvent
<1>9. doc[i].kind \in Starts <=> doc[i].kind = ObjectStart
  BY <1>6 DEF Starts
<1>10. CASE doc[i + 1].kind \in KeyKinds
  <2>1. doc[i + 1].kind \notin Ends /\ Depth(doc, i + 1) = Len(stack)
    BY <1>10, KindsApart, NextDepth
  <2>2. doc[i].kind = ObjectStart => Between(doc, i + 1) = NewlineIfPretty(Len(stack))
    BY <1>1, <1>4, <1>5, <1>9, <2>1 DEF Between
  <2>3. doc[i].kind # ObjectStart => Between(doc, i + 1) = ItemSeparator(Len(stack))
    BY <1>1, <1>4, <1>5, <1>9, <2>1 DEF Between
  <2> QED
    BY <1>3, <1>4, <1>7, <1>8, <2>1, <2>2, <2>3
<1>11. CASE doc[i + 1].kind \in Ends
  <2>1. doc[i + 1].kind \notin KeyKinds /\ Depth(doc, i + 1) = Len(stack) - 1
    BY <1>11, KindsApart, NextDepth
  <2>2. doc[i].kind = ObjectStart => Between(doc, i + 1) = <<>>
    BY <1>1, <1>4, <1>5, <1>9, <1>11 DEF Between
  <2>3. doc[i].kind # ObjectStart => Between(doc, i + 1) = NewlineIfPretty(Len(stack) - 1)
    BY <1>1, <1>4, <1>5, <1>9, <1>11, <2>1 DEF Between
  <2> QED
    BY <1>3, <1>4, <1>7, <1>8, <2>1, <2>2, <2>3
<1> QED
  BY <1>10, <1>11

\* The containers that wait for a value: a member has been named, an element begun.
Waits(frame) ==
    /\ frame.kind = "array" => ~frame.first
    /\ frame.kind = "object" => frame.members # <<>> /\ Last(frame.members).value = <<>>

\* All but the innermost container wait for the value that is being written.
LEMMA OutsideWaits ==
    ASSUME NEW n, NEW frames, NEW text, LaidAt(n, frames, text),
           Len(frames) \in Nat, NEW j \in 1..Len(frames), j < Len(frames)
    PROVE  Waits(frames[j])
<1>1. FrameAt(n, frames, j) /\ j # Len(frames)
  BY DEF LaidAt
<1> QED
  BY <1>1 DEF FrameAt, Waits

\* When a value begins, all of them do.
LEMMA BegunWaits ==
    ASSUME EncoderTypeOK, Nested, LaidAt(i, stack, out), i < Len(doc),
           doc[i + 1].kind \in ScalarKinds \cup Starts
    PROVE  \A j \in 1..Len(stack) : Waits(Begun[j])
<1>1. PICK A : A = Alphabet
  OBVIOUS
<1>2. stack \in Seq(FramesOf(A)) /\ Len(stack) \in Nat
  BY <1>1 DEF EncoderTypeOK
<1> SUFFICES ASSUME NEW j \in 1..Len(stack) PROVE Waits(Begun[j])
  OBVIOUS
<1>3. CASE j < Len(stack)
  <2>1. Begun[j] = stack[j]
    BY <1>2, <1>3, BegunFacts
  <2> QED
    BY <1>2, <1>3, <2>1, OutsideWaits
<1>4. CASE j = Len(stack)
  <2>1. stack # <<>> /\ Last(stack) = stack[j]
    BY <1>2, <1>4 DEF Last
  <2>2. Begun[j].kind = stack[j].kind /\ Begun[j].members = stack[j].members
    BY <1>2, BegunFacts
  <2>3. CASE stack[j].kind = "array"
    <3>1. Inside("array")
      BY <2>1, <2>3 DEF Inside
    <3>2. ~Begun[j].first
      BY <1>2, <1>4, <3>1, BegunFacts
    <3> QED
      BY <2>2, <2>3, <3>2 DEF Waits
  <2>4. CASE stack[j].kind = "object"
    <3>1. Inside("object")
      BY <2>1, <2>4 DEF Inside
    <3>2. doc[i].kind \in KeyKinds
      BY <3>1, NextEvent DEF Keyed
    <3>3. doc[i].kind # ObjectStart
      BY <3>2, KindsApart DEF Starts
    <3>4. FrameAt(i, stack, j)
      BY DEF LaidAt
    <3>5. stack[j].members # <<>> /\ Last(stack[j].members).value = <<>>
      BY <1>4, <2>4, <3>2, <3>3, <3>4 DEF FrameAt
    <3> QED
      BY <2>2, <2>4, <3>5 DEF Waits
  <2> QED
    BY <2>2, <2>3, <2>4 DEF Waits
<1> QED
  BY <1>2, <1>3, <1>4

\* A value is written: all dumpers together hold the layout up to its end.
LEMMA WrittenLaid ==
    ASSUME options \in OptionsType, NEW frames \in Seq(FramesOf(Alphabet)),
           NEW text \in Seq(Alphabet), Written(frames, text), NEW n \in Nat,
           Laid(n) \in Seq(Alphabet), Kept(frames) \o text = Laid(n),
           \A j \in 1..Len(frames) : Waits(frames[j]),
           doc[n].kind \notin Starts \cup KeyKinds
    PROVE  LaidAt(n, stack', out')
<1>1. PICK A : A = Alphabet
  OBVIOUS
<1>2. frames \in Seq(FramesOf(A)) /\ text \in Seq(A) /\ Len(frames) \in Nat
  BY <1>1
<1>3. Gap(n, Len(stack')) = <<>> /\ Laid(n) \o <<>> = Laid(n)
  <2>1. Gap(n, Len(stack')) = <<>>
    BY DEF Gap, Starts
  <2>2. PICK l \in Seq(A) : l = Laid(n)
    BY <1>1
  <2>3. l \o <<>> = l
    BY ConcatEmptySeq
  <2> QED
    BY <2>1, <2>2, <2>3
<1>4. doc[n].kind # ArrayStart /\ doc[n].kind # ObjectStart
  BY DEF Starts
<1>5. CASE ~(frames # <<>> /\ Last(frames).kind = "object")
  <2>1. stack' = frames /\ out' = text
    BY <1>5 DEF Written
  <2>2. \A j \in 1..Len(frames) : FrameAt(n, frames, j)
    <3> SUFFICES ASSUME NEW j \in 1..Len(frames) PROVE FrameAt(n, frames, j)
      OBVIOUS
    <3>1. j = Len(frames) => frames[j].kind # "object"
      <4>1. ASSUME j = Len(frames) PROVE frames # <<>> /\ Last(frames) = frames[j]
        BY <1>2, <4>1 DEF Last
      <4> QED
        BY <1>5, <4>1
    <3>2. j = Len(frames) \/ j < Len(frames)
      BY <1>2
    <3> QED
      BY <1>4, <3>1, <3>2 DEF FrameAt, Waits
  <2> QED
    BY <1>3, <1>4, <1>5, <2>1, <2>2 DEF LaidAt
<1>6. CASE frames # <<>> /\ Last(frames).kind = "object"
  <2>1. PICK d \in Nat : d = Len(frames) /\ d \in 1..Len(frames)
    <3>1. Len(frames) # 0
      BY <1>2, <1>6
    <3> QED
      BY <1>2, <3>1
  <2>2. Last(frames) = frames[d] /\ frames[d] \in FramesOf(A) /\ frames[d].kind = "object"
    BY <1>2, <1>6, <2>1 DEF Last
  <2> DEFINE m == frames[d].members
             full == [m EXCEPT ![Len(m)].value = text]
  <2>3. /\ stack' \in Seq(FramesOf(A)) /\ Len(stack') = d
        /\ \A j \in 1..d : /\ stack'[j].kind = frames[j].kind
                           /\ stack'[j].first = frames[j].first
                           /\ stack'[j].outer = frames[j].outer
                           /\ j < d => stack'[j] = frames[j]
        /\ out' = <<>> /\ stack'[d].members = full
    <3> HIDE DEF m, full
    <3>1. /\ stack' \in Seq(FramesOf(A)) /\ Len(stack') = Len(frames)
          /\ \A j \in 1..Len(frames) : /\ stack'[j].kind = frames[j].kind
                                       /\ stack'[j].first = frames[j].first
                                       /\ stack'[j].outer = frames[j].outer
                                       /\ j < Len(frames) => stack'[j] = frames[j]
      BY <1>2, WrittenFacts
    <3>2. /\ out' = <<>>
          /\ stack'[Len(frames)].members = Valued(frames[Len(frames)].members, text)
      BY <1>2, <1>6, WrittenFacts
    <3>3. stack'[d].members = full
      BY <2>1, <3>2, Zenon DEF m, full, Valued
    <3> QED
      BY <2>1, <3>1, <3>2, <3>3
  <2>4. m \in MembersOf(A) /\ m # <<>> /\ Last(m).value = <<>>
    BY <2>1, <2>2 DEF FramesOf, Waits
  <2>5. full # <<>> /\ MembersText(full, d) = MembersText(m, d) \o text
    <3> HIDE DEF m
    <3>1. m \in MembersOf(Alphabet)
      BY <1>1, <2>4
    <3> QED
      BY <2>4, <3>1, MembersValue
  <2> HIDE DEF m, full
  <2>6. PICK next \in Seq(FramesOf(A)) : next = stack'
    BY <2>3
  <2>7. next[d] \in FramesOf(A)
    BY <2>1, <2>3, <2>6
  <2>8. Contents(next[d], d) = Contents(frames[d], d) \o text
    <3>1. next[d] \in FramesOf(Alphabet) /\ frames[d] \in FramesOf(Alphabet)
      BY <1>1, <2>2, <2>7
    <3>2. next[d].kind = "object" /\ next[d].outer = frames[d].outer /\ next[d].members = full
      BY <2>1, <2>2, <2>3, <2>6
    <3>3. MembersText(next[d].members, d) = MembersText(frames[d].members, d) \o text
      BY <2>5, <3>2 DEF m
    <3>4. PICK f \in FramesOf(Alphabet), g \in FramesOf(Alphabet) : f = frames[d] /\ g = next[d]
      BY <3>1
    <3>5. /\ f.kind = "object" /\ g.kind = "object" /\ g.outer = f.outer
          /\ MembersText(g.members, d) = MembersText(f.members, d) \o text
      BY <2>2, <3>2, <3>3, <3>4
    <3>6. Contents(g, d) = Contents(f, d) \o text
      BY <3>5, ContentsLonger
    <3> QED
      BY <3>4, <3>6
  <2>9. Kept(next) = Kept(frames) \o text
    <3>1. next \in Seq(FramesOf(Alphabet)) /\ Len(next) = Len(frames)
      BY <1>1, <2>1, <2>3, <2>6
    <3>2. \A j \in 1..(Len(frames) - 1) : next[j] = frames[j]
      BY <2>1, <2>3, <2>6
    <3> QED
      BY <1>6, <2>1, <2>8, <3>1, <3>2, KeptLonger
  <2>10. Kept(next) \o <<>> = Laid(n)
    <3>1. Kept(next) \in Seq(A)
      BY <1>1, <2>9
    <3> QED
      BY <2>9, <3>1, ConcatEmptySeq
  <2>11. \A j \in 1..d : FrameAt(n, stack', j)
    <3>1. stack'[d].members # <<>>
      BY <2>3, <2>5
    <3> SUFFICES ASSUME NEW j \in 1..d PROVE FrameAt(n, stack', j)
      OBVIOUS
    <3>2. CASE j < d
      <4>1. stack'[j] = frames[j] /\ Waits(frames[j]) /\ j # Len(stack')
        BY <2>1, <2>3, <3>2
      <4> QED
        BY <4>1 DEF FrameAt, Waits
    <3>3. CASE j = d
      BY <1>4, <2>2, <2>3, <3>1, <3>3 DEF FrameAt
    <3> QED
      BY <2>1, <3>2, <3>3
  <2> QED
    BY <1>3, <1>4, <2>3, <2>6, <2>10, <2>11 DEF LaidAt
<1> QED
  BY <1>5, <1>6

-----------------------------------------------------------------------------
(***************************************************************************)
(* Every action keeps to the layout.                                       *)
(***************************************************************************)
\* What is written behind the same text is behind it however it is put together.
Same(S, k, o, l, g, b, t) ==
    /\ k \in Seq(S) /\ o \in Seq(S) /\ l \in Seq(S) /\ g \in Seq(S) /\ k \o o = l \o g
    /\ b \in Seq(S) /\ t \in Seq(S)

Regrouped(k, o, l, g, b, t) == k \o (o \o b \o t) = l \o ((g \o b) \o t)

\* Kept texts and output, and the layout and its gap, are extended alike.
LEMMA Regroup ==
    ASSUME NEW S, NEW k, NEW o, NEW l, NEW g, NEW b, NEW t, Same(S, k, o, l, g, b, t)
    PROVE  Regrouped(k, o, l, g, b, t)
<1>1. b \o t \in Seq(S)
  BY ConcatProperties DEF Same
<1>2. Texts(S, o, b, t)
  BY DEF Texts, Same
<1>3. Texts(S, g, b, t)
  BY DEF Texts, Same
<1>4. Texts(S, k, o, b \o t)
  BY <1>1 DEF Texts, Same
<1>5. Texts(S, l, g, b \o t)
  BY <1>1 DEF Texts, Same
<1>6. (o \o b) \o t = o \o (b \o t)
  BY <1>2, Bracket
<1>7. (g \o b) \o t = g \o (b \o t)
  BY <1>3, Bracket
<1>8. (k \o o) \o (b \o t) = k \o (o \o (b \o t))
  BY <1>4, Bracket
<1>9. (l \o g) \o (b \o t) = l \o (g \o (b \o t))
  BY <1>5, Bracket
<1>10. k \o o = l \o g
  BY DEF Same
<1> QED
  BY <1>6, <1>7, <1>8, <1>9, <1>10 DEF Regrouped

\* Two brackets, one after the other.
LEMMA Pair ==
    ASSUME NEW S, NEW x \in S, NEW y \in S
    PROVE  <<x>> \o <<y>> = <<x, y>>
<1>1. <<x>> \in Seq(S) /\ <<y>> \in Seq(S) /\ <<x, y>> \in Seq(S)
  OBVIOUS
<1>2. /\ <<x>> \o <<y>> \in Seq(S) /\ Len(<<x>> \o <<y>>) = 2
      /\ \A n \in 1..2 : (<<x>> \o <<y>>)[n] = <<x, y>>[n]
  BY <1>1, ConcatProperties
<1> QED
  BY <1>1, <1>2, SeqEqual

\* The texts of a state before an event, and the layout up to its end.
LEMMA NextLaid ==
    ASSUME EncoderTypeOK, Nested, LaidAt(i, stack, out), i < Len(doc), NEW A, A = Alphabet
    PROVE  /\ i \in 0..Len(doc) /\ i \in Nat /\ i + 1 \in Nat /\ i + 1 \in 1..Len(doc)
           /\ i + 1 > 0 /\ options \in OptionsType
           /\ Len(stack) \in Nat /\ stack \in Seq(FramesOf(A)) /\ out \in Seq(A)
           /\ Kept(stack) \in Seq(A) /\ Laid(i) \in Seq(A) /\ Laid(i + 1) \in Seq(A)
           /\ Before \in Seq(A) /\ Gap(i, Len(stack)) \in Seq(A)
           /\ Between(doc, i + 1) \in Seq(A) /\ Token(doc[i + 1]) \in Seq(A)
           /\ Kept(stack) \o out = Laid(i) \o Gap(i, Len(stack))
           /\ Laid(i + 1) = Laid(i) \o (Between(doc, i + 1) \o Token(doc[i + 1]))
<1>1. /\ i \in 0..Len(doc) /\ i \in Nat /\ i + 1 \in Nat /\ i + 1 \in 1..Len(doc)
      /\ i + 1 > 0 /\ options \in OptionsType
      /\ Len(stack) \in Nat /\ stack \in Seq(FramesOf(A)) /\ out \in Seq(A)
  BY NextEvent DEF EncoderTypeOK
<1>2. i + 1 \in 0..Len(doc)
  BY <1>1
<1>3. Kept(stack) \in Seq(A)
  BY <1>1, KeptType
<1>4. Laid(i) \in Seq(A) /\ Laid(i + 1) \in Seq(A)
  BY <1>1, <1>2, LaidType
<1>5. Gap(i, Len(stack)) \in Seq(A)
  <2>1. <<Colon, 32>> \in Seq(A) /\ <<>> \in Seq(A)
    <3>1. 58 \in A /\ 32 \in A
      BY DEF Alphabet, Byte
    <3>2. <<58, 32>> \in Seq(A)
      BY <3>1
    <3> QED
      BY <3>2 DEF Colon
  <2> QED
    BY <1>1, <2>1, SpaceType DEF Gap
<1>6. Between(doc, i + 1) \in Seq(A) /\ Token(doc[i + 1]) \in Seq(A) /\ Before \in Seq(A)
  BY <1>1, BetweenType, BeforeType
<1>7. Laid(i + 1) = Laid(i) \o (Between(doc, i + 1) \o Token(doc[i + 1]))
  BY <1>1, LaidStep
<1>8. Kept(stack) \o out = Laid(i) \o Gap(i, Len(stack))
  BY DEF LaidAt
<1> QED
  BY <1>1, <1>3, <1>4, <1>5, <1>6, <1>7, <1>8

\* The text up to an element or a value that is written whole.
LEMMA ValueLaid ==
    ASSUME EncoderTypeOK, Nested, LaidAt(i, stack, out), i < Len(doc),
           doc[i + 1].kind \in ScalarKinds \cup Starts
    PROVE  /\ Kept(Begun) = Kept(stack)
           /\ \A t \in Seq(Alphabet) :
                 Kept(stack) \o (out \o Before \o t) = Laid(i) \o (Between(doc, i + 1) \o t)
<1>1. PICK A : A = Alphabet
  OBVIOUS
<1>2. Kept(Begun) = Kept(stack)
  <2>1. stack \in Seq(FramesOf(A))
    BY <1>1, NextLaid
  <2>2. Len(Begun) = Len(stack)
        /\ \A j \in 1..Len(stack) : /\ Begun[j].kind = stack[j].kind
                                    /\ Begun[j].members = stack[j].members
                                    /\ Begun[j].outer = stack[j].outer
    BY <2>1, BegunFacts
  <2> QED
    BY <2>2, KeptSame
<1>3. ASSUME NEW t \in Seq(A)
      PROVE  Kept(stack) \o (out \o Before \o t)
               = Laid(i) \o ((Gap(i, Len(stack)) \o Before) \o t)
  <2>1. Same(A, Kept(stack), out, Laid(i), Gap(i, Len(stack)), Before, t)
    BY <1>1, NextLaid DEF Same
  <2>2. Regrouped(Kept(stack), out, Laid(i), Gap(i, Len(stack)), Before, t)
    BY <2>1, Regroup
  <2> QED
    BY <2>2 DEF Regrouped
<1>4. Gap(i, Len(stack)) \o Before = Between(doc, i + 1)
  BY GapBefore
<1> QED
  BY <1>1, <1>2, <1>3, <1>4

\* A scalar adds its separator and its token to the layout.
LEMMA ScalarLaid ==
    ASSUME EncoderTypeOK, Nested, LaidAt(i, stack, out), Scalar
    PROVE  LaidAt(i', stack', out')
<1>1. /\ i < Len(doc) /\ doc[i + 1].kind \in ScalarKinds /\ i' = i + 1
      /\ Written(Begun, out \o Before \o Token(doc[i + 1]))
  BY DEF Scalar, Due
<1>2. PICK A : A = Alphabet
  OBVIOUS
<1>3. /\ i + 1 \in Nat /\ stack \in Seq(FramesOf(A)) /\ options \in OptionsType
      /\ Laid(i + 1) \in Seq(A) /\ Token(doc[i + 1]) \in Seq(A)
      /\ out \in Seq(A) /\ Before \in Seq(A)
      /\ Laid(i + 1) = Laid(i) \o (Between(doc, i + 1) \o Token(doc[i + 1]))
  BY <1>1, <1>2, NextLaid
<1>4. PICK text \in Seq(A) : text = out \o Before \o Token(doc[i + 1])
  <2>1. PICK a \in Seq(A), b \in Seq(A), t \in Seq(A) :
           a = out /\ b = Before /\ t = Token(doc[i + 1])
    BY <1>3
  <2>2. a \o b \o t \in Seq(A)
    OBVIOUS
  <2> QED
    BY <2>1, <2>2
<1>5. PICK frames \in Seq(FramesOf(A)) : frames = Begun /\ Len(frames) = Len(stack)
  BY <1>3, BegunFacts
<1>6. Kept(frames) \o text = Laid(i + 1)
  BY <1>1, <1>2, <1>3, <1>4, <1>5, ValueLaid
<1>7. \A j \in 1..Len(frames) : Waits(frames[j])
  BY <1>1, <1>5, BegunWaits
<1>8. doc[i + 1].kind \notin Starts \cup KeyKinds
  BY <1>1, KindsApart
<1>9. Written(frames, text)
  BY <1>1, <1>4, <1>5
<1> QED
  BY <1>1, <1>2, <1>3, <1>6, <1>7, <1>8, <1>9, WrittenLaid

\* An empty array is two events of the layout, with nothing in between.
LEMMA EmptyArrayLaid ==
    ASSUME EncoderTypeOK, Nested, LaidAt(i, stack, out), EmptyArray
    PROVE  LaidAt(i', stack', out')
<1>1. /\ i < Len(doc) /\ doc[i + 1].kind = ArrayStart /\ i' = i + 2 /\ doc[i + 2].kind = ArrayEnd
      /\ Written(Begun, out \o Before \o <<LBracket, RBracket>>)
  BY DEF EmptyArray, Due
<1>2. PICK A : A = Alphabet
  OBVIOUS
<1>3. doc[i + 1].kind \in Starts /\ doc[i + 2].kind \in Ends
  BY <1>1 DEF Starts, Ends
<1>4. /\ i \in Nat /\ stack \in Seq(FramesOf(A)) /\ options \in OptionsType
      /\ Laid(i) \in Seq(A) /\ Between(doc, i + 1) \in Seq(A) /\ Token(doc[i + 1]) \in Seq(A)
      /\ out \in Seq(A) /\ Before \in Seq(A) /\ Laid(i + 1) \in Seq(A)
      /\ Laid(i + 1) = Laid(i) \o (Between(doc, i + 1) \o Token(doc[i + 1]))
  BY <1>1, <1>2, NextLaid
<1>5. PICK n \in 0..Len(doc) : n = i + 1 /\ n + 1 = i + 2 /\ n + 1 \in 1..Len(doc) /\ n \in Nat /\ n > 0
  <2>1. i + 1 < Len(doc)
    BY <1>1, <1>3, MoreEvents
  <2>2. Len(doc) \in Nat
    <3>1. PICK T : doc \in Seq(T)
      BY Zenon DEF EncoderTypeOK, Traversal
    <3> QED
      BY <3>1
  <2>3. i + 1 \in 0..Len(doc) /\ (i + 1) + 1 = i + 2 /\ i + 2 \in 1..Len(doc)
    BY <1>4, <2>1, <2>2
  <2> QED
    BY <1>4, <2>3
<1>6. Token(doc[n]) = <<LBracket>> /\ Token(doc[n + 1]) = <<RBracket>>
  BY <1>1, <1>5, KindsDiffer DEF Token
<1>7. Between(doc, n + 1) = <<>>
  <2>1. doc[n].kind \in Starts /\ doc[n].kind \notin KeyKinds /\ doc[n + 1].kind \in Ends
    BY <1>3, <1>5, KindsApart
  <2>2. (n + 1) - 1 = n /\ n + 1 > 1
    BY <1>5
  <2> QED
    BY <2>1, <2>2 DEF Between
<1>8. PICK x \in Seq(A), y \in Seq(A) : x = <<LBracket>> /\ y = <<RBracket>> /\ x \o y = <<LBracket, RBracket>>
  <2>1. 91 \in A /\ 93 \in A
    BY <1>2 DEF Alphabet, Byte
  <2>2. <<91>> \in Seq(A) /\ <<93>> \in Seq(A)
    BY <2>1
  <2>3. <<91>> \o <<93>> = <<91, 93>>
    BY <2>1, Pair
  <2> QED
    BY <2>2, <2>3 DEF LBracket, RBracket
<1>9. PICK b \in Seq(A), l \in Seq(A) : b = Between(doc, i + 1) /\ l = Laid(i)
  BY <1>4
<1>10. Laid(n + 1) = Laid(n) \o (<<>> \o y)
  BY <1>5, <1>6, <1>7, <1>8, LaidStep
<1>11. Laid(n) = l \o (b \o x)
  BY <1>4, <1>5, <1>6, <1>8, <1>9
<1>12. Laid(n + 1) = l \o (b \o (x \o y)) /\ Laid(n + 1) \in Seq(A)
  <2>1. <<>> \o y = y
    BY ConcatEmptySeq
  <2>2. (l \o (b \o x)) \o y = l \o ((b \o x) \o y) /\ (b \o x) \o y = b \o (x \o y)
    <3>1. b \o x \in Seq(A)
      BY ConcatProperties
    <3>2. Texts(A, l, b \o x, y) /\ Texts(A, b, x, y)
      BY <3>1 DEF Texts
    <3> QED
      BY <3>2, Bracket, SMTT(30)
  <2>3. l \o (b \o (x \o y)) \in Seq(A)
    OBVIOUS
  <2> QED
    BY <1>10, <1>11, <2>1, <2>2, <2>3
<1>13. PICK text \in Seq(A) : text = out \o Before \o (x \o y)
  <2>1. PICK a \in Seq(A), c \in Seq(A) : a = out /\ c = Before
    BY <1>4
  <2>2. a \o c \o (x \o y) \in Seq(A)
    OBVIOUS
  <2> QED
    BY <2>1, <2>2
<1>14. PICK frames \in Seq(FramesOf(A)) : frames = Begun /\ Len(frames) = Len(stack)
  BY <1>4, BegunFacts
<1>15. Kept(frames) \o text = Laid(n + 1)
  <2>1. PICK t \in Seq(A) : t = x \o y
    BY ConcatProperties
  <2>2. Kept(stack) \o (out \o Before \o t) = Laid(i) \o (Between(doc, i + 1) \o t)
        /\ Kept(Begun) = Kept(stack)
    BY <1>1, <1>2, <1>3, ValueLaid
  <2> QED
    BY <1>9, <1>12, <1>13, <1>14, <2>1, <2>2
<1>16. \A j \in 1..Len(frames) : Waits(frames[j])
  BY <1>1, <1>3, <1>14, BegunWaits
<1>17. doc[n + 1].kind \notin Starts \cup KeyKinds /\ n + 1 \in Nat
  BY <1>3, <1>5, KindsApart
<1>18. Written(frames, text)
  BY <1>1, <1>8, <1>13, <1>14
<1>19. LaidAt(n + 1, stack', out')
  BY <1>2, <1>4, <1>12, <1>15, <1>16, <1>17, <1>18, WrittenLaid
<1> QED
  BY <1>1, <1>5, <1>19

\* A container that begins is the innermost, and those around it wait.
Begins(S, frames, kind, outer, next, n) ==
    /\ frames \in Seq(FramesOf(S)) /\ \A j \in 1..Len(frames) : Waits(frames[j])
    /\ kind \in Container /\ outer \in Seq(S)
    /\ next = Append(frames, Frame(kind, outer))
    /\ doc[n].kind = IF kind = "object" THEN ObjectStart ELSE ArrayStart

\* A container begun: its frame is behind the others, which stay what they are.
LEMMA BegunFrames ==
    ASSUME NEW S, NEW frames, NEW kind, NEW outer, NEW next, NEW n,
           Begins(S, frames, kind, outer, next, n)
    PROVE  /\ next \in Seq(FramesOf(S)) /\ Len(next) = Len(frames) + 1 /\ Len(frames) \in Nat
           /\ \A j \in 1..Len(frames) : next[j] = frames[j]
           /\ next[Len(frames) + 1] = Frame(kind, outer) /\ Frame(kind, outer).kind = kind
           /\ next # <<>> /\ Last(next) = Frame(kind, outer)
           /\ \A j \in 1..Len(next) : FrameAt(n, next, j)
<1> USE DEF Begins
<1>1. PICK frame \in FramesOf(S) :
         /\ frame = Frame(kind, outer) /\ frame.kind = kind /\ frame.first = TRUE
         /\ frame.members = <<>>
  <2>1. PICK M : M = MembersOf(S)
    OBVIOUS
  <2>2. <<>> \in M
    BY <2>1 DEF MembersOf
  <2>3. Frame(kind, outer) \in [kind : Container, first : BOOLEAN, members : M, outer : Seq(S)]
    BY <2>2 DEF Frame
  <2>4. /\ Frame(kind, outer).kind = kind /\ Frame(kind, outer).first = TRUE
        /\ Frame(kind, outer).members = <<>>
    BY DEF Frame
  <2> QED
    BY <2>1, <2>3, <2>4 DEF FramesOf
<1> HIDE DEF Frame
<1>2. PICK d \in Nat : d = Len(frames) /\ d + 1 \in 1..(d + 1)
  OBVIOUS
<1>3. /\ next \in Seq(FramesOf(S)) /\ Len(next) = d + 1
      /\ \A j \in 1..d : next[j] = frames[j]
      /\ next[d + 1] = frame
  BY <1>1, <1>2
<1>4. next # <<>> /\ Last(next) = frame
  BY <1>2, <1>3 DEF Last
<1>5. \A j \in 1..Len(next) : FrameAt(n, next, j)
  <2> SUFFICES ASSUME NEW j \in 1..Len(next) PROVE FrameAt(n, next, j)
    OBVIOUS
  <2>1. CASE j \in 1..d
    <3>1. next[j] = frames[j] /\ Waits(frames[j]) /\ j # Len(next)
      BY <1>2, <1>3, <2>1
    <3> QED
      BY <3>1 DEF FrameAt, Waits
  <2>2. CASE j = d + 1
    <3>1. next[j] = frame /\ j = Len(next)
      BY <1>3, <2>2
    <3>2. CASE kind = "object"
      <4>1. doc[n].kind = ObjectStart /\ doc[n].kind \notin KeyKinds
        BY <3>2, KindsApart DEF Starts
      <4> QED
        BY <1>1, <3>1, <3>2, <4>1 DEF FrameAt
    <3>3. CASE kind = "array"
      BY <1>1, <3>1, <3>3 DEF FrameAt
    <3> QED
      BY <3>2, <3>3 DEF Container
  <2> QED
    BY <1>2, <1>3, <2>1, <2>2
<1> QED
  BY <1>1, <1>2, <1>3, <1>4, <1>5

\* The beginning of an array writes the gap before its first element as well.
LEMMA OpenArrayLaid ==
    ASSUME EncoderTypeOK, Nested, LaidAt(i, stack, out), OpenArray
    PROVE  LaidAt(i', stack', out')
<1>1. /\ i < Len(doc) /\ doc[i + 1].kind = ArrayStart /\ i' = i + 1 /\ doc[i + 2].kind # ArrayEnd
      /\ stack' = Append(Begun, Frame("array", <<>>))
      /\ out' = out \o Before \o <<LBracket>> \o NewlineIfPretty(Len(stack) + 1)
  BY DEF OpenArray, Due
<1>2. PICK A : A = Alphabet
  OBVIOUS
<1>3. doc[i + 1].kind \in Starts
  BY <1>1 DEF Starts
<1>4. /\ i \in Nat /\ stack \in Seq(FramesOf(A)) /\ options \in OptionsType /\ Len(stack) \in Nat
      /\ out \in Seq(A) /\ Before \in Seq(A) /\ Token(doc[i + 1]) \in Seq(A)
      /\ Kept(stack) \in Seq(A)
      /\ Laid(i + 1) = Laid(i) \o (Between(doc, i + 1) \o Token(doc[i + 1]))
  BY <1>1, <1>2, NextLaid
<1>5. Token(doc[i + 1]) = <<LBracket>>
  BY <1>1, KindsDiffer DEF Token
<1>6. PICK v \in Seq(A) : v = out \o Before \o <<LBracket>>
  <2>1. PICK a \in Seq(A), b \in Seq(A), t \in Seq(A) :
           a = out /\ b = Before /\ t = <<LBracket>>
    BY <1>4, <1>5
  <2>2. a \o b \o t \in Seq(A)
    OBVIOUS
  <2> QED
    BY <2>1, <2>2
<1>7. PICK frames \in Seq(FramesOf(A)) : frames = Begun /\ Len(frames) = Len(stack)
  BY <1>4, BegunFacts
<1>8. \A j \in 1..Len(frames) : Waits(frames[j])
  BY <1>1, <1>3, <1>7, BegunWaits
<1>9. PICK next : next = stack'
  OBVIOUS
<1>10. PICK kind \in Container : kind = "array"
  BY DEF Container
<1>11. /\ next \in Seq(FramesOf(A)) /\ Len(next) = Len(frames) + 1
       /\ \A j \in 1..Len(frames) : next[j] = frames[j]
       /\ next[Len(frames) + 1] = Frame(kind, <<>>) /\ Frame(kind, <<>>).kind = kind
       /\ next # <<>> /\ Last(next) = Frame(kind, <<>>)
       /\ \A j \in 1..Len(next) : FrameAt(i + 1, next, j)
  <2>1. next = Append(frames, Frame(kind, <<>>))
    BY <1>1, <1>7, <1>9, <1>10
  <2>2. doc[i + 1].kind = IF kind = "object" THEN ObjectStart ELSE ArrayStart
    BY <1>1, <1>10
  <2>3. Begins(A, frames, kind, <<>>, next, i + 1)
    BY <1>8, <2>1, <2>2 DEF Begins
  <2> QED
    BY <2>3, BegunFrames
<1>12. Kept(next) = Kept(stack)
  <2>1. Contents(next[Len(next)], Len(next)) = <<>>
    BY <1>10, <1>11 DEF Contents
  <2>2. next \in Seq(FramesOf(Alphabet)) /\ frames \in Seq(FramesOf(Alphabet))
    BY <1>2, <1>11
  <2>3. Kept(next) = Kept(frames) \o <<>>
    BY <1>4, <1>11, <2>1, <2>2, KeptLast
  <2>4. Kept(frames) = Kept(stack)
    BY <1>1, <1>3, <1>7, ValueLaid
  <2>5. PICK k \in Seq(A) : k = Kept(stack)
    BY <1>4
  <2>6. k \o <<>> = k
    BY ConcatEmptySeq
  <2> QED
    BY <2>3, <2>4, <2>5, <2>6
<1>13. Kept(stack) \o v = Laid(i + 1)
  BY <1>1, <1>2, <1>3, <1>4, <1>5, <1>6, ValueLaid
<1>14. NewlineIfPretty(Len(next)) \in Seq(A) /\ Len(next) = Len(stack) + 1
  <2>1. Len(next) \in Nat /\ Len(next) = Len(stack) + 1
    BY <1>4, <1>7, <1>11
  <2> QED
    BY <1>2, <1>4, <2>1, SpaceType
<1>15. out' = v \o NewlineIfPretty(Len(next))
  BY <1>1, <1>6, <1>14
<1>16. Kept(next) \o out' = Laid(i + 1) \o NewlineIfPretty(Len(next))
  <2>1. Texts(A, Kept(stack), v, NewlineIfPretty(Len(next)))
    BY <1>4, <1>14 DEF Texts
  <2>2. (Kept(stack) \o v) \o NewlineIfPretty(Len(next))
          = Kept(stack) \o (v \o NewlineIfPretty(Len(next)))
    BY <2>1, Bracket
  <2> QED
    BY <1>12, <1>13, <1>15, <2>2
<1>17. Gap(i + 1, Len(next)) = NewlineIfPretty(Len(next))
  <2>1. i + 1 # 0
    BY <1>4
  <2> QED
    BY <1>1, <2>1 DEF Gap
<1>18. (i + 1) + 1 = i + 2
  BY <1>4
<1>19. Last(next).kind # "object"
  BY <1>10, <1>11
<1>20. LaidAt(i + 1, next, out')
  BY <1>1, <1>11, <1>16, <1>17, <1>18, <1>19 DEF LaidAt
<1> QED
  BY <1>1, <1>9, <1>20

\* The beginning of an object keeps what is written, and the gap is not written yet.
LEMMA OpenObjectLaid ==
    ASSUME EncoderTypeOK, Nested, LaidAt(i, stack, out), OpenObject
    PROVE  LaidAt(i', stack', out')
<1>1. /\ i < Len(doc) /\ doc[i + 1].kind = ObjectStart /\ i' = i + 1
      /\ stack' = Append(Begun, Frame("object", out \o Before))
      /\ out' = <<>>
  BY DEF OpenObject, Due
<1>2. PICK A : A = Alphabet
  OBVIOUS
<1>3. doc[i + 1].kind \in Starts
  BY <1>1 DEF Starts
<1>4. /\ i \in Nat /\ stack \in Seq(FramesOf(A)) /\ options \in OptionsType /\ Len(stack) \in Nat
      /\ out \in Seq(A) /\ Before \in Seq(A) /\ Token(doc[i + 1]) \in Seq(A)
      /\ Kept(stack) \in Seq(A) /\ Laid(i + 1) \in Seq(A)
      /\ Laid(i + 1) = Laid(i) \o (Between(doc, i + 1) \o Token(doc[i + 1]))
  BY <1>1, <1>2, NextLaid
<1>5. Token(doc[i + 1]) = <<LBrace>>
  BY <1>1, KindsDiffer DEF Token
<1>6. PICK outer \in Seq(A) : outer = out \o Before
  <2>1. PICK a \in Seq(A), b \in Seq(A) : a = out /\ b = Before
    BY <1>4
  <2>2. a \o b \in Seq(A)
    OBVIOUS
  <2> QED
    BY <2>1, <2>2
<1>7. PICK frames \in Seq(FramesOf(A)) : frames = Begun /\ Len(frames) = Len(stack)
  BY <1>4, BegunFacts
<1>8. \A j \in 1..Len(frames) : Waits(frames[j])
  BY <1>1, <1>3, <1>7, BegunWaits
<1>9. PICK next : next = stack'
  OBVIOUS
<1>10. PICK kind \in Container : kind = "object"
  BY DEF Container
<1>11. /\ next \in Seq(FramesOf(A)) /\ Len(next) = Len(frames) + 1
       /\ \A j \in 1..Len(frames) : next[j] = frames[j]
       /\ next[Len(frames) + 1] = Frame(kind, outer)
       /\ \A j \in 1..Len(next) : FrameAt(i + 1, next, j)
  <2>1. next = Append(frames, Frame(kind, outer))
    BY <1>1, <1>6, <1>7, <1>9, <1>10
  <2>2. doc[i + 1].kind = IF kind = "object" THEN ObjectStart ELSE ArrayStart
    BY <1>1, <1>10
  <2>3. Begins(A, frames, kind, outer, next, i + 1)
    BY <1>8, <2>1, <2>2 DEF Begins
  <2> QED
    BY <2>3, BegunFrames
<1>12. Contents(next[Len(next)], Len(next)) = outer \o <<LBrace>>
  <2>1. /\ Frame(kind, outer).kind = "object" /\ Frame(kind, outer).outer = outer
        /\ Frame(kind, outer).members = <<>>
    BY <1>10 DEF Frame
  <2>2. Contents(next[Len(next)], Len(next)) = outer \o <<LBrace>> \o <<>>
    BY <1>11, <2>1 DEF Contents, MembersText
  <2>3. outer \o <<LBrace>> \in Seq(A)
    BY <1>4, <1>5, ConcatProperties
  <2> QED
    BY <2>2, <2>3, ConcatEmptySeq
<1>13. Kept(next) = Laid(i + 1)
  <2>1. next \in Seq(FramesOf(Alphabet)) /\ frames \in Seq(FramesOf(Alphabet))
    BY <1>2, <1>11
  <2>2. Kept(next) = Kept(frames) \o (outer \o <<LBrace>>)
    BY <1>4, <1>11, <1>12, <2>1, KeptLast
  <2>3. Kept(frames) = Kept(stack)
    BY <1>1, <1>3, <1>7, ValueLaid
  <2>4. Kept(stack) \o (out \o Before \o Token(doc[i + 1]))
          = Laid(i) \o (Between(doc, i + 1) \o Token(doc[i + 1]))
    BY <1>1, <1>2, <1>3, <1>4, ValueLaid
  <2> QED
    BY <1>4, <1>5, <1>6, <2>2, <2>3, <2>4
<1>14. Gap(i + 1, Len(next)) = <<>>
  <2>1. doc[i + 1].kind # ArrayStart /\ doc[i + 1].kind \notin KeyKinds
    BY <1>1, <1>3, KindsApart, KindsDiffer
  <2> QED
    BY <2>1 DEF Gap
<1>15. doc[i + 1].kind # ArrayStart
  BY <1>1, KindsDiffer
<1>16. LaidAt(i + 1, next, out')
  BY <1>1, <1>11, <1>13, <1>14, <1>15 DEF LaidAt
<1> QED
  BY <1>1, <1>9, <1>16

\* A key is kept as a member without a value: so the layout ends with its colon.
LEMMA KeyLaid ==
    ASSUME EncoderTypeOK, Nested, LaidAt(i, stack, out), Key
    PROVE  LaidAt(i', stack', out')
<1> DEFINE member == [token |-> Token(doc[i + 1]), value |-> <<>>]
<1>1. /\ i < Len(doc) /\ doc[i + 1].kind \in KeyKinds /\ i' = i + 1
      /\ stack' = [stack EXCEPT ![Len(stack)].members = Append(@, member)] /\ out' = <<>>
  BY DEF Key, Due
<1>2. PICK A : A = Alphabet
  OBVIOUS
<1>3. /\ i \in Nat /\ Len(stack) \in Nat /\ stack \in Seq(FramesOf(A)) /\ options \in OptionsType
      /\ out \in Seq(A) /\ Token(doc[i + 1]) \in Seq(A) /\ Between(doc, i + 1) \in Seq(A)
      /\ Kept(stack) \in Seq(A) /\ Laid(i) \in Seq(A) /\ Laid(i + 1) \in Seq(A)
      /\ Kept(stack) \o out = Laid(i) \o Gap(i, Len(stack))
      /\ Laid(i + 1) = Laid(i) \o (Between(doc, i + 1) \o Token(doc[i + 1]))
  BY <1>1, <1>2, NextLaid
<1>4. /\ Gap(i, Len(stack)) = <<>> /\ stack # <<>> /\ Inside("object")
      /\ Between(doc, i + 1) = IF doc[i].kind = ObjectStart THEN NewlineIfPretty(Len(stack))
                               ELSE ItemSeparator(Len(stack))
  BY <1>1, GapInside, NextEvent
<1>5. PICK d \in Nat : d = Len(stack) /\ d \in 1..Len(stack) /\ stack[d] \in FramesOf(A)
                       /\ Last(stack) = stack[d]
  BY <1>2, <1>3, <1>4, OutsideFacts
<1>6. stack[d].kind = "object"
  BY <1>4, <1>5 DEF Inside
<1>7. out = <<>>
  BY <1>4 DEF LaidAt, Inside
<1>8. Kept(stack) = Laid(i)
  <2>1. PICK k \in Seq(A), l \in Seq(A) : k = Kept(stack) /\ l = Laid(i)
    BY <1>3
  <2>2. k \o <<>> = k /\ l \o <<>> = l
    BY ConcatEmptySeq
  <2> QED
    BY <1>3, <1>4, <1>7, <2>1, <2>2
<1>9. FrameAt(i, stack, d)
  BY <1>5 DEF LaidAt
<1>10. stack[d].members = <<>> <=> doc[i].kind = ObjectStart
  BY <1>5, <1>6, <1>9 DEF FrameAt
<1> DEFINE R == [token : Seq(A), value : Seq(A)]
           members == stack[d].members
           more == Append(members, member)
           frame == [stack[d] EXCEPT !.members = more]
<1>11. member \in R /\ member.value = <<>> /\ member.token = Token(doc[i + 1])
  BY <1>3
<1>12. members \in Seq(R)
  BY <1>5 DEF FramesOf, MembersOf
<1>13. stack' = [stack EXCEPT ![d] = frame]
  BY <1>1, <1>5
<1> HIDE DEF member, R, members
<1>14. /\ more \in Seq(R) /\ Len(more) = Len(members) + 1 /\ more # <<>>
       /\ \A k \in 1..Len(members) : more[k] = members[k]
       /\ more[Len(more)] = member /\ Last(more) = member
  BY <1>11, <1>12 DEF Last
<1> HIDE DEF more
<1>15. members \in MembersOf(A) /\ more \in MembersOf(A)
  BY <1>12, <1>14 DEF MembersOf, R
<1>16. /\ frame \in FramesOf(A) /\ frame.kind = "object" /\ frame.members = more
       /\ frame.outer = stack[d].outer
  BY <1>5, <1>6, <1>15 DEF FramesOf
<1> HIDE DEF frame
<1>17. PICK next \in Seq(FramesOf(A)) :
          /\ next = stack' /\ Len(next) = d
          /\ \A j \in 1..d : next[j] = IF j = d THEN frame ELSE stack[j]
  <2>1. /\ stack' \in Seq(FramesOf(A)) /\ Len(stack') = Len(stack)
        /\ \A j \in 1..Len(stack) : stack'[j] = IF j = d THEN frame ELSE stack[j]
    BY <1>3, <1>5, <1>13, <1>16, ExceptSeq
  <2> QED
    BY <1>5, <2>1
<1> DEFINE key == Between(doc, i + 1) \o (Token(doc[i + 1]) \o <<Colon, 32>>)
<1>18. <<Colon, 32>> \in Seq(A)
  <2>1. 58 \in A /\ 32 \in A
    BY <1>2 DEF Alphabet, Byte
  <2>2. <<58, 32>> \in Seq(A)
    BY <2>1
  <2> QED
    BY <2>2 DEF Colon
<1>19. key \in Seq(A)
  <2>1. PICK x \in Seq(A), y \in Seq(A), z \in Seq(A) :
           x = Between(doc, i + 1) /\ y = Token(doc[i + 1]) /\ z = <<Colon, 32>>
    BY <1>3, <1>18
  <2>2. x \o (y \o z) \in Seq(A)
    OBVIOUS
  <2> QED
    BY <2>1, <2>2
<1>20. MembersText(more, d) = MembersText(members, d) \o key
  <2>1. members \in MembersOf(Alphabet) /\ more \in MembersOf(Alphabet)
        /\ more[Len(more)].value = <<>>
    BY <1>2, <1>11, <1>14, <1>15
  <2>2. MembersText(more, d) =
           MembersText(members, d)
             \o ((IF members = <<>> THEN NewlineIfPretty(d) ELSE ItemSeparator(d))
                   \o (more[Len(more)].token \o <<Colon, 32>>))
    BY <1>3, <1>14, <2>1, MembersAppend
  <2>3. (IF members = <<>> THEN NewlineIfPretty(d) ELSE ItemSeparator(d)) = Between(doc, i + 1)
    BY <1>4, <1>5, <1>10 DEF members
  <2>4. more[Len(more)].token = Token(doc[i + 1])
    BY <1>11, <1>14
  <2> QED
    BY <2>2, <2>3, <2>4
<1> HIDE DEF key
<1>21. Contents(next[d], d) = Contents(stack[d], d) \o key
  <2>1. PICK f \in FramesOf(Alphabet), g \in FramesOf(Alphabet) : f = stack[d] /\ g = frame
    BY <1>2, <1>5, <1>16
  <2>2. /\ f.kind = "object" /\ g.kind = "object" /\ g.outer = f.outer
        /\ MembersText(g.members, d) = MembersText(f.members, d) \o key
    BY <1>6, <1>16, <1>20, <2>1 DEF members
  <2>3. key \in Seq(Alphabet)
    BY <1>2, <1>19
  <2>4. Contents(g, d) = Contents(f, d) \o key
    BY <1>3, <2>2, <2>3, ContentsLonger
  <2> QED
    BY <1>5, <1>17, <2>1, <2>4
<1>22. Kept(next) = Kept(stack) \o key
  <2>1. PICK frames \in Seq(FramesOf(Alphabet)) : frames = stack
    BY <1>2, <1>3
  <2>2. next \in Seq(FramesOf(Alphabet)) /\ Len(next) = Len(frames) /\ frames # <<>>
    BY <1>2, <1>4, <1>5, <1>17, <2>1
  <2>3. \A j \in 1..(Len(frames) - 1) : next[j] = frames[j]
    BY <1>5, <1>17, <2>1
  <2>4. key \in Seq(Alphabet)
    BY <1>2, <1>19
  <2>5. Contents(next[Len(frames)], Len(frames))
          = Contents(frames[Len(frames)], Len(frames)) \o key
    BY <1>5, <1>21, <2>1
  <2>6. Kept(next) = Kept(frames) \o key
    BY <1>3, <2>2, <2>3, <2>4, <2>5, KeptLonger
  <2> QED
    BY <2>1, <2>6
<1>23. Kept(next) \o <<>> = Laid(i + 1) \o <<Colon, 32>>
  <2>1. PICK u \in Seq(A) : u = Between(doc, i + 1) \o Token(doc[i + 1])
    <3>1. PICK x \in Seq(A), y \in Seq(A) : x = Between(doc, i + 1) /\ y = Token(doc[i + 1])
      BY <1>3
    <3>2. x \o y \in Seq(A)
      OBVIOUS
    <3> QED
      BY <3>1, <3>2
  <2>2. Texts(A, Between(doc, i + 1), Token(doc[i + 1]), <<Colon, 32>>)
    BY <1>3, <1>18 DEF Texts
  <2>3. u \o <<Colon, 32>> = key
    BY <2>1, <2>2, Bracket DEF key
  <2>4. Texts(A, Laid(i), u, <<Colon, 32>>)
    BY <1>3, <1>18 DEF Texts
  <2>5. (Laid(i) \o u) \o <<Colon, 32>> = Laid(i) \o (u \o <<Colon, 32>>)
    BY <2>4, Bracket
  <2>6. Kept(next) = Laid(i + 1) \o <<Colon, 32>>
    BY <1>3, <1>8, <1>22, <2>1, <2>3, <2>5
  <2>7. next \in Seq(FramesOf(Alphabet))
    BY <1>2
  <2>8. Kept(next) \in Seq(Alphabet)
    BY <1>3, <2>7, KeptType
  <2>9. Kept(next) \o <<>> = Kept(next)
    BY <2>8, ConcatEmptySeq
  <2> QED
    BY <2>6, <2>9
<1>24. /\ doc[i + 1].kind # ArrayStart /\ doc[i + 1].kind # ObjectStart /\ i + 1 # 0
  BY <1>1, <1>3, KindsApart DEF Starts
<1>25. Gap(i + 1, Len(next)) = <<Colon, 32>>
  BY <1>1, <1>24 DEF Gap
<1>26. \A j \in 1..Len(next) : FrameAt(i + 1, next, j)
  <2> SUFFICES ASSUME NEW j \in 1..Len(next) PROVE FrameAt(i + 1, next, j)
    OBVIOUS
  <2>1. CASE j = d
    <3>1. next[j] = frame
      BY <1>17, <2>1
    <3>2. frame.members # <<>> /\ Last(frame.members).value = <<>>
      BY <1>11, <1>14, <1>16
    <3> QED
      BY <1>16, <1>24, <3>1, <3>2 DEF FrameAt
  <2>2. CASE j # d
    <3>1. next[j] = stack[j] /\ j < Len(stack) /\ j \in 1..Len(stack) /\ j # Len(next)
          /\ Len(stack) \in Nat
      BY <1>5, <1>17, <2>2
    <3>2. Waits(stack[j])
      BY <3>1, OutsideWaits
    <3> QED
      BY <3>1, <3>2 DEF FrameAt, Waits
  <2> QED
    BY <2>1, <2>2
<1>27. LaidAt(i + 1, next, <<>>)
  BY <1>23, <1>24, <1>25, <1>26 DEF LaidAt
<1> QED
  BY <1>1, <1>17, <1>27

\* An array ends.
LEMMA CloseArrayLaid ==
    ASSUME EncoderTypeOK, Nested, LaidAt(i, stack, out), CloseArray
    PROVE  LaidAt(i', stack', out')
<1>1. /\ i < Len(doc) /\ doc[i + 1].kind = ArrayEnd /\ i' = i + 1
      /\ Written(Outside, out \o NewlineIfPretty(Len(stack) - 1) \o <<RBracket>>)
  BY DEF CloseArray, Due
<1>2. PICK A : A = Alphabet
  OBVIOUS
<1>3. /\ i \in Nat /\ i + 1 \in Nat /\ stack \in Seq(FramesOf(A)) /\ options \in OptionsType
      /\ out \in Seq(A) /\ Token(doc[i + 1]) \in Seq(A) /\ Between(doc, i + 1) \in Seq(A)
      /\ Kept(stack) \in Seq(A) /\ Laid(i) \in Seq(A) /\ Laid(i + 1) \in Seq(A)
      /\ Kept(stack) \o out = Laid(i) \o Gap(i, Len(stack))
      /\ Laid(i + 1) = Laid(i) \o (Between(doc, i + 1) \o Token(doc[i + 1]))
  BY <1>1, <1>2, NextLaid
<1>4. doc[i + 1].kind \in Ends /\ doc[i + 1].kind \notin Starts \cup KeyKinds
  BY <1>1, KindsApart DEF Ends
<1>5. /\ Gap(i, Len(stack)) = <<>> /\ stack # <<>> /\ Inside("array")
      /\ Between(doc, i + 1) = NewlineIfPretty(Len(stack) - 1)
  BY <1>1, <1>4, GapInside, NextEvent
<1>6. Token(doc[i + 1]) = <<RBracket>>
  BY <1>1, KindsDiffer DEF Token
<1>7. PICK init \in Seq(FramesOf(A)) :
         /\ init = Outside /\ Len(init) = Len(stack) - 1 /\ Len(init) \in Nat
         /\ \A j \in 1..Len(init) : init[j] = stack[j]
  BY <1>3, <1>5, OutsideFacts
<1>8. Kept(stack) = Kept(init)
  <2>1. Last(stack).kind = "array"
    BY <1>5 DEF Inside
  <2>2. stack[Len(stack)].kind = "array"
    BY <2>1 DEF Last
  <2>3. Contents(stack[Len(stack)], Len(stack)) = <<>>
    BY <2>2 DEF Contents
  <2>4. PICK frames \in Seq(FramesOf(Alphabet)) : frames = stack
    BY <1>2, <1>3
  <2>5. init \in Seq(FramesOf(Alphabet)) /\ frames # <<>>
    BY <1>2, <1>5, <2>4
  <2>6. Kept(frames) = Kept(init) \o <<>>
    BY <1>3, <1>7, <2>3, <2>4, <2>5, KeptSplit
  <2>7. Kept(init) \in Seq(Alphabet)
    BY <1>3, <2>5, KeptType
  <2>8. Kept(init) \o <<>> = Kept(init)
    BY <2>7, ConcatEmptySeq
  <2> QED
    BY <2>4, <2>6, <2>8
<1>9. Kept(init) \o out = Laid(i)
  <2>1. Laid(i) \o <<>> = Laid(i)
    BY <1>3, ConcatEmptySeq
  <2> QED
    BY <1>3, <1>5, <1>8, <2>1
<1>10. PICK text \in Seq(A) : text = out \o (Between(doc, i + 1) \o Token(doc[i + 1]))
  <2>1. PICK x \in Seq(A), y \in Seq(A), z \in Seq(A) :
           x = out /\ y = Between(doc, i + 1) /\ z = Token(doc[i + 1])
    BY <1>3
  <2>2. x \o (y \o z) \in Seq(A)
    OBVIOUS
  <2> QED
    BY <2>1, <2>2
<1>11. Written(init, text)
  <2>1. Texts(A, out, Between(doc, i + 1), Token(doc[i + 1]))
    BY <1>3 DEF Texts
  <2>2. out \o Between(doc, i + 1) \o Token(doc[i + 1])
          = out \o (Between(doc, i + 1) \o Token(doc[i + 1]))
    BY <2>1, Bracket
  <2> QED
    BY <1>1, <1>5, <1>6, <1>7, <1>10, <2>2
<1>12. Kept(init) \o text = Laid(i + 1)
  <2>1. Between(doc, i + 1) \o Token(doc[i + 1]) \in Seq(A)
    BY <1>3, ConcatProperties
  <2>2. Texts(A, Kept(init), out, Between(doc, i + 1) \o Token(doc[i + 1]))
    BY <1>3, <1>8, <2>1 DEF Texts
  <2>3. (Kept(init) \o out) \o (Between(doc, i + 1) \o Token(doc[i + 1]))
          = Kept(init) \o (out \o (Between(doc, i + 1) \o Token(doc[i + 1])))
    BY <2>2, Bracket
  <2> QED
    BY <1>3, <1>9, <1>10, <2>3
<1>13. \A j \in 1..Len(init) : Waits(init[j])
  <2> SUFFICES ASSUME NEW j \in 1..Len(init) PROVE Waits(init[j])
    OBVIOUS
  <2>1. init[j] = stack[j] /\ j \in 1..Len(stack) /\ j < Len(stack) /\ Len(stack) \in Nat
    BY <1>3, <1>7
  <2> QED
    BY <2>1, OutsideWaits
<1>14. LaidAt(i + 1, stack', out')
  BY <1>2, <1>3, <1>4, <1>11, <1>12, <1>13, WrittenLaid
<1> QED
  BY <1>1, <1>14

\* The text of an object is its beginning, its members and its end.
LEMMA ObjectTextParts ==
    ASSUME options \in OptionsType, NEW members \in MembersOf(Alphabet), NEW depth \in Nat
    PROVE  ObjectText(members, depth) =
               (<<LBrace>> \o MembersText(members, depth + 1))
                 \o ((IF members = <<>> THEN <<>> ELSE NewlineIfPretty(depth)) \o <<RBrace>>)
<1>1. PICK A : A = Alphabet
  OBVIOUS
<1>2. /\ 123 \in A /\ 125 \in A /\ depth + 1 \in Nat
  BY <1>1 DEF Alphabet, Byte
<1>3. <<123>> \in Seq(A) /\ <<125>> \in Seq(A) /\ <<>> \in Seq(A)
  BY <1>2
<1>4. CASE members = <<>>
  <2>1. ObjectText(members, depth) = <<123, 125>>
    BY <1>4, ObjectTextForm DEF LBrace, RBrace
  <2>2. <<123>> \o <<125>> = <<123, 125>>
    BY <1>2, Pair
  <2>3. <<123>> \o <<>> = <<123>> /\ <<>> \o <<125>> = <<125>>
    BY <1>3, ConcatEmptySeq
  <2>4. MembersText(members, depth + 1) = <<>>
    BY <1>4 DEF MembersText
  <2> QED
    BY <1>4, <2>1, <2>2, <2>3, <2>4 DEF LBrace, RBrace
<1>5. CASE members # <<>>
  <2>1. /\ NewlineIfPretty(depth + 1) \in Seq(A) /\ NewlineIfPretty(depth) \in Seq(A)
        /\ Joined(members, depth + 1) \in Seq(A)
    BY <1>1, <1>2, SpaceType, JoinedType
  <2>2. Texts(A, <<123>>, NewlineIfPretty(depth + 1), Joined(members, depth + 1))
    BY <1>3, <2>1 DEF Texts
  <2>3. <<123>> \o NewlineIfPretty(depth + 1) \o Joined(members, depth + 1)
          = <<123>> \o (NewlineIfPretty(depth + 1) \o Joined(members, depth + 1))
    BY <2>2, Bracket
  <2>4. MembersText(members, depth + 1)
          = NewlineIfPretty(depth + 1) \o Joined(members, depth + 1)
    BY <1>5 DEF MembersText
  <2>5. PICK c : c = <<123>> \o MembersText(members, depth + 1)
    OBVIOUS
  <2>6. c \in Seq(A)
    <3>1. MembersText(members, depth + 1) \in Seq(A)
      BY <2>1, <2>4, ConcatProperties
    <3> QED
      BY <1>3, <2>5, <3>1, ConcatProperties
  <2>7. ObjectText(members, depth) = c \o NewlineIfPretty(depth) \o <<125>>
    BY <1>5, <2>3, <2>4, <2>5, ObjectTextForm DEF LBrace, RBrace
  <2>8. Texts(A, c, NewlineIfPretty(depth), <<125>>)
    BY <1>3, <2>1, <2>6 DEF Texts
  <2>9. c \o NewlineIfPretty(depth) \o <<125>> = c \o (NewlineIfPretty(depth) \o <<125>>)
    BY <2>8, Bracket
  <2> QED
    BY <1>5, <2>5, <2>7, <2>9 DEF LBrace, RBrace
<1> QED
  BY <1>4, <1>5

\* An object ends: its text is written into the dumper it began in.
LEMMA CloseObjectLaid ==
    ASSUME EncoderTypeOK, Nested, LaidAt(i, stack, out), CloseObject, ~options.sort_keys
    PROVE  LaidAt(i', stack', out')
<1> DEFINE members == Last(stack).members
<1>1. /\ i < Len(doc) /\ doc[i + 1].kind = ObjectEnd /\ i' = i + 1
      /\ Written(Outside, Last(stack).outer \o ObjectText(members, Len(stack) - 1))
  BY DEF CloseObject, Due, WriteOrders
<1>2. PICK A : A = Alphabet
  OBVIOUS
<1>3. /\ i \in Nat /\ i + 1 \in Nat /\ stack \in Seq(FramesOf(A)) /\ options \in OptionsType
      /\ Len(stack) \in Nat
      /\ out \in Seq(A) /\ Token(doc[i + 1]) \in Seq(A) /\ Between(doc, i + 1) \in Seq(A)
      /\ Kept(stack) \in Seq(A) /\ Laid(i) \in Seq(A) /\ Laid(i + 1) \in Seq(A)
      /\ Kept(stack) \o out = Laid(i) \o Gap(i, Len(stack))
      /\ Laid(i + 1) = Laid(i) \o (Between(doc, i + 1) \o Token(doc[i + 1]))
  BY <1>1, <1>2, NextLaid
<1>4. doc[i + 1].kind \in Ends /\ doc[i + 1].kind \notin Starts \cup KeyKinds
  BY <1>1, KindsApart DEF Ends
<1>5. /\ Gap(i, Len(stack)) = <<>> /\ stack # <<>> /\ Inside("object")
      /\ Between(doc, i + 1) = IF doc[i].kind = ObjectStart THEN <<>>
                               ELSE NewlineIfPretty(Len(stack) - 1)
  BY <1>1, <1>4, GapInside, NextEvent
<1>6. Token(doc[i + 1]) = <<RBrace>>
  BY <1>1, KindsDiffer DEF Token
<1>7. PICK d \in Nat : d = Len(stack) - 1 /\ d + 1 = Len(stack) /\ d + 1 \in 1..Len(stack)
                       /\ stack[d + 1] \in FramesOf(A) /\ Last(stack) = stack[d + 1]
  <2>1. /\ Len(stack) - 1 \in Nat /\ Len(stack) \in 1..Len(stack)
        /\ Last(stack) = stack[Len(stack)] /\ stack[Len(stack)] \in FramesOf(A)
    BY <1>3, <1>5, OutsideFacts
  <2>2. (Len(stack) - 1) + 1 = Len(stack)
    BY <1>3
  <2> QED
    BY <2>1, <2>2
<1>8. PICK init \in Seq(FramesOf(A)) :
         init = Outside /\ Len(init) = d /\ \A j \in 1..d : init[j] = stack[j]
  BY <1>3, <1>5, <1>7, OutsideFacts
<1>9. PICK frame \in FramesOf(A) : frame = Last(stack) /\ frame = stack[d + 1]
  BY <1>7
<1>10. frame.members \in MembersOf(A) /\ frame.outer \in Seq(A) /\ frame.kind = "object"
  BY <1>5, <1>9 DEF FramesOf, Inside
<1>11. members = <<>> <=> doc[i].kind = ObjectStart
  <2>1. FrameAt(i, stack, d + 1)
    BY <1>7 DEF LaidAt
  <2> QED
    BY <1>7, <1>9, <1>10, <2>1 DEF FrameAt
<1>12. members = frame.members
  BY <1>9
<1> HIDE DEF members
<1> DEFINE mt == MembersText(members, d + 1)
<1>13. mt \in Seq(A) /\ <<LBrace>> \in Seq(A) /\ d + 1 \in Nat
  <2>1. members \in MembersOf(Alphabet)
    BY <1>2, <1>10, <1>12
  <2>2. 123 \in A
    BY <1>2 DEF Alphabet, Byte
  <2>3. <<123>> \in Seq(A)
    BY <2>2
  <2> QED
    BY <1>2, <1>3, <1>7, <2>1, <2>3, ContentsType DEF LBrace
<1>14. Contents(frame, d + 1) = (frame.outer \o <<LBrace>>) \o mt
  BY <1>10, <1>12 DEF Contents
<1>15. (frame.outer \o <<LBrace>>) \o mt = frame.outer \o (<<LBrace>> \o mt)
  <2>1. Texts(A, frame.outer, <<LBrace>>, mt)
    BY <1>10, <1>13 DEF Texts
  <2>2. Bracketed(frame.outer, <<LBrace>>, mt)
    BY <2>1, Brackets
  <2> QED
    BY <2>2 DEF Bracketed
<1> HIDE DEF mt
<1>16. PICK b \in Seq(A) : b = <<LBrace>> \o mt
  BY <1>13, ConcatProperties
<1> DEFINE e == Between(doc, i + 1) \o Token(doc[i + 1])
<1>17. e \in Seq(A)
  BY <1>3, ConcatProperties
<1>18. ObjectText(members, d) = b \o e
  <2>1. members \in MembersOf(Alphabet)
    BY <1>2, <1>10, <1>12
  <2>2. (IF members = <<>> THEN <<>> ELSE NewlineIfPretty(d)) = Between(doc, i + 1)
    BY <1>5, <1>7, <1>11
  <2>3. ObjectText(members, d) =
           (<<LBrace>> \o MembersText(members, d + 1))
             \o ((IF members = <<>> THEN <<>> ELSE NewlineIfPretty(d)) \o <<RBrace>>)
    BY <1>3, <2>1, ObjectTextParts
  <2> QED
    BY <1>6, <1>16, <2>2, <2>3 DEF mt
<1> HIDE DEF e
<1>19. Kept(stack) = Kept(init) \o (frame.outer \o b) /\ Kept(init) \in Seq(A)
  <2>1. PICK frames \in Seq(FramesOf(Alphabet)) : frames = stack
    BY <1>2, <1>3
  <2>2. init \in Seq(FramesOf(Alphabet)) /\ frames # <<>> /\ Len(init) = Len(frames) - 1
        /\ \A j \in 1..Len(init) : init[j] = frames[j]
    BY <1>2, <1>5, <1>7, <1>8, <2>1
  <2>3. Kept(frames) = Kept(init) \o Contents(frames[Len(frames)], Len(frames))
    BY <1>3, <2>2, KeptSplit
  <2>4. Contents(frames[Len(frames)], Len(frames)) = frame.outer \o b
    BY <1>7, <1>9, <1>14, <1>15, <1>16, <2>1
  <2>5. Kept(init) \in Seq(Alphabet)
    BY <1>3, <2>2, KeptType
  <2> QED
    BY <1>2, <2>1, <2>3, <2>4, <2>5
<1>20. Kept(stack) = Laid(i)
  <2>1. out = <<>>
    BY <1>5 DEF LaidAt, Inside
  <2>2. Laid(i) \o <<>> = Laid(i)
    BY <1>3, ConcatEmptySeq
  <2>3. Kept(stack) \o <<>> = Kept(stack)
    BY <1>3, ConcatEmptySeq
  <2> QED
    BY <1>3, <1>5, <2>1, <2>2, <2>3
<1>21. frame.outer \o b \in Seq(A)
  BY <1>10, ConcatProperties
<1>22. PICK text \in Seq(A) : text = (frame.outer \o b) \o e
  BY <1>17, <1>21, ConcatProperties
<1>23. Written(init, text)
  <2>1. Texts(A, frame.outer, b, e)
    BY <1>10, <1>17 DEF Texts
  <2>2. Bracketed(frame.outer, b, e)
    BY <2>1, Brackets
  <2>3. (frame.outer \o b) \o e = frame.outer \o (b \o e)
    BY <2>2 DEF Bracketed
  <2> QED
    BY <1>1, <1>7, <1>8, <1>9, <1>18, <1>22, <2>3
<1>24. Kept(init) \o text = Laid(i + 1)
  <2>1. Texts(A, Kept(init), frame.outer \o b, e)
    BY <1>17, <1>19, <1>21 DEF Texts
  <2>2. Bracketed(Kept(init), frame.outer \o b, e)
    BY <2>1, Brackets
  <2>3. (Kept(init) \o (frame.outer \o b)) \o e = Kept(init) \o ((frame.outer \o b) \o e)
    BY <2>2 DEF Bracketed
  <2> QED
    BY <1>3, <1>19, <1>20, <1>22, <2>3 DEF e
<1>25. \A j \in 1..Len(init) : Waits(init[j])
  <2> SUFFICES ASSUME NEW j \in 1..Len(init) PROVE Waits(init[j])
    OBVIOUS
  <2>1. init[j] = stack[j] /\ j \in 1..Len(stack) /\ j < Len(stack)
    BY <1>7, <1>8
  <2> QED
    BY <1>3, <2>1, OutsideWaits
<1>26. LaidAt(i + 1, stack', out')
  BY <1>2, <1>3, <1>4, <1>23, <1>24, <1>25, WrittenLaid
<1> QED
  BY <1>1, <1>26

\* The layout of a state after a step is that of the state.
LEMMA LaidAfter ==
    ASSUME UNCHANGED <<doc, options>>, LaidAt(i', stack', out')
    PROVE  LaidAt(i, stack, out)'
<1>1. ASSUME NEW depth
      PROVE  /\ NewlineIfPretty(depth)' = NewlineIfPretty(depth)
             /\ ItemSeparator(depth)' = ItemSeparator(depth)
  BY DEF NewlineIfPretty, ItemSeparator, Newline, Pretty
<1>3. ASSUME NEW event
      PROVE  Token(event)' = Token(event)
  BY DEF Token
<1>4. ASSUME NEW n
      PROVE  Laid(n)' = Laid(n)
  <2>1. ASSUME NEW k PROVE Between(doc, k)' = Between(doc, k) /\ doc'[k] = doc[k]
    BY <1>1 DEF Between, Depth
  <2>2. [k \in 1..n |-> Between(doc, k) \o Token(doc[k])]'
          = [k \in 1..n |-> Between(doc, k) \o Token(doc[k])]
    BY <1>3, <2>1
  <2> QED
    BY <2>2 DEF Laid
<1>5. ASSUME NEW frames
      PROVE  Kept(frames)' = Kept(frames)
  <2>1. ASSUME NEW members, NEW depth PROVE MembersText(members, depth)' = MembersText(members, depth)
    BY <1>1 DEF MembersText, Joined, MemberText
  <2> QED
    BY <2>1 DEF Kept, Contents
<1>6. ASSUME NEW n, NEW depth
      PROVE  Gap(n, depth)' = Gap(n, depth)
  BY <1>1 DEF Gap
<1>7. ASSUME NEW n, NEW frames, NEW j
      PROVE  FrameAt(n, frames, j)' <=> FrameAt(n, frames, j)
  BY DEF FrameAt
<1>8. PICK frames, text, n : frames = stack' /\ text = out' /\ n = i'
  OBVIOUS
<1>9. LaidAt(n, frames, text)'
  BY <1>4, <1>5, <1>6, <1>7, <1>8 DEF LaidAt
<1> QED
  BY <1>8, <1>9 DEF LaidAt

\* What holds of the layout with any options: with sort_keys members change places.
LaidOK == ~options.sort_keys => LaidAt(i, stack, out)

\* Nothing is handled, kept or written yet.
LEMMA LaidStarts ==
    ASSUME Init
    PROVE  LaidOK
<1>1. i = 0 /\ stack = <<>> /\ out = <<>>
  BY DEF Init
<1>2. Kept(stack) = <<>>
  <2>1. [j \in 1..Len(stack) |-> Contents(stack[j], j)] = <<>>
    BY <1>1
  <2> QED
    BY <2>1, FlattenEmpty DEF Kept
<1>3. Laid(i) = <<>>
  <2>1. [k \in 1..i |-> Between(doc, k) \o Token(doc[k])] = <<>>
    BY <1>1
  <2> QED
    BY <2>1, FlattenEmpty DEF Laid
<1>4. Gap(i, Len(stack)) = <<>>
  BY <1>1 DEF Gap
<1>5. <<>> \o <<>> = <<>>
  OBVIOUS
<1>6. Kept(stack) \o out = Laid(i) \o Gap(i, Len(stack))
  BY <1>1, <1>2, <1>3, <1>4, <1>5
<1>7. \A j \in 1..Len(stack) : FALSE
  BY <1>1
<1> QED
  BY <1>1, <1>6, <1>7 DEF LaidOK, LaidAt

\* Every step of the dumpers keeps to the layout.
LEMMA LaidSteps ==
    ASSUME EncoderTypeOK, Nested, LaidOK, [Next]_vars
    PROVE  LaidOK'
<1> SUFFICES ASSUME ~options'.sort_keys PROVE LaidAt(i, stack, out)'
  BY DEF LaidOK
<1>1. UNCHANGED <<doc, options>>
  BY DEF Next, Scalar, EmptyArray, OpenArray, CloseArray, OpenObject, Key, CloseObject,
         Finished, vars
<1>2. LaidAt(i, stack, out) /\ ~options.sort_keys
  BY <1>1 DEF LaidOK
<1>3. LaidAt(i', stack', out')
  <2>1. CASE UNCHANGED vars \/ Finished
    BY <1>2, <2>1 DEF vars, Finished
  <2> QED
    BY <1>2, <2>1, ScalarLaid, EmptyArrayLaid, OpenArrayLaid, CloseArrayLaid, OpenObjectLaid,
       KeyLaid, CloseObjectLaid DEF Next
<1> QED
  BY <1>1, <1>3, LaidAfter

\* Whatever is dumped, however deep, and with whatever options but sort_keys: the
\* dumpers within dumpers together write exactly the layout of the document from
\* left to right. (write_array_shell, write_object_shell, item_separator, newline)
THEOREM WritesLayout == FairSpec => []Layout
<1>1. Init => EncoderTypeOK /\ Nested /\ LaidOK
  BY EncoderStarts, LaidStarts
<1>2. EncoderTypeOK /\ Nested /\ LaidOK /\ [Next]_vars => (EncoderTypeOK /\ Nested /\ LaidOK)'
  BY EncoderSteps, LaidSteps
<1>3. EncoderTypeOK /\ Nested /\ LaidOK => Layout
  <2> SUFFICES ASSUME EncoderTypeOK, Nested, LaidOK, Done, ~options.sort_keys
               PROVE  out = LaidOut(doc)
    BY DEF Layout
  <2>1. LaidAt(i, stack, out) /\ i = Len(doc)
    BY DEF LaidOK, Done
  <2>2. Around(doc)[Len(doc)] = <<>>
    BY Zenon DEF EncoderTypeOK, Traversal
  <2>3. stack = <<>>
    <3>1. PICK F : stack \in Seq(F)
      BY DEF EncoderTypeOK
    <3>2. Len(stack) = 0
      BY <2>1, <2>2 DEF Nested
    <3> QED
      BY <3>1, <3>2
  <2>4. Kept(stack) = <<>>
    <3>1. [j \in 1..Len(stack) |-> Contents(stack[j], j)] = <<>>
      BY <2>3
    <3> QED
      BY <3>1, FlattenEmpty DEF Kept
  <2>5. i = 0 \/ doc[i].kind \notin KeyKinds \cup Starts
    <3>1. i = 0 \/ i > 0
      BY DEF EncoderTypeOK
    <3> QED
      BY <2>3, <3>1, LastEvent
  <2>6. Gap(i, Len(stack)) = <<>>
    BY <2>5 DEF Gap, Starts
  <2>7. Laid(i) \in Seq(Alphabet) /\ out \in Seq(Alphabet)
    BY LaidType DEF EncoderTypeOK
  <2>8. Laid(i) \o <<>> = Laid(i) /\ <<>> \o out = out
    BY <2>7, ConcatEmptySeq
  <2>9. out = Laid(i)
    BY <2>1, <2>4, <2>6, <2>8 DEF LaidAt
  <2> QED
    BY <2>1, <2>9 DEF Laid, LaidOut
<1> QED
  BY <1>1, <1>2, <1>3, PTL DEF FairSpec

=============================================================================

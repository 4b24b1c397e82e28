---------------------------- MODULE GrammarProofs ----------------------------
(***************************************************************************)
(* What the regular expressions of Json5Grammar match, which terminal is   *)
(* the longest match at an offset, what a step of the grammar makes of it, *)
(* and what the binder decodes, for every text.                            *)
(***************************************************************************)
EXTENDS Json5Grammar, ScanningProofs, SequenceTheorems

-----------------------------------------------------------------------------
(***************************************************************************)
(* Stars: what is reached from a set of offsets, if from each offset some  *)
(* that are greater are reached in one go.                                 *)
(***************************************************************************)
\* The offsets up to N reached from I.
Reach(step, N, I) ==
    {e \in 0..N : \A C \in SUBSET (0..N) :
        I \subseteq C /\ (\A x \in C : step[x] \subseteq C) => e \in C}

\* Every step goes on, in the text.
Forward(step, N) ==
    /\ step \in [0..N -> SUBSET (0..N)]
    /\ \A x \in 0..N : \A y \in step[x] : x < y

\* It has I, it is closed, and it is in every set that has I and is closed.
LEMMA ReachFacts ==
    ASSUME NEW N \in Nat, NEW step, Forward(step, N), NEW I \in SUBSET (0..N)
    PROVE  /\ Reach(step, N, I) \in SUBSET (0..N)
           /\ I \subseteq Reach(step, N, I)
           /\ \A x \in Reach(step, N, I) : step[x] \subseteq Reach(step, N, I)
BY DEF Reach, Forward

\* It is in every set that has I and that no step leaves.
LEMMA ReachLeast ==
    ASSUME NEW N, NEW step, NEW I, NEW C \in SUBSET (0..N),
           I \subseteq C, \A x \in C : step[x] \subseteq C
    PROVE  Reach(step, N, I) \subseteq C
BY DEF Reach

\* The first step, from one offset.
LEMMA ReachFirst ==
    ASSUME NEW N \in Nat, NEW step, Forward(step, N), NEW x \in 0..N,
           NEW r \in Reach(step, N, {x})
    PROVE  r = x \/ \E y \in step[x] : r \in Reach(step, N, {y})
<1> DEFINE C == {x} \cup UNION {Reach(step, N, {y}) : y \in step[x]}
<1>1. \A y \in step[x] : y \in 0..N /\ {y} \in SUBSET (0..N)
  BY DEF Forward
<1>2. C \in SUBSET (0..N)
  BY DEF Reach
<1>3. ASSUME NEW z \in C PROVE step[z] \subseteq C
  <2>1. CASE z = x
    <3>1. ASSUME NEW y \in step[x] PROVE y \in Reach(step, N, {y})
      BY <1>1 DEF Reach
    <3> QED
      BY <2>1, <3>1
  <2>2. ASSUME NEW y \in step[x], z \in Reach(step, N, {y}) PROVE step[z] \subseteq C
    <3>1. step[z] \subseteq Reach(step, N, {y})
      BY <1>1, <2>2, ReachFacts
    <3> QED
      BY <3>1
  <2> QED
    BY <2>1, <2>2
<1>4. Reach(step, N, {x}) \subseteq C
  <2>1. {x} \subseteq C
    OBVIOUS
  <2> HIDE DEF C
  <2> QED
    BY <1>2, <1>3, <2>1, ReachLeast
<1> QED
  BY <1>4

\* It leads forward.
LEMMA ReachForward ==
    ASSUME NEW N \in Nat, NEW step, Forward(step, N), NEW x \in 0..N,
           NEW r \in Reach(step, N, {x})
    PROVE  r \in 0..N /\ x <= r
<1> DEFINE C == x..N
<1>1. C \in SUBSET (0..N) /\ {x} \subseteq C
  OBVIOUS
<1>2. ASSUME NEW y \in C PROVE step[y] \subseteq C
  BY DEF Forward
<1>3. Reach(step, N, {x}) \subseteq C
  <2> HIDE DEF C
  <2> QED
    BY <1>1, <1>2, ReachLeast
<1> QED
  BY <1>3

\* From what is reached nothing new is reached.
LEMMA ReachOn ==
    ASSUME NEW N \in Nat, NEW step, Forward(step, N), NEW x \in 0..N,
           NEW y \in Reach(step, N, {x})
    PROVE  Reach(step, N, {y}) \subseteq Reach(step, N, {x})
<1>1. /\ Reach(step, N, {x}) \in SUBSET (0..N)
      /\ \A z \in Reach(step, N, {x}) : step[z] \subseteq Reach(step, N, {x})
  BY ReachFacts
<1> QED
  BY <1>1, ReachLeast

\* If there is one way only, what is reached where it ends is the last.
LEMMA ReachEnd ==
    ASSUME NEW N \in Nat, NEW step, Forward(step, N),
           \A x \in 0..N : \A y, z \in step[x] : y = z,
           NEW p \in 0..N, NEW q \in Reach(step, N, {p}), step[q] = {},
           NEW e \in Reach(step, N, {p})
    PROVE  e <= q
<1> DEFINE C == {x \in 0..N : q \in Reach(step, N, {x})}
<1>1. {p} \subseteq C
  OBVIOUS
<1>2. ASSUME NEW x \in C, NEW y \in step[x] PROVE y \in C
  <2>1. y \in 0..N
    BY DEF Forward
  <2>2. PICK z \in step[x] : q \in Reach(step, N, {z})
    BY ReachFirst
  <2> QED
    BY <2>1, <2>2
<1>3. Reach(step, N, {p}) \subseteq C
  <2>1. C \in SUBSET (0..N)
    OBVIOUS
  <2> HIDE DEF C
  <2> QED
    BY <1>1, <1>2, <2>1, ReachLeast
<1> QED
  BY <1>3, ReachForward

\* The rounds of a star: each adds what is reached in one go.
Rounds(h, step, N, I) ==
    /\ h[0] = I
    /\ \A n \in 1..N : h[n] = h[n - 1] \cup UNION {step[x] : x \in h[n - 1]}

\* N rounds are enough: what is new in a round is new offsets that are further on.
LEMMA RoundsReach ==
    ASSUME NEW N \in Nat, NEW step, Forward(step, N), NEW I \in SUBSET (0..N),
           NEW h \in [0..N -> SUBSET (0..N)], Rounds(h, step, N, I)
    PROVE  h[N] = Reach(step, N, I)
<1>1. ASSUME NEW C \in SUBSET (0..N), I \subseteq C, \A x \in C : step[x] \subseteq C
      PROVE  h[N] \subseteq C
  <2> DEFINE T == {n \in 0..N : h[n] \subseteq C}
  <2>1. 0 \in T
    BY <1>1 DEF Rounds
  <2>2. ASSUME NEW n \in 1..N, n - 1 \in T PROVE n \in T
    BY <1>1, <2>2 DEF Rounds
  <2>3. 0..N \subseteq T
    <3> HIDE DEF T
    <3> QED
      BY <2>1, <2>2, BoundedInduction
  <2> QED
    BY <2>3
<1>2. ASSUME NEW n \in 1..N PROVE h[n - 1] \subseteq h[n]
  BY DEF Rounds
<1>3. I \subseteq h[N]
  <2> DEFINE T == {n \in 0..N : I \subseteq h[n]}
  <2>1. 0 \in T
    BY DEF Rounds
  <2>2. ASSUME NEW n \in 1..N, n - 1 \in T PROVE n \in T
    BY <1>2, <2>2
  <2>3. 0..N \subseteq T
    <3> HIDE DEF T
    <3> QED
      BY <2>1, <2>2, BoundedInduction
  <2> QED
    BY <2>3
\* What is not reached by round n is at least n + 1 if a round n + 1 adds it.
<1>4. \A x \in h[N] : step[x] \subseteq h[N]
  <2> DEFINE Late(n) == \A x \in h[n] : step[x] \subseteq h[n] \/ n <= x
             T == {n \in 0..N : Late(n)}
  <2>1. 0 \in T
    OBVIOUS
  <2>2. ASSUME NEW n \in 1..N, n - 1 \in T PROVE n \in T
    <3>0. n - 1 \in 0..N /\ n \in 0..N
      OBVIOUS
    <3>1. SUFFICES ASSUME NEW x \in h[n], ~(step[x] \subseteq h[n]) PROVE n <= x
      BY <3>0
    <3>2. x \notin h[n - 1]
      BY <3>1 DEF Rounds
    <3>3. PICK w \in h[n - 1] : x \in step[w]
      BY <3>1, <3>2 DEF Rounds
    <3>4. n - 1 <= w
      BY <2>2, <3>2, <3>3
    <3>5. w \in 0..N /\ x \in 0..N /\ w < x
      BY <3>0, <3>3 DEF Forward
    <3> QED
      BY <3>4, <3>5
  <2>3. 0..N \subseteq T
    <3> HIDE DEF T
    <3> QED
      BY <2>1, <2>2, BoundedInduction
  <2>4. Late(N)
    BY <2>3
  <2>5. ASSUME NEW x \in h[N], N <= x PROVE step[x] = {}
    BY <2>5 DEF Forward
  <2> QED
    BY <2>4, <2>5
<1> QED
  BY <1>1, <1>3, <1>4 DEF Reach

\* The sets the rounds go through, as a function of their number.
LEMMA RoundsExist ==
    ASSUME NEW N \in Nat, NEW step, Forward(step, N), NEW I \in SUBSET (0..N)
    PROVE  \E h \in [0..N -> SUBSET (0..N)] : Rounds(h, step, N, I)
<1> DEFINE V == SUBSET (0..N)
           grow == [J \in V |-> J \cup UNION {step[x] : x \in J}]
           rounds == [n \in 1..N |-> grow]
<1>1. grow \in [V -> V]
  BY DEF Forward
<1>2. rounds \in [1..N -> [V -> V]]
  BY <1>1
<1>3. PICK h \in [0..N -> V] : Iterates(h, I, rounds, N)
  <2> HIDE DEF V, grow, rounds
  <2>1. I \in V
    BY DEF V
  <2> QED
    BY <1>2, <2>1, Recursion
<1>4. h[0] = I /\ \A n \in 1..N : h[n] = rounds[n][h[n - 1]]
  BY <1>3 DEF Iterates
<1>5. ASSUME NEW n \in 1..N
      PROVE  h[n] = h[n - 1] \cup UNION {step[x] : x \in h[n - 1]}
  <2>1. n - 1 \in 0..N
    OBVIOUS
  <2>2. h[n - 1] \in V
    BY <2>1
  <2>3. rounds[n] = grow
    OBVIOUS
  <2> HIDE DEF rounds
  <2> QED
    BY <1>4, <2>2, <2>3
<1>6. Rounds(h, step, N, I)
  BY <1>4, <1>5 DEF Rounds
<1> QED
  BY <1>6

-----------------------------------------------------------------------------
(***************************************************************************)
(* The regular expressions.                                                *)
(***************************************************************************)
LEMMA ClassFacts ==
    ASSUME NEW s \in Seq(Byte), NEW I \in SUBSET (0..Len(s)), NEW S
    PROVE  /\ Class(s, I, S) \in SUBSET (0..Len(s))
           /\ \A e : e \in Class(s, I, S) <=> \E i \in I : e = i + 1 /\ ByteIn(s, i, S)
<1>1. \A e : e \in Class(s, I, S) <=> \E i \in I : e = i + 1 /\ ByteIn(s, i, S)
  BY DEF Class
<1>2. ASSUME NEW e \in Class(s, I, S) PROVE e \in 0..Len(s)
  <2>1. PICK i \in I : e = i + 1 /\ ByteIn(s, i, S)
    BY <1>1
  <2>2. i \in 0..Len(s)
    OBVIOUS
  <2> QED
    BY <2>1, <2>2 DEF ByteIn
<1> QED
  BY <1>1, <1>2

\* Where a word ends: behind each of its occurrences.
LEMMA WordFacts ==
    ASSUME NEW s \in Seq(Byte), NEW I \in SUBSET (0..Len(s)), NEW w \in Seq(Byte)
    PROVE  /\ Word(s, I, w) \in SUBSET (0..Len(s))
           /\ \A e : e \in Word(s, I, w) <=> \E i \in I : e = i + Len(w) /\ OccursAt(s, i, w)
BY DEF Word, OccursAt

\* The offset behind a byte of S.
ClassStep(s, S) == [x \in 0..Len(s) |-> IF ByteIn(s, x, S) THEN {x + 1} ELSE {}]

\* One byte of S, taken from a set of offsets: a step on from each of them.
LEMMA ClassStepForward ==
    ASSUME NEW s \in Seq(Byte), NEW S
    PROVE  /\ Forward(ClassStep(s, S), Len(s))
           /\ \A J \in SUBSET (0..Len(s)) :
                 Class(s, J, S) = UNION {ClassStep(s, S)[x] : x \in J}
<1>1. Forward(ClassStep(s, S), Len(s))
  BY DEF Forward, ClassStep, ByteIn
<1>2. ASSUME NEW J \in SUBSET (0..Len(s))
      PROVE  Class(s, J, S) = UNION {ClassStep(s, S)[x] : x \in J}
  BY DEF ClassStep, Class, ByteIn
<1> QED
  BY <1>1, <1>2

\* A star over bytes of S reaches what the steps reach.
LEMMA ClassStar ==
    ASSUME NEW s \in Seq(Byte), NEW S, NEW I \in SUBSET (0..Len(s)), I # {}
    PROVE  Star(s, I, LAMBDA J : Class(s, J, S)) = Reach(ClassStep(s, S), Len(s), I)
<1> DEFINE N == Len(s)
           Computes(f) == f = [n \in 0..N |-> IF n = 0 THEN I
                                              ELSE f[n - 1] \cup Class(s, f[n - 1], S)]
           reach == CHOOSE f : Computes(f)
<1>1. N \in Nat /\ Forward(ClassStep(s, S), N)
  BY ClassStepForward
<1>2. PICK h \in [0..N -> SUBSET (0..N)] : Rounds(h, ClassStep(s, S), N, I)
  BY <1>1, RoundsExist
<1>3. Computes(h)
  <2>1. ASSUME NEW n \in 0..N
        PROVE  h[n] = IF n = 0 THEN I ELSE h[n - 1] \cup Class(s, h[n - 1], S)
    <3>1. CASE n = 0
      BY <1>2, <3>1 DEF Rounds
    <3>2. CASE n # 0
      <4>1. n \in 1..N /\ n - 1 \in 0..N
        BY <3>2
      <4>2. h[n - 1] \in SUBSET (0..N)
        BY <4>1
      <4> QED
        BY <1>2, <3>2, <4>1, <4>2, ClassStepForward DEF Rounds
    <3> QED
      BY <3>1, <3>2
  <2> QED
    BY <2>1
<1>4. Computes(reach)
  BY <1>3
<1>5. Star(s, I, LAMBDA J : Class(s, J, S)) = reach[N]
  BY DEF Star
<1> DEFINE T == {n \in 0..N : reach[n] = h[n]}
<1> HIDE DEF reach
<1>6. 0..N \subseteq T
  <2>1. 0 \in T
    BY <1>1, <1>3, <1>4
  <2>2. ASSUME NEW n \in 1..N, n - 1 \in T PROVE n \in T
    <3>1. n \in 0..N /\ n # 0 /\ reach[n - 1] = h[n - 1]
      BY <2>2
    <3>2. h[n] = h[n - 1] \cup Class(s, h[n - 1], S)
      BY <1>3, <3>1
    <3>3. reach[n] = reach[n - 1] \cup Class(s, reach[n - 1], S)
      BY <1>4, <3>1
    <3> QED
      BY <3>1, <3>2, <3>3
  <2> HIDE DEF T
  <2> QED
    BY <1>1, <2>1, <2>2, BoundedInduction
<1> QED
  BY <1>1, <1>2, <1>5, <1>6, RoundsReach

\* The bytes from i up to e are in S.
Spans(s, i, e, S) == i <= e /\ e \in 0..Len(s) /\ \A k \in i..(e - 1) : s[k + 1] \in S

\* And those are the ends of the runs of bytes of S.
LEMMA ClassReach ==
    ASSUME NEW s \in Seq(Byte), NEW S, NEW I \in SUBSET (0..Len(s)), NEW e
    PROVE  e \in Reach(ClassStep(s, S), Len(s), I) <=> \E i \in I : Spans(s, i, e, S)
<1> DEFINE N == Len(s)
           step == ClassStep(s, S)
           R == Reach(step, N, I)
           C == {x \in 0..N : \E i \in I : Spans(s, i, x, S)}
<1>0. N \in Nat /\ Forward(step, N)
  BY ClassStepForward
<1>1. I \subseteq C
  BY DEF Spans
<1>2. ASSUME NEW x \in C, NEW y \in step[x] PROVE y \in C
  <2>1. y = x + 1 /\ x < Len(s) /\ s[x + 1] \in S
    BY DEF ClassStep, ByteIn
  <2>2. PICK i \in I : Spans(s, i, x, S)
    OBVIOUS
  <2>3. i \in 0..N /\ x \in 0..N
    OBVIOUS
  <2>4. \A k \in i..(y - 1) : k \in i..(x - 1) \/ k = x
    BY <2>1, <2>3
  <2>5. Spans(s, i, y, S)
    BY <2>1, <2>2, <2>3, <2>4 DEF Spans
  <2> QED
    BY <2>1, <2>3, <2>5
<1>3. R \subseteq C
  <2> HIDE DEF step, N, C
  <2>1. C \in SUBSET (0..N)
    BY DEF C
  <2> QED
    BY <1>1, <1>2, <2>1, ReachLeast
<1>4. ASSUME NEW i \in I, Spans(s, i, e, S) PROVE e \in R
  <2>1. i \in 0..N /\ e \in 0..N /\ i <= e /\ \A k \in i..(e - 1) : s[k + 1] \in S
    BY <1>4 DEF Spans
  <2> DEFINE D == e - i
             T == {d \in 0..D : i + d \in R}
  <2>2. D \in Nat
    BY <2>1
  <2>3. 0 \in T
    BY <1>0, <2>1, ReachFacts
  <2>4. ASSUME NEW d \in 1..D, d - 1 \in T PROVE d \in T
    <3>1. i + (d - 1) \in R /\ i + (d - 1) \in i..(e - 1) /\ (i + (d - 1)) + 1 = i + d
      BY <2>1, <2>4
    <3>2. PICK x \in R : x = i + (d - 1)
      BY <3>1
    <3>3. x \in 0..N /\ x < N /\ s[x + 1] \in S /\ x + 1 = i + d
      BY <2>1, <3>1, <3>2
    <3>4. x + 1 \in step[x]
      BY <3>3 DEF ClassStep, ByteIn
    <3>5. x + 1 \in R
      BY <1>0, <3>4, ReachFacts
    <3> QED
      BY <3>3, <3>5
  <2>5. 0..D \subseteq T
    <3> HIDE DEF T, D
    <3> QED
      BY <2>2, <2>3, <2>4, BoundedInduction
  <2>6. D \in 0..D /\ i + D = e
    BY <2>1
  <2> QED
    BY <2>5, <2>6
<1> QED
  BY <1>3, <1>4

\* One byte of S or more.
LEMMA SomeFacts ==
    ASSUME NEW s \in Seq(Byte), NEW S, NEW I \in SUBSET (0..Len(s))
    PROVE  /\ Some(s, I, S) \in SUBSET (0..Len(s))
           /\ \A e : e \in Some(s, I, S) <=> \E i \in I : i < e /\ Spans(s, i, e, S)
<1> DEFINE R == Star(s, I, LAMBDA J : Class(s, J, S))
<1>1. R = Reach(ClassStep(s, S), Len(s), I)
  <2>1. CASE I = {}
    <3>1. R = {}
      BY <2>1 DEF Star
    <3>2. \A e : e \notin Reach(ClassStep(s, S), Len(s), I)
      BY <2>1, ClassReach
    <3> QED
      BY <3>1, <3>2
  <2>2. CASE I # {}
    BY <2>2, ClassStar
  <2> QED
    BY <2>1, <2>2
<1>2. R \in SUBSET (0..Len(s)) /\ \A e : e \in R <=> \E i \in I : Spans(s, i, e, S)
  BY <1>1, ClassReach DEF Reach
<1>3. Some(s, I, S) = Class(s, R, S)
  BY DEF Some
<1> HIDE DEF R
<1>4. ASSUME NEW e PROVE e \in Some(s, I, S) <=> \E i \in I : i < e /\ Spans(s, i, e, S)
  <2>1. ASSUME e \in Some(s, I, S) PROVE \E i \in I : i < e /\ Spans(s, i, e, S)
    <3>1. PICK x \in R : e = x + 1 /\ ByteIn(s, x, S)
      BY <1>2, <1>3, <2>1, ClassFacts
    <3>2. PICK i \in I : Spans(s, i, x, S)
      BY <1>2
    <3>3. i \in 0..Len(s) /\ x \in 0..Len(s) /\ \A k \in i..(e - 1) : k \in i..(x - 1) \/ k = x
      BY <1>2, <3>1
    <3>4. i < e /\ Spans(s, i, e, S)
      BY <3>1, <3>2, <3>3 DEF Spans, ByteIn
    <3> QED
      BY <3>4
  <2>2. ASSUME NEW i \in I, i < e, Spans(s, i, e, S) PROVE e \in Some(s, I, S)
    <3>1. i \in 0..Len(s) /\ e \in 0..Len(s)
      BY <2>2 DEF Spans
    <3>2. PICK x \in 0..Len(s) : e = x + 1 /\ i <= x
      BY <2>2, <3>1
    <3>3. Spans(s, i, x, S) /\ ByteIn(s, x, S)
      BY <2>2, <3>1, <3>2 DEF Spans, ByteIn
    <3>4. x \in R
      BY <1>2, <3>3
    <3> QED
      BY <1>2, <1>3, <3>2, <3>3, <3>4, ClassFacts
  <2> QED
    BY <2>1, <2>2
<1>5. Some(s, I, S) \in SUBSET (0..Len(s))
  BY <1>4 DEF Spans
<1> QED
  BY <1>4, <1>5

\* No byte of S or more.
LEMMA ManyFacts ==
    ASSUME NEW s \in Seq(Byte), NEW S, NEW I \in SUBSET (0..Len(s))
    PROVE  /\ Many(s, I, S) \in SUBSET (0..Len(s))
           /\ \A e : e \in Many(s, I, S) <=> \E i \in I : Spans(s, i, e, S)
<1>1. ASSUME NEW e PROVE e \in Many(s, I, S) <=> \E i \in I : Spans(s, i, e, S)
  <2>1. ASSUME e \in I PROVE Spans(s, e, e, S)
    BY <2>1 DEF Spans
  <2>2. ASSUME NEW i \in I, Spans(s, i, e, S) PROVE i < e \/ e = i
    BY <2>2 DEF Spans
  <2> QED
    BY <2>1, <2>2, SomeFacts DEF Many
<1>2. Many(s, I, S) \in SUBSET (0..Len(s))
  BY <1>1 DEF Spans
<1> QED
  BY <1>1, <1>2

-----------------------------------------------------------------------------
(***************************************************************************)
(* Whitespace.                                                             *)
(***************************************************************************)
SpaceWords == {NBSP, BOM, LS, PS}

\* One byte or word of whitespace at x ends at y.
SpacePiece(s, x, y) == \/ ByteIn(s, x, Space) /\ y = x + 1
                       \/ \E w \in SpaceWords : OccursAt(s, x, w) /\ y = x + Len(w)

\* The steps of white space.
SpaceStep(s) == [x \in 0..Len(s) |-> {y \in 0..Len(s) : SpacePiece(s, x, y)}]

SpaceItem(s, I) == UNION {Class(s, I, Space), Word(s, I, NBSP), Word(s, I, BOM),
                          Word(s, I, LS), Word(s, I, PS)}

\* The white space that is more than a byte long.
LEMMA SpaceWordsType ==
    ASSUME NEW w \in SpaceWords
    PROVE  w \in Seq(Byte) /\ Len(w) \in 2..3
<1>1. \A a, b \in Byte : <<a, b>> \in Seq(Byte) /\ Len(<<a, b>>) = 2
  OBVIOUS
<1>2. \A a, b, c \in Byte : <<a, b, c>> \in Seq(Byte) /\ Len(<<a, b, c>>) = 3
  OBVIOUS
<1>3. {194, 160, 239, 187, 191, 226, 128, 168, 169} \subseteq Byte
  BY DEF Byte
<1>4. NBSP \in Seq(Byte) /\ Len(NBSP) = 2
  BY <1>1, <1>3 DEF NBSP
<1>5. BOM \in Seq(Byte) /\ Len(BOM) = 3
  BY <1>2, <1>3 DEF BOM
<1>6. LS \in Seq(Byte) /\ Len(LS) = 3
  BY <1>2, <1>3 DEF LS
<1>7. PS \in Seq(Byte) /\ Len(PS) = 3
  BY <1>2, <1>3 DEF PS
<1> QED
  BY <1>4, <1>5, <1>6, <1>7 DEF SpaceWords

\* A piece of white space is a step on.
LEMMA SpaceStepFacts ==
    ASSUME NEW s \in Seq(Byte)
    PROVE  /\ Forward(SpaceStep(s), Len(s))
           /\ \A x \in 0..Len(s) : \A y : SpacePiece(s, x, y) <=> y \in SpaceStep(s)[x]
           /\ \A J \in SUBSET (0..Len(s)) :
                 SpaceItem(s, J) = UNION {SpaceStep(s)[x] : x \in J}
<1>1. ASSUME NEW x \in 0..Len(s), NEW y, SpacePiece(s, x, y)
      PROVE  y \in 0..Len(s) /\ x < y
  <2>1. CASE ByteIn(s, x, Space) /\ y = x + 1
    BY <2>1 DEF ByteIn
  <2>2. ASSUME NEW w \in SpaceWords, OccursAt(s, x, w), y = x + Len(w)
        PROVE  y \in 0..Len(s) /\ x < y
    <3>1. PICK n \in 2..3 : n = Len(w)
      BY SpaceWordsType
    <3>2. x + n <= Len(s) /\ y = x + n
      BY <2>2, <3>1 DEF OccursAt
    <3> QED
      BY <3>2
  <2> QED
    BY <1>1, <2>1, <2>2 DEF SpacePiece
<1>2. \A x \in 0..Len(s) : \A y : SpacePiece(s, x, y) <=> y \in SpaceStep(s)[x]
  BY <1>1 DEF SpaceStep
<1>3. Forward(SpaceStep(s), Len(s))
  BY <1>1 DEF SpaceStep, Forward
<1>4. ASSUME NEW J \in SUBSET (0..Len(s))
      PROVE  SpaceItem(s, J) = UNION {SpaceStep(s)[x] : x \in J}
  <2>1. ASSUME NEW y PROVE y \in SpaceItem(s, J) <=> \E x \in J : SpacePiece(s, x, y)
    <3>1. y \in Class(s, J, Space) <=> \E x \in J : ByteIn(s, x, Space) /\ y = x + 1
      BY ClassFacts
    <3>2. ASSUME NEW w \in SpaceWords
          PROVE  y \in Word(s, J, w) <=> \E x \in J : OccursAt(s, x, w) /\ y = x + Len(w)
      BY SpaceWordsType, WordFacts
    <3>3. y \in SpaceItem(s, J) <=> y \in Class(s, J, Space) \/ \E w \in SpaceWords : y \in Word(s, J, w)
      BY DEF SpaceItem, SpaceWords
    <3> QED
      BY <3>1, <3>2, <3>3 DEF SpacePiece
  <2> QED
    BY <1>2, <2>1
<1> QED
  BY <1>2, <1>3, <1>4

\* White space ends where the pieces from p on reach.
LEMMA SpaceEndsReach ==
    ASSUME NEW s \in Seq(Byte), NEW p \in 0..Len(s)
    PROVE  SpaceEnds(s, p) = Reach(SpaceStep(s), Len(s), {p})
<1> DEFINE N == Len(s)
           I == {p}
           Computes(f) == f = [n \in 0..N |-> IF n = 0 THEN I
                                              ELSE f[n - 1] \cup SpaceItem(s, f[n - 1])]
           reach == CHOOSE f : Computes(f)
<1>1. N \in Nat /\ Forward(SpaceStep(s), N) /\ I \in SUBSET (0..N)
  BY SpaceStepFacts
<1>2. PICK h \in [0..N -> SUBSET (0..N)] : Rounds(h, SpaceStep(s), N, I)
  <2> HIDE DEF I, N
  <2> QED
    BY <1>1, RoundsExist
<1>3. Computes(h)
  <2>1. ASSUME NEW n \in 0..N
        PROVE  h[n] = IF n = 0 THEN I ELSE h[n - 1] \cup SpaceItem(s, h[n - 1])
    <3>1. CASE n = 0
      BY <1>2, <3>1 DEF Rounds
    <3>2. CASE n # 0
      <4>1. n \in 1..N /\ n - 1 \in 0..N
        BY <3>2
      <4>2. h[n - 1] \in SUBSET (0..N)
        BY <4>1
      <4> QED
        BY <1>2, <3>2, <4>1, <4>2, SpaceStepFacts DEF Rounds
    <3> QED
      BY <3>1, <3>2
  <2> QED
    BY <2>1
<1>4. Computes(reach)
  BY <1>3
<1>5. SpaceEnds(s, p) = reach[N]
  BY DEF SpaceEnds, SpaceItem, Star
<1> DEFINE T == {n \in 0..N : reach[n] = h[n]}
<1> HIDE DEF reach
<1>6. 0..N \subseteq T
  <2>1. 0 \in T
    BY <1>1, <1>3, <1>4
  <2>2. ASSUME NEW n \in 1..N, n - 1 \in T PROVE n \in T
    <3>1. n \in 0..N /\ n # 0 /\ reach[n - 1] = h[n - 1]
      BY <2>2
    <3>2. h[n] = h[n - 1] \cup SpaceItem(s, h[n - 1])
      BY <1>3, <3>1
    <3>3. reach[n] = reach[n - 1] \cup SpaceItem(s, reach[n - 1])
      BY <1>4, <3>1
    <3> QED
      BY <3>1, <3>2, <3>3
  <2> HIDE DEF T
  <2> QED
    BY <1>1, <2>1, <2>2, BoundedInduction
<1>7. reach[N] = h[N]
  BY <1>1, <1>6
<1> HIDE DEF I, N
<1> QED
  BY <1>1, <1>2, <1>5, <1>7, RoundsReach DEF I, N

\* There is only one piece at an offset.
LEMMA SpacePieceUnique ==
    ASSUME NEW s \in Seq(Byte), NEW x \in 0..Len(s), NEW y, NEW z,
           SpacePiece(s, x, y), SpacePiece(s, x, z)
    PROVE  y = z
<1>1. ASSUME NEW w \in SpaceWords, OccursAt(s, x, w)
      PROVE  s[x + 1] = w[1] /\ s[x + 1] \notin Space
  <2>1. w[1] \in {194, 239, 226}
    BY DEF SpaceWords, NBSP, BOM, LS, PS
  <2>2. 1 \in 1..Len(w)
    <3>1. Len(w) \in 2..3
      BY SpaceWordsType
    <3> QED
      BY <3>1
  <2> QED
    BY <1>1, <2>1, <2>2 DEF OccursAt, Space
<1>2. ASSUME NEW w \in SpaceWords, NEW v \in SpaceWords, w[1] = v[1] PROVE Len(w) = Len(v)
  BY <1>2 DEF SpaceWords, NBSP, BOM, LS, PS
<1> QED
  BY <1>1, <1>2 DEF SpacePiece, ByteIn

\* Whitespace goes on while there is a piece, and there it ends.
LEMMA SpaceFacts ==
    ASSUME NEW s \in Seq(Byte), NEW p \in 0..Len(s)
    PROVE  /\ SpaceEnds(s, p) \in SUBSET (p..Len(s))
           /\ p \in SpaceEnds(s, p)
           /\ \A x \in SpaceEnds(s, p) : \A y : SpacePiece(s, x, y) => y \in SpaceEnds(s, p)
           /\ \A x \in SpaceEnds(s, p) : (\A y : ~SpacePiece(s, x, y))
                 => \A e \in SpaceEnds(s, p) : e <= x
           /\ (\A y : ~SpacePiece(s, p, y)) => SpaceEnds(s, p) = {p}
<1> DEFINE N == Len(s)
           R == Reach(SpaceStep(s), N, {p})
<1>1. N \in Nat /\ Forward(SpaceStep(s), N) /\ {p} \in SUBSET (0..N) /\ SpaceEnds(s, p) = R
  BY SpaceStepFacts, SpaceEndsReach
<1> HIDE DEF R, N
<1>2. R \in SUBSET (0..N) /\ p \in R /\ \A x \in R : SpaceStep(s)[x] \subseteq R
  BY <1>1, ReachFacts DEF R
<1>3. R \in SUBSET (p..N)
  <2>1. \A r \in R : r \in 0..N /\ p <= r
    BY <1>1, ReachForward DEF R, N
  <2> QED
    BY <2>1 DEF N
<1>4. ASSUME NEW x \in R, NEW y, SpacePiece(s, x, y) PROVE y \in R
  BY <1>2, <1>4, SpaceStepFacts DEF N
<1>5. \A x \in 0..N : \A y, z \in SpaceStep(s)[x] : y = z
  BY SpaceStepFacts, SpacePieceUnique DEF N
<1>6. ASSUME NEW x \in R, \A y : ~SpacePiece(s, x, y), NEW e \in R PROVE e <= x
  <2>1. SpaceStep(s)[x] = {}
    BY <1>2, <1>6, SpaceStepFacts DEF N
  <2> QED
    BY <1>1, <1>5, <2>1, ReachEnd DEF R, N
<1>7. ASSUME \A y : ~SpacePiece(s, p, y) PROVE R = {p}
  <2>1. \A e \in R : e <= p
    BY <1>2, <1>6, <1>7
  <2>2. \A e \in R : e \in Int /\ p <= e
    BY <1>3 DEF N
  <2>3. \A e \in R : e = p
    BY <2>1, <2>2
  <2> QED
    BY <1>2, <2>3
<1>8. \A x \in R : \A y : SpacePiece(s, x, y) => y \in R
  BY <1>4
<1>9. \A x \in R : (\A y : ~SpacePiece(s, x, y)) => \A e \in R : e <= x
  BY <1>6
<1> QED
  BY <1>1, <1>2, <1>3, <1>7, <1>8, <1>9 DEF N

-----------------------------------------------------------------------------
(***************************************************************************)
(* Block comments.                                                         *)
(***************************************************************************)
CommentOpen  == <<Slash, Asterisk>>
CommentClose == <<Asterisk, Slash>>

\* The marks of a comment.
LEMMA CommentMarks ==
    /\ CommentOpen \in Seq(Byte) /\ Len(CommentOpen) = 2
    /\ CommentOpen[1] = Slash /\ CommentOpen[2] = Asterisk
    /\ CommentClose \in Seq(Byte) /\ Len(CommentClose) = 2
    /\ CommentClose[1] = Asterisk /\ CommentClose[2] = Slash
BY DEF CommentOpen, CommentClose, Slash, Asterisk, Byte

\* A byte that is no asterisk, or some asterisks and a byte that does not close.
BlockPiece(s, x, y) ==
    \/ ByteIn(s, x, Byte \ {Asterisk}) /\ y = x + 1
    \/ \E z \in 0..Len(s) : /\ x < z /\ Spans(s, x, z, {Asterisk})
                            /\ ByteIn(s, z, Byte \ {Asterisk, Slash}) /\ y = z + 1

BlockStep(s) == [x \in 0..Len(s) |-> {y \in 0..Len(s) : BlockPiece(s, x, y)}]

BlockItem(s, I) == Class(s, I, Byte \ {Asterisk}) \cup
                   Class(s, Some(s, I, {Asterisk}), Byte \ {Asterisk, Slash})

\* A piece of a comment's body is a step on.
LEMMA BlockStepFacts ==
    ASSUME NEW s \in Seq(Byte)
    PROVE  /\ Forward(BlockStep(s), Len(s))
           /\ \A x \in 0..Len(s) : \A y : BlockPiece(s, x, y) <=> y \in BlockStep(s)[x]
           /\ \A J \in SUBSET (0..Len(s)) :
                 BlockItem(s, J) = UNION {BlockStep(s)[x] : x \in J}
<1>1. ASSUME NEW x \in 0..Len(s), NEW y, BlockPiece(s, x, y)
      PROVE  y \in 0..Len(s) /\ x < y
  BY <1>1 DEF BlockPiece, ByteIn
<1>2. \A x \in 0..Len(s) : \A y : BlockPiece(s, x, y) <=> y \in BlockStep(s)[x]
  BY <1>1 DEF BlockStep
<1>3. Forward(BlockStep(s), Len(s))
  BY <1>1 DEF BlockStep, Forward
<1>4. ASSUME NEW J \in SUBSET (0..Len(s))
      PROVE  BlockItem(s, J) = UNION {BlockStep(s)[x] : x \in J}
  <2> DEFINE stars == Some(s, J, {Asterisk})
  <2>0. /\ stars \in SUBSET (0..Len(s))
        /\ \A z : z \in stars <=> \E x \in J : x < z /\ Spans(s, x, z, {Asterisk})
    BY SomeFacts
  <2> HIDE DEF stars
  <2>1. ASSUME NEW y PROVE y \in BlockItem(s, J) <=> \E x \in J : BlockPiece(s, x, y)
    <3>1. y \in Class(s, J, Byte \ {Asterisk})
            <=> \E x \in J : ByteIn(s, x, Byte \ {Asterisk}) /\ y = x + 1
      <4>1. PICK S : S = Byte \ {Asterisk}
        OBVIOUS
      <4>2. y \in Class(s, J, S) <=> \E x \in J : y = x + 1 /\ ByteIn(s, x, S)
        BY ClassFacts
      <4> QED
        BY <4>1, <4>2
    <3>2. y \in Class(s, stars, Byte \ {Asterisk, Slash})
            <=> \E z \in stars : ByteIn(s, z, Byte \ {Asterisk, Slash}) /\ y = z + 1
      <4>1. PICK S : S = Byte \ {Asterisk, Slash}
        OBVIOUS
      <4>2. y \in Class(s, stars, S) <=> \E z \in stars : y = z + 1 /\ ByteIn(s, z, S)
        BY <2>0, ClassFacts
      <4> QED
        BY <4>1, <4>2
    <3>3. y \in BlockItem(s, J) <=> \/ y \in Class(s, J, Byte \ {Asterisk})
                                   \/ y \in Class(s, stars, Byte \ {Asterisk, Slash})
      BY DEF BlockItem, stars
    <3> QED
      BY <2>0, <3>1, <3>2, <3>3 DEF BlockPiece
  <2> QED
    BY <1>2, <2>1
<1> QED
  BY <1>2, <1>3, <1>4

\* A star over the pieces of a body reaches what the steps reach.
LEMMA BlockStar ==
    ASSUME NEW s \in Seq(Byte), NEW I \in SUBSET (0..Len(s)), I # {}
    PROVE  Star(s, I, LAMBDA J : BlockItem(s, J)) = Reach(BlockStep(s), Len(s), I)
<1> DEFINE N == Len(s)
           Computes(f) == f = [n \in 0..N |-> IF n = 0 THEN I
                                              ELSE f[n - 1] \cup BlockItem(s, f[n - 1])]
           reach == CHOOSE f : Computes(f)
<1>1. N \in Nat /\ Forward(BlockStep(s), N)
  BY BlockStepFacts
<1>2. PICK h \in [0..N -> SUBSET (0..N)] : Rounds(h, BlockStep(s), N, I)
  BY <1>1, RoundsExist
<1>3. Computes(h)
  <2>1. ASSUME NEW n \in 0..N
        PROVE  h[n] = IF n = 0 THEN I ELSE h[n - 1] \cup BlockItem(s, h[n - 1])
    <3>1. CASE n = 0
      BY <1>2, <3>1 DEF Rounds
    <3>2. CASE n # 0
      <4>1. n \in 1..N /\ n - 1 \in 0..N
        BY <3>2
      <4>2. h[n - 1] \in SUBSET (0..N)
        BY <4>1
      <4> QED
        BY <1>2, <3>2, <4>1, <4>2, BlockStepFacts DEF Rounds
    <3> QED
      BY <3>1, <3>2
  <2> QED
    BY <2>1
<1>4. Computes(reach)
  BY <1>3
<1>5. Star(s, I, LAMBDA J : BlockItem(s, J)) = reach[N]
  BY DEF Star
<1> DEFINE T == {n \in 0..N : reach[n] = h[n]}
<1> HIDE DEF reach
<1>6. 0..N \subseteq T
  <2>1. 0 \in T
    BY <1>1, <1>3, <1>4
  <2>2. ASSUME NEW n \in 1..N, n - 1 \in T PROVE n \in T
    <3>1. n \in 0..N /\ n # 0 /\ reach[n - 1] = h[n - 1]
      BY <2>2
    <3>2. h[n] = h[n - 1] \cup BlockItem(s, h[n - 1])
      BY <1>3, <3>1
    <3>3. reach[n] = reach[n - 1] \cup BlockItem(s, reach[n - 1])
      BY <1>4, <3>1
    <3> QED
      BY <3>1, <3>2, <3>3
  <2> HIDE DEF T
  <2> QED
    BY <1>1, <2>1, <2>2, BoundedInduction
<1> QED
  BY <1>1, <1>2, <1>5, <1>6, RoundsReach

\* The offsets at which the body of the comment at p may end.
BlockBody(s, p) == Reach(BlockStep(s), Len(s), {p + 2})

\* A comment ends behind asterisks and a slash that follow a body.
LEMMA BlockEnds ==
    ASSUME NEW s \in Seq(Byte), NEW p \in 0..Len(s)
    PROVE  \A e : e \in BlockCommentEnds(s, p) <=>
                 /\ OccursAt(s, p, CommentOpen)
                 /\ \E b \in BlockBody(s, p) : \E z \in 0..Len(s) :
                       /\ b < z /\ Spans(s, b, z, {Asterisk})
                       /\ ByteIn(s, z, {Slash}) /\ e = z + 1
<1> DEFINE open == Word(s, {p}, CommentOpen)
           body == Star(s, open, LAMBDA J : BlockItem(s, J))
<1>0. {p} \in SUBSET (0..Len(s)) /\ CommentOpen \in Seq(Byte) /\ Len(CommentOpen) = 2
  BY CommentMarks
<1>1. \A e : e \in open <=> e = p + 2 /\ OccursAt(s, p, CommentOpen)
  <2>1. PICK I \in SUBSET (0..Len(s)) : I = {p}
    BY <1>0
  <2>2. \A e : e \in Word(s, I, CommentOpen)
           <=> \E i \in I : e = i + Len(CommentOpen) /\ OccursAt(s, i, CommentOpen)
    BY <1>0, WordFacts
  <2> QED
    BY <1>0, <2>1, <2>2
<1>2. open \in SUBSET (0..Len(s))
  BY WordFacts, CommentMarks
<1>3. \A b : b \in body <=> OccursAt(s, p, CommentOpen) /\ b \in BlockBody(s, p)
  <2>1. CASE OccursAt(s, p, CommentOpen)
    <3>1. open = {p + 2}
      BY <1>1, <2>1
    <3>2. body = Reach(BlockStep(s), Len(s), open)
      <4> HIDE DEF open
      <4> QED
        BY <1>2, <3>1, BlockStar
    <3> QED
      BY <2>1, <3>1, <3>2 DEF BlockBody
  <2>2. CASE ~OccursAt(s, p, CommentOpen)
    <3>1. open = {}
      BY <1>1, <2>2
    <3>2. body = {}
      <4> HIDE DEF open
      <4> QED
        BY <3>1 DEF Star
    <3> QED
      BY <2>2, <3>2
  <2> QED
    BY <2>1, <2>2
<1>4. body \in SUBSET (0..Len(s))
  BY <1>3 DEF BlockBody, Reach
<1>5. BlockCommentEnds(s, p) = Class(s, Some(s, body, {Asterisk}), {Slash})
  BY DEF BlockCommentEnds, BlockItem, CommentOpen
<1> HIDE DEF body, open
<1> DEFINE stars == Some(s, body, {Asterisk})
<1>6. /\ stars \in SUBSET (0..Len(s))
      /\ \A z : z \in stars <=> \E b \in body : b < z /\ Spans(s, b, z, {Asterisk})
  BY <1>4, SomeFacts
<1> HIDE DEF stars
<1>7. \A e : e \in Class(s, stars, {Slash}) <=> \E z \in stars : e = z + 1 /\ ByteIn(s, z, {Slash})
  BY <1>6, ClassFacts
<1>8. BlockCommentEnds(s, p) = Class(s, stars, {Slash})
  BY <1>5 DEF stars
<1> QED
  BY <1>3, <1>6, <1>7, <1>8

\* No comment is closed between p and c.
NoCloseBefore(s, p, c) == \A q \in p..(c - 1) : ~OccursAt(s, q, CommentClose)

\* Nothing in the body closes the comment, and no body ends behind an asterisk.
LEMMA BlockBodyFacts ==
    ASSUME NEW s \in Seq(Byte), NEW p \in Nat, p + 2 <= Len(s), NEW b \in BlockBody(s, p)
    PROVE  /\ b \in (p + 2)..Len(s)
           /\ b > p + 2 => s[b] # Asterisk
           /\ \A q \in (p + 2)..(b - 2) : ~OccursAt(s, q, CommentClose)
<1> DEFINE N == Len(s)
           Good(x) == /\ x > p + 2 => s[x] # Asterisk
                      /\ \A q \in (p + 2)..(x - 2) : ~OccursAt(s, q, CommentClose)
           C == {x \in (p + 2)..N : Good(x)}
<1>1. C \in SUBSET (0..N) /\ {p + 2} \subseteq C
  OBVIOUS
<1>2. ASSUME NEW x \in C, NEW y \in BlockStep(s)[x] PROVE y \in C
  <2>0. x \in (p + 2)..N /\ x \in 0..N /\ y \in (p + 2)..N /\ x < y /\ BlockPiece(s, x, y)
    BY BlockStepFacts DEF Forward
  <2>1. CASE ByteIn(s, x, Byte \ {Asterisk}) /\ y = x + 1
    <3>1. s[y] # Asterisk
      BY <2>0, <2>1 DEF ByteIn
    <3>2. ASSUME NEW q \in (p + 2)..(y - 2) PROVE ~OccursAt(s, q, CommentClose)
      <4>1. q \in (p + 2)..(x - 2) \/ (q = x - 1 /\ x > p + 2)
        BY <2>0, <2>1
      <4>2. ASSUME q = x - 1, x > p + 2 PROVE s[q + 1] # Asterisk
        BY <2>0, <4>2
      <4>3. OccursAt(s, q, CommentClose) => s[q + 1] = Asterisk
        BY CommentMarks DEF OccursAt
      <4> QED
        BY <4>1, <4>2, <4>3
    <3> QED
      BY <2>0, <3>1, <3>2
  <2>2. ASSUME NEW z \in 0..N, x < z, Spans(s, x, z, {Asterisk}),
               ByteIn(s, z, Byte \ {Asterisk, Slash}), y = z + 1
        PROVE  y \in C
    <3>1. s[y] \notin {Asterisk, Slash}
      BY <2>2 DEF ByteIn
    <3>2. ASSUME NEW q \in (p + 2)..(y - 2) PROVE ~OccursAt(s, q, CommentClose)
      <4>1. q \in (p + 2)..(x - 2) \/ (q = x - 1 /\ x > p + 2) \/ q \in x..(z - 1)
        BY <2>0, <2>2
      <4>2. ASSUME q = x - 1, x > p + 2 PROVE s[q + 1] # Asterisk
        BY <2>0, <4>2
      <4>3. OccursAt(s, q, CommentClose) => s[q + 1] = Asterisk /\ s[q + 2] = Slash
        BY CommentMarks DEF OccursAt
      <4>4. ASSUME q \in x..(z - 1) PROVE s[q + 2] # Slash
        <5>1. q + 1 \in x..(z - 1) \/ q + 1 = z
          BY <2>0, <2>2, <4>4
        <5>2. ASSUME q + 1 \in x..(z - 1) PROVE s[(q + 1) + 1] = Asterisk
          BY <2>2, <5>2 DEF Spans
        <5>3. (q + 1) + 1 = q + 2 /\ (q + 1 = z => q + 2 = y)
          BY <2>0, <2>2
        <5> QED
          BY <3>1, <5>1, <5>2, <5>3 DEF Asterisk, Slash
      <4> QED
        BY <4>1, <4>2, <4>3, <4>4
    <3> QED
      BY <2>0, <3>1, <3>2
  <2> HIDE DEF C, N
  <2> QED
    BY <2>0, <2>1, <2>2 DEF BlockPiece, N
<1>3. BlockBody(s, p) \subseteq C
  <2> HIDE DEF C
  <2> QED
    BY <1>1, <1>2, ReachLeast DEF BlockBody
<1> QED
  BY <1>3

\* Each offset before the end of the comment is the end of a body, or asterisks
\* lead there from one.
LEMMA BlockBodyGoesOn ==
    ASSUME NEW s \in Seq(Byte), NEW p \in Nat, p + 2 <= Len(s),
           NEW c \in (p + 2)..Len(s), NoCloseBefore(s, p + 2, c)
    PROVE  \E b \in BlockBody(s, p) : b <= c /\ Spans(s, b, c, {Asterisk})
<1> DEFINE N == Len(s)
           R == BlockBody(s, p)
           Led(x) == \E b \in R : b <= x /\ Spans(s, b, x, {Asterisk})
           D == c - (p + 2)
           T == {d \in 0..D : Led(p + 2 + d)}
<1>1. N \in Nat /\ p + 2 \in 0..N /\ D \in Nat
  OBVIOUS
<1>2. p + 2 \in R /\ R \in SUBSET (0..N) /\ \A x \in R : BlockStep(s)[x] \subseteq R
  <2>1. PICK I \in SUBSET (0..N) : I = {p + 2}
    BY <1>1
  <2>2. /\ Reach(BlockStep(s), N, I) \in SUBSET (0..N)
        /\ I \subseteq Reach(BlockStep(s), N, I)
        /\ \A x \in Reach(BlockStep(s), N, I) : BlockStep(s)[x] \subseteq Reach(BlockStep(s), N, I)
    BY <1>1, BlockStepFacts, ReachFacts
  <2>3. R = Reach(BlockStep(s), N, I)
    BY <2>1 DEF BlockBody
  <2> HIDE DEF R
  <2> QED
    BY <2>1, <2>2, <2>3
<1> HIDE DEF R
<1>3. ASSUME NEW x \in R PROVE Spans(s, x, x, {Asterisk})
  BY <1>2 DEF Spans
<1>4. 0 \in T
  <2>0. PICK b \in R : b = p + 2 /\ b <= b
    BY <1>1, <1>2
  <2>1. p + 2 \in R /\ p + 2 <= p + 2 /\ Spans(s, p + 2, p + 2, {Asterisk})
    BY <1>3, <2>0
  <2>2. Led(p + 2)
    BY <2>1
  <2> QED
    BY <1>1, <2>2
<1>5. ASSUME NEW d \in 1..D, d - 1 \in T PROVE d \in T
  <2> DEFINE x == p + 2 + (d - 1)
  <2>1. x \in 0..N /\ x < c /\ x < N /\ p + 2 <= x /\ p + 2 + d = x + 1 /\ x + 1 <= c
    OBVIOUS
  <2>2. PICK b \in R : b <= x /\ Spans(s, b, x, {Asterisk})
    BY <1>5
  <2> HIDE DEF x, D
  <2>3. b \in 0..N
    BY <1>2
  <2>4. CASE s[x + 1] = Asterisk
    <3>1. \A k \in b..((x + 1) - 1) : k \in b..(x - 1) \/ k = x
      BY <2>1, <2>3
    <3>2. Spans(s, b, x + 1, {Asterisk})
      BY <2>1, <2>2, <2>3, <2>4, <3>1 DEF Spans
    <3>3. Led(x + 1)
      BY <2>1, <2>2, <2>3, <3>2
    <3> HIDE DEF Led
    <3> QED
      BY <2>1, <3>3
  <2>5. CASE s[x + 1] # Asterisk
    <3>0. s[x + 1] \in Byte /\ x + 1 \in 0..N
      BY <2>1
    <3>1. x + 1 \in R
      <4>1. CASE b = x
        <5>1. BlockPiece(s, x, x + 1)
          BY <2>1, <2>5, <3>0 DEF BlockPiece, ByteIn
        <5>2. x + 1 \in BlockStep(s)[x]
          BY <2>1, <5>1, BlockStepFacts
        <5> QED
          BY <1>2, <4>1, <5>2
      <4>2. CASE b < x
        <5>1. s[x] = Asterisk
          <6>1. x - 1 \in b..(x - 1) /\ (x - 1) + 1 = x
            BY <2>1, <2>3, <4>2
          <6> QED
            BY <2>2, <6>1 DEF Spans
        <5>2. p + 2 <= b
          BY BlockBodyFacts DEF R
        <5>3. s[x + 1] # Slash
          <6>1. x - 1 \in (p + 2)..(c - 1) /\ x - 1 + 2 <= Len(s)
            BY <2>1, <2>3, <4>2, <5>2
          <6>2. ~OccursAt(s, x - 1, CommentClose)
            BY <6>1 DEF NoCloseBefore
          <6>3. PICK k \in Nat : k = x - 1 /\ k + 1 = x /\ k + 2 = x + 1 /\ k + 2 <= Len(s)
            BY <2>1, <6>1
          <6>4. ~OccursAt(s, k, CommentClose)
            BY <6>2, <6>3
          <6> QED
            BY <5>1, <6>3, <6>4, CommentMarks DEF OccursAt
        <5>4. BlockPiece(s, b, x + 1)
          BY <2>1, <2>2, <2>5, <3>0, <4>2, <5>3 DEF BlockPiece, ByteIn
        <5>5. x + 1 \in BlockStep(s)[b]
          BY <2>3, <5>4, BlockStepFacts
        <5> QED
          BY <1>2, <5>5
      <4> QED
        BY <2>1, <2>2, <2>3, <4>1, <4>2
    <3>2. x + 1 <= x + 1 /\ Spans(s, x + 1, x + 1, {Asterisk})
      <4>1. PICK b1 \in R : b1 = x + 1 /\ b1 <= b1
        BY <3>0, <3>1
      <4> QED
        BY <1>3, <4>1
    <3>3. Led(x + 1)
      BY <3>1, <3>2
    <3> HIDE DEF Led
    <3> QED
      BY <2>1, <3>3
  <2> QED
    BY <2>4, <2>5
<1>6. 0..D \subseteq T
  <2> HIDE DEF T, D
  <2> QED
    BY <1>1, <1>4, <1>5, BoundedInduction
<1>7. p + 2 + D = c
  BY <1>1
<1>8. D \in T
  <2> HIDE DEF T, D
  <2> QED
    BY <1>1, <1>6
<1>9. Led(p + 2 + D)
  <2> HIDE DEF Led, D
  <2> QED
    BY <1>8
<1>10. Led(c)
  <2> HIDE DEF Led, D
  <2> QED
    BY <1>7, <1>9
<1> QED
  BY <1>10 DEF R

\* A comment ends behind the first "*/".
LEMMA BlockCommentFacts ==
    ASSUME NEW s \in Seq(Byte), NEW p \in 0..Len(s)
    PROVE  /\ \A e \in BlockCommentEnds(s, p) :
                 /\ OccursAt(s, p, CommentOpen)
                 /\ \E c \in (p + 2)..Len(s) : /\ e = c + 2 /\ OccursAt(s, c, CommentClose)
                                               /\ NoCloseBefore(s, p + 2, c)
           /\ OccursAt(s, p, CommentOpen) =>
                 \A c \in (p + 2)..Len(s) :
                    OccursAt(s, c, CommentClose) /\ NoCloseBefore(s, p + 2, c)
                       => c + 2 \in BlockCommentEnds(s, p)
<1>1. ASSUME NEW e \in BlockCommentEnds(s, p)
      PROVE  /\ OccursAt(s, p, CommentOpen)
             /\ \E c \in (p + 2)..Len(s) : /\ e = c + 2 /\ OccursAt(s, c, CommentClose)
                                           /\ NoCloseBefore(s, p + 2, c)
  <2>1. OccursAt(s, p, CommentOpen) /\ p + 2 <= Len(s)
    BY BlockEnds, CommentMarks DEF OccursAt
  <2>2. PICK b \in BlockBody(s, p), z \in 0..Len(s) :
           /\ b < z /\ Spans(s, b, z, {Asterisk})
           /\ ByteIn(s, z, {Slash}) /\ e = z + 1
    BY BlockEnds
  <2>3. /\ b \in (p + 2)..Len(s)
        /\ b > p + 2 => s[b] # Asterisk
        /\ \A q \in (p + 2)..(b - 2) : ~OccursAt(s, q, CommentClose)
    BY <2>1, BlockBodyFacts
  <2>4. PICK c \in (p + 2)..Len(s) : c = z - 1 /\ z = c + 1 /\ e = c + 2 /\ b <= c /\ c + 2 <= Len(s)
    <3>1. z - 1 \in (p + 2)..Len(s) /\ z = (z - 1) + 1 /\ e = (z - 1) + 2 /\ b <= z - 1
      BY <2>2, <2>3
    <3>2. (z - 1) + 2 <= Len(s)
      BY <2>2 DEF ByteIn
    <3> QED
      BY <3>1, <3>2
  <2>5. OccursAt(s, c, CommentClose)
    <3>1. s[c + 1] = Asterisk
      BY <2>2, <2>3, <2>4 DEF Spans
    <3>2. s[c + 2] = Slash
      BY <2>2, <2>4 DEF ByteIn
    <3> QED
      BY <2>4, <3>1, <3>2, CommentMarks DEF OccursAt
  <2>6. ASSUME NEW q \in (p + 2)..(c - 1) PROVE ~OccursAt(s, q, CommentClose)
    <3>1. OccursAt(s, q, CommentClose) => s[q + 1] = Asterisk /\ s[q + 2] = Slash
      BY CommentMarks DEF OccursAt
    <3>2. q \in (p + 2)..(b - 2) \/ (q = b - 1 /\ b > p + 2) \/ q \in b..(c - 1)
      BY <2>3, <2>4
    <3>3. ASSUME q = b - 1, b > p + 2 PROVE s[q + 1] # Asterisk
      BY <2>3, <3>3
    <3>4. ASSUME q \in b..(c - 1) PROVE s[q + 2] # Slash
      <4>1. q + 1 \in b..(z - 1) /\ (q + 1) + 1 = q + 2
        BY <2>3, <2>4, <3>4
      <4>2. s[q + 2] = Asterisk
        BY <2>2, <4>1 DEF Spans
      <4> QED
        BY <4>2 DEF Asterisk, Slash
    <3> QED
      BY <2>3, <3>1, <3>2, <3>3, <3>4
  <2> QED
    BY <2>1, <2>4, <2>5, <2>6 DEF NoCloseBefore
<1>2. ASSUME OccursAt(s, p, CommentOpen), NEW c \in (p + 2)..Len(s),
             OccursAt(s, c, CommentClose), NoCloseBefore(s, p + 2, c)
      PROVE  c + 2 \in BlockCommentEnds(s, p)
  <2>1. p \in Nat /\ p + 2 <= Len(s)
    BY <1>2, CommentMarks DEF OccursAt
  <2>2. PICK b \in BlockBody(s, p) : b <= c /\ Spans(s, b, c, {Asterisk})
    BY <1>2, <2>1, BlockBodyGoesOn
  <2>3. b \in (p + 2)..Len(s)
    BY <2>1, BlockBodyFacts
  <2>4. s[c + 1] = Asterisk /\ s[c + 2] = Slash /\ c + 2 <= Len(s)
    BY <1>2, CommentMarks DEF OccursAt
  <2>5. Spans(s, b, c + 1, {Asterisk}) /\ b < c + 1 /\ c + 1 \in 0..Len(s)
    <3>1. \A k \in b..((c + 1) - 1) : k \in b..(c - 1) \/ k = c
      BY <2>3
    <3> QED
      BY <2>2, <2>3, <2>4, <3>1 DEF Spans
  <2>6. ByteIn(s, c + 1, {Slash}) /\ (c + 1) + 1 = c + 2
    BY <2>4 DEF ByteIn
  <2> QED
    BY <1>2, <2>5, <2>6, BlockEnds
<1> QED
  BY <1>1, <1>2

-----------------------------------------------------------------------------
(***************************************************************************)
(* Numbers.                                                                *)
(***************************************************************************)
\* The end of a run of bytes of S from i.
LEMMA RunSpans ==
    ASSUME NEW s \in Seq(Byte), NEW S, NEW i \in 0..Len(s), NEW e
    PROVE  Spans(s, i, e, S) <=> e \in i..RunEnd(s, i, S)
<1> DEFINE N == Len(s)
           r == RunEnd(s, i, S)
<1>1. r \in i..N /\ (r = N \/ s[r + 1] \notin S) /\ \A k \in i..(r - 1) : s[k + 1] \in S
  BY RunEndFacts
<1> HIDE DEF r
<1>2. ASSUME Spans(s, i, e, S) PROVE e \in i..r
  <2>1. e \in 0..N /\ i <= e /\ \A k \in i..(e - 1) : s[k + 1] \in S
    BY <1>2 DEF Spans
  <2>2. r < e => r \in i..(e - 1) /\ r # N
    BY <1>1, <2>1
  <2>3. ~(r < e)
    BY <1>1, <2>1, <2>2
  <2> QED
    BY <1>1, <2>1, <2>3
<1>3. ASSUME e \in i..r PROVE Spans(s, i, e, S)
  BY <1>1, <1>3 DEF Spans
<1> QED
  BY <1>2, <1>3 DEF r

\* One run, from one offset.
LEMMA ManyRun ==
    ASSUME NEW s \in Seq(Byte), NEW S, NEW i \in 0..Len(s), NEW I, I = {i}
    PROVE  \A e : e \in Many(s, I, S) <=> e \in i..RunEnd(s, i, S)
<1>1. I \in SUBSET (0..Len(s))
  OBVIOUS
<1>2. \A e : e \in Many(s, I, S) <=> \E j \in I : Spans(s, j, e, S)
  BY <1>1, ManyFacts
<1>3. \A e : Spans(s, i, e, S) <=> e \in i..RunEnd(s, i, S)
  BY RunSpans
<1> QED
  BY <1>2, <1>3

\* The ends of one byte of S or more from i.
LEMMA SomeRun ==
    ASSUME NEW s \in Seq(Byte), NEW S, NEW i \in 0..Len(s), NEW I, I = {i}
    PROVE  \A e : e \in Some(s, I, S) <=> i < e /\ e \in i..RunEnd(s, i, S)
<1>1. I \in SUBSET (0..Len(s))
  OBVIOUS
<1>2. \A e : e \in Some(s, I, S) <=> \E j \in I : j < e /\ Spans(s, j, e, S)
  BY <1>1, SomeFacts
<1>3. \A e : Spans(s, i, e, S) <=> e \in i..RunEnd(s, i, S)
  BY RunSpans
<1> QED
  BY <1>2, <1>3

\* From nowhere, nothing is reached.
LEMMA ManyNone ==
    ASSUME NEW s \in Seq(Byte), NEW S, NEW I, I = {}
    PROVE  \A e : e \notin Many(s, I, S) /\ e \notin Some(s, I, S)
<1>1. I \in SUBSET (0..Len(s))
  OBVIOUS
<1> QED
  BY <1>1, ManyFacts, SomeFacts

\* A class of bytes at one offset.
LEMMA ClassOne ==
    ASSUME NEW s \in Seq(Byte), NEW S, NEW i \in 0..Len(s), NEW I, I = {i}
    PROVE  Class(s, I, S) = IF ByteIn(s, i, S) THEN {i + 1} ELSE {}
<1>1. I \in SUBSET (0..Len(s))
  OBVIOUS
<1>2. \A e : e \in Class(s, I, S) <=> \E j \in I : e = j + 1 /\ ByteIn(s, j, S)
  BY <1>1, ClassFacts
<1> QED
  BY <1>2

\* The two signs.
Signs == {Plus, Minus}

\* After an optional sign, what is no sign is read at one offset.
LEMMA SignedFacts ==
    ASSUME NEW s \in Seq(Byte), NEW p \in 0..Len(s), NEW I, I = {p}
    PROVE  /\ Signed(s, I) \in SUBSET (0..Len(s))
           /\ AfterSign(s, p) \in Signed(s, I)
           /\ p <= AfterSign(s, p) /\ AfterSign(s, p) <= p + 1
           /\ \A i \in Signed(s, I) : i # AfterSign(s, p) => ByteIn(s, i, Signs)
<1>1. Class(s, I, Signs) = IF ByteIn(s, p, Signs) THEN {p + 1} ELSE {}
  BY ClassOne
<1>2. Signed(s, I) = I \cup Class(s, I, Signs)
  BY DEF Signed, Signs
<1>3. ByteIn(s, p, Signs) => p + 1 \in 0..Len(s)
  BY DEF ByteIn
<1>4. AfterSign(s, p) = IF ByteIn(s, p, Signs) THEN p + 1 ELSE p
  BY DEF AfterSign, Signs
<1>5. CASE ByteIn(s, p, Signs)
  <2>1. AfterSign(s, p) = p + 1
    BY <1>4, <1>5
  <2>2. Signed(s, I) = I \cup {p + 1}
    BY <1>1, <1>2, <1>5
  <2>3. Signed(s, I) \in SUBSET (0..Len(s)) /\ p + 1 \in Signed(s, I)
    BY <1>3, <1>5, <2>2
  <2>4. \A i \in Signed(s, I) : i # p + 1 => ByteIn(s, i, Signs)
    BY <1>5, <2>2
  <2>5. p <= AfterSign(s, p) /\ AfterSign(s, p) <= p + 1
    BY <2>1
  <2>6. AfterSign(s, p) \in Signed(s, I)
    BY <2>1, <2>3
  <2>7. \A i \in Signed(s, I) : i # AfterSign(s, p) => ByteIn(s, i, Signs)
    BY <2>1, <2>4
  <2> QED
    BY <2>3, <2>5, <2>6, <2>7
<1>6. CASE ~ByteIn(s, p, Signs)
  <2>1. AfterSign(s, p) = p
    BY <1>4, <1>6
  <2>2. Signed(s, I) = I
    BY <1>1, <1>2, <1>6
  <2>5. p <= AfterSign(s, p) /\ AfterSign(s, p) <= p + 1
    BY <2>1
  <2>6. AfterSign(s, p) \in Signed(s, I)
    BY <2>1, <2>2
  <2>7. \A i \in Signed(s, I) : i # AfterSign(s, p) => ByteIn(s, i, Signs)
    BY <2>1, <2>2
  <2>8. Signed(s, I) \in SUBSET (0..Len(s))
    BY <2>2
  <2> QED
    BY <2>5, <2>6, <2>7, <2>8
<1> QED
  BY <1>5, <1>6

\* A byte behind an optional sign.
LEMMA SignedClass ==
    ASSUME NEW s \in Seq(Byte), NEW p \in 0..Len(s), NEW I, I = {p},
           NEW S, S \cap Signs = {}
    PROVE  /\ AfterSign(s, p) \in 0..Len(s)
           /\ \A e : e \in Class(s, Signed(s, I), S)
                        <=> e = AfterSign(s, p) + 1 /\ ByteIn(s, AfterSign(s, p), S)
<1> DEFINE J == Signed(s, I)
           q == AfterSign(s, p)
<1>1. J \in SUBSET (0..Len(s)) /\ q \in J /\ \A i \in J : i # q => ByteIn(s, i, Signs)
  BY SignedFacts
<1> HIDE DEF J, q
<1>2. \A e : e \in Class(s, J, S) <=> \E i \in J : e = i + 1 /\ ByteIn(s, i, S)
  BY <1>1, ClassFacts
<1>3. \A i : ByteIn(s, i, S) => ~ByteIn(s, i, Signs)
  BY DEF ByteIn
<1> QED
  BY <1>1, <1>2, <1>3 DEF J, q

\* A word that does not begin with a sign.
Unsigned(w) == w \in Seq(Byte) /\ Len(w) > 0 /\ w[1] \notin Signs

\* A word behind an optional sign.
LEMMA SignedWord ==
    ASSUME NEW s \in Seq(Byte), NEW p \in 0..Len(s), NEW I, I = {p},
           NEW w, Unsigned(w)
    PROVE  \A e : e \in Word(s, Signed(s, I), w)
                     <=> e = AfterSign(s, p) + Len(w) /\ OccursAt(s, AfterSign(s, p), w)
<1> DEFINE J == Signed(s, I)
           q == AfterSign(s, p)
<1>1. J \in SUBSET (0..Len(s)) /\ q \in J /\ \A i \in J : i # q => ByteIn(s, i, Signs)
  BY SignedFacts
<1>u. w \in Seq(Byte) /\ Len(w) > 0 /\ w[1] \notin Signs
  BY DEF Unsigned
<1> HIDE DEF J, q
<1>2. \A e : e \in Word(s, J, w) <=> \E i \in J : e = i + Len(w) /\ OccursAt(s, i, w)
  BY <1>1, <1>u, WordFacts
<1>3. ASSUME NEW i \in J, OccursAt(s, i, w) PROVE ~ByteIn(s, i, Signs)
  <2>1. Len(w) \in Nat /\ Len(w) >= 1
    BY <1>u
  <2>2. s[i + 1] = w[1]
    BY <1>3, <2>1 DEF OccursAt
  <2> QED
    BY <1>u, <2>2 DEF ByteIn
<1> QED
  BY <1>1, <1>2, <1>3 DEF J, q

\* The ends of the integer part are the offsets behind its digits.
IntegerEnds(s, p) == LET sign == Signed(s, {p})
                     IN  Class(s, sign, {Zero}) \cup Many(s, Class(s, sign, 49..57), Digit)

\* The integers that the grammar matches at p end where the scanner's integer does, or before.
LEMMA IntegerFacts ==
    ASSUME NEW s \in Seq(Byte), NEW p \in 0..Len(s), NEW q, q = AfterSign(s, p)
    PROVE  /\ q \in 0..Len(s) /\ IntegerEnd(s, q) \in q..Len(s)
           /\ IntegerEnd(s, q) = q <=> ~ByteIn(s, q, Digit)
           /\ \A e : e \in IntegerEnds(s, p) <=> e \in (q + 1)..IntegerEnd(s, q)
           /\ \A k \in q..(IntegerEnd(s, q) - 1) : s[k + 1] \in Digit
<1> DEFINE sign == Signed(s, {p})
           r == IntegerEnd(s, q)
<1>1. PICK I : I = {p}
  OBVIOUS
<1>2. PICK Z : Z = {Zero}
  OBVIOUS
<1>3. PICK O : O = 49..57
  OBVIOUS
<1>4. Z \cap Signs = {} /\ O \cap Signs = {} /\ Z \cap O = {}
  BY <1>2, <1>3 DEF Signs, Plus, Minus, Zero
<1>4a. \A b : b \in Digit <=> b \in Z \/ b \in O
  BY <1>2, <1>3 DEF Digit, Zero
<1>5. q \in 0..Len(s) /\ \A e : e \in Class(s, sign, Z) <=> e = q + 1 /\ ByteIn(s, q, Z)
  BY <1>1, <1>4, SignedClass
<1>6. \A e : e \in Class(s, sign, O) <=> e = q + 1 /\ ByteIn(s, q, O)
  BY <1>1, <1>4, SignedClass
<1>7. IntegerEnds(s, p) = Class(s, sign, Z) \cup Many(s, Class(s, sign, O), Digit)
  BY <1>2, <1>3 DEF IntegerEnds
<1> HIDE DEF sign
<1>8. r = IF ByteIn(s, q, Z) THEN q + 1 ELSE RunEnd(s, q, Digit)
  BY <1>2 DEF IntegerEnd
<1>9. /\ RunEnd(s, q, Digit) \in q..Len(s)
      /\ RunEnd(s, q, Digit) = Len(s) \/ s[RunEnd(s, q, Digit) + 1] \notin Digit
      /\ \A k \in q..(RunEnd(s, q, Digit) - 1) : s[k + 1] \in Digit
  BY <1>5, RunEndFacts
<1> HIDE DEF r
<1>10. CASE ByteIn(s, q, Z)
  <2>1. ~ByteIn(s, q, O) /\ ByteIn(s, q, Digit) /\ r = q + 1 /\ q < Len(s)
    BY <1>10, <1>4, <1>4a, <1>8 DEF ByteIn
  <2>2. \A e : e \notin Many(s, Class(s, sign, O), Digit)
    <3>1. Class(s, sign, O) = {}
      BY <1>6, <2>1
    <3> QED
      BY <3>1, ManyNone
  <2>3. \A e : e \in IntegerEnds(s, p) <=> e = q + 1
    BY <1>5, <1>7, <1>10, <2>2
  <2>4. \A k \in q..(r - 1) : s[k + 1] \in Digit
    BY <1>5, <2>1 DEF ByteIn
  <2>5. \A e : e \in IntegerEnds(s, p) <=> e \in (q + 1)..r
    BY <1>5, <2>1, <2>3
  <2> QED
    BY <1>5, <2>1, <2>4, <2>5 DEF r
<1>11. CASE ByteIn(s, q, O)
  <2>1. ByteIn(s, q, Digit) /\ ~ByteIn(s, q, Z) /\ q < Len(s) /\ r = RunEnd(s, q, Digit)
    BY <1>11, <1>4, <1>4a, <1>8 DEF ByteIn
  <2>2. r \in (q + 1)..Len(s)
    <3>1. r # q
      BY <1>5, <1>9, <2>1 DEF ByteIn
    <3> QED
      BY <1>5, <1>9, <2>1, <3>1
  <2>3. PICK i \in 0..Len(s) : i = q + 1
    BY <1>5, <2>1
  <2>4. Class(s, sign, O) = {i}
    BY <1>6, <1>11, <2>3
  <2>5. \A e : e \in Many(s, Class(s, sign, O), Digit) <=> e \in i..RunEnd(s, i, Digit)
    BY <2>3, <2>4, ManyRun
  <2>6. RunEnd(s, i, Digit) = r
    <3>1. /\ RunEnd(s, i, Digit) \in i..Len(s)
          /\ RunEnd(s, i, Digit) = Len(s) \/ s[RunEnd(s, i, Digit) + 1] \notin Digit
          /\ \A k \in i..(RunEnd(s, i, Digit) - 1) : s[k + 1] \in Digit
      BY <2>3, RunEndFacts
    <3>2. PICK x : x = RunEnd(s, i, Digit)
      OBVIOUS
    <3>3. ~(x < r)
      <4>1. x < r => x \in q..(r - 1)
        BY <1>5, <2>2, <2>3, <3>1, <3>2
      <4>2. x < r => s[x + 1] \in Digit /\ x # Len(s)
        BY <1>9, <2>1, <2>2, <3>1, <3>2, <4>1
      <4> QED
        BY <3>1, <3>2, <4>2
    <3>4. ~(r < x)
      <4>1. r < x => r \in i..(x - 1) /\ r # Len(s)
        BY <1>5, <2>2, <2>3, <3>1, <3>2
      <4> QED
        BY <1>9, <2>1, <3>1, <3>2, <4>1
    <3> QED
      BY <2>2, <3>1, <3>2, <3>3, <3>4
  <2>7. \A e : e \in IntegerEnds(s, p) <=> e \in (q + 1)..r
    BY <1>5, <1>7, <2>1, <2>3, <2>5, <2>6
  <2> QED
    BY <1>5, <1>9, <2>1, <2>2, <2>7 DEF r
<1>12. CASE ~ByteIn(s, q, Z) /\ ~ByteIn(s, q, O)
  <2>1. ~ByteIn(s, q, Digit)
    BY <1>12, <1>4a DEF ByteIn
  <2>2. r = q
    <3>1. r = RunEnd(s, q, Digit)
      BY <1>8, <1>12
    <3>2. q < r => q \in q..(r - 1) /\ q < Len(s)
      BY <1>5, <1>9, <3>1
    <3>3. ~(q < r)
      BY <1>9, <2>1, <3>1, <3>2 DEF ByteIn
    <3> QED
      BY <1>5, <1>9, <3>1, <3>3
  <2>3. \A e : e \notin Many(s, Class(s, sign, O), Digit)
    <3>1. Class(s, sign, O) = {}
      BY <1>6, <1>12
    <3> QED
      BY <3>1, ManyNone
  <2>4. \A e : e \notin IntegerEnds(s, p)
    BY <1>5, <1>7, <1>12, <2>3
  <2>5. \A e : e \notin (q + 1)..r
    BY <1>5, <2>2
  <2>6. \A k : k \notin q..(r - 1)
    BY <1>5, <2>2
  <2> QED
    BY <1>5, <2>1, <2>2, <2>4, <2>5, <2>6 DEF r
<1> QED
  BY <1>10, <1>11, <1>12

\* With the fraction.
DecimalEnds(s, p) == LET sign == Signed(s, {p})
                         int  == IntegerEnds(s, p)
                     IN  int \cup Many(s, Class(s, int, {Dot}), Digit)
                             \cup Some(s, Class(s, sign, {Dot}), Digit)

\* Digits around the point: a point alone is no number.
DecimalRange(q, r, f) == IF r = q THEN (q + 2)..f ELSE (q + 1)..f

\* Decimals: an integer with or without a fraction, or a fraction alone.
LEMMA DecimalFacts ==
    ASSUME NEW s \in Seq(Byte), NEW p \in 0..Len(s), NEW q, q = AfterSign(s, p),
           NEW r, r = IntegerEnd(s, q), NEW f, f = FractionEnd(s, r)
    PROVE  /\ q \in 0..Len(s) /\ r \in q..Len(s) /\ f \in r..Len(s)
           /\ r = q <=> ~ByteIn(s, q, Digit)
           /\ \A e : e \in DecimalEnds(s, p) <=> e \in DecimalRange(q, r, f)
           /\ \A k \in q..(f - 1) : s[k + 1] \in Digit \cup {Dot}
           /\ f # r => ByteIn(s, r, {Dot})
<1> DEFINE int == IntegerEnds(s, p)
           sign == Signed(s, {p})
<1>1. PICK I : I = {p}
  OBVIOUS
<1>2. PICK D : D = {Dot}
  OBVIOUS
<1>3. D \cap Signs = {} /\ D \cap Digit = {} /\ Dot \in D
  BY <1>2 DEF Signs, Plus, Minus, Dot, Digit
<1>4. /\ q \in 0..Len(s) /\ r \in q..Len(s)
      /\ r = q <=> ~ByteIn(s, q, Digit)
      /\ \A e : e \in int <=> e \in (q + 1)..r
      /\ \A k \in q..(r - 1) : s[k + 1] \in Digit
  BY IntegerFacts
<1>5. DecimalEnds(s, p) = int \cup Many(s, Class(s, int, D), Digit)
                              \cup Some(s, Class(s, sign, D), Digit)
  BY <1>2 DEF DecimalEnds
<1>6. \A e : e \in Class(s, sign, D) <=> e = q + 1 /\ ByteIn(s, q, D)
  BY <1>1, <1>3, SignedClass
<1> HIDE DEF int, sign
<1>7. \A e : e \in Class(s, int, D) <=> e = r + 1 /\ r > q /\ ByteIn(s, r, D)
  <2>1. int \in SUBSET (0..Len(s))
    BY <1>4
  <2>2. \A e : e \in Class(s, int, D) <=> \E i \in int : e = i + 1 /\ ByteIn(s, i, D)
    BY <2>1, ClassFacts
  <2>3. ASSUME NEW i \in int, ByteIn(s, i, D) PROVE i = r
    <3>1. i \in (q + 1)..r
      BY <1>4
    <3>2. i # r => i \in q..(r - 1)
      BY <1>4, <3>1
    <3> QED
      BY <1>3, <1>4, <2>3, <3>2 DEF ByteIn
  <2>4. r > q => r \in int
    BY <1>4
  <2>5. r \in int => r > q
    BY <1>4
  <2> QED
    BY <2>2, <2>3, <2>4, <2>5
<1>8. f = IF ByteIn(s, r, D) THEN RunEnd(s, r + 1, Digit) ELSE r
  BY <1>2 DEF FractionEnd
<1>9. CASE ByteIn(s, r, D)
  <2>1. PICK j \in 0..Len(s) : j = r + 1
    BY <1>4, <1>9 DEF ByteIn
  <2>2. f \in j..Len(s) /\ f = RunEnd(s, j, Digit) /\ \A k \in j..(f - 1) : s[k + 1] \in Digit
    BY <1>8, <1>9, <2>1, RunEndFacts
  <2>3. \A k \in q..(f - 1) : k \in q..(r - 1) \/ k = r \/ k \in j..(f - 1)
    BY <1>4, <2>1, <2>2
  <2>4. s[r + 1] = Dot
    BY <1>2, <1>9 DEF ByteIn
  <2>5. \A k \in q..(f - 1) : s[k + 1] \in Digit \cup {Dot}
    BY <1>4, <2>2, <2>3, <2>4
  <2>6. CASE r > q
    <3>1. Class(s, int, D) = {j}
      BY <1>7, <1>9, <2>1, <2>6
    <3>2. \A e : e \in Many(s, Class(s, int, D), Digit) <=> e \in j..f
      BY <2>1, <2>2, <3>1, ManyRun
    <3>3. Class(s, sign, D) = {}
      <4>1. q \in q..(r - 1)
        BY <1>4, <2>6
      <4>2. ~ByteIn(s, q, D)
        BY <1>3, <1>4, <4>1 DEF ByteIn
      <4> QED
        BY <1>6, <4>2
    <3>4. \A e : e \notin Some(s, Class(s, sign, D), Digit)
      BY <3>3, ManyNone
    <3>5. \A e : e \in DecimalEnds(s, p) <=> e \in (q + 1)..r \/ e \in j..f
      BY <1>4, <1>5, <3>2, <3>4
    <3>6. \A e : e \in DecimalEnds(s, p) <=> e \in (q + 1)..f
      BY <1>4, <2>1, <2>2, <2>6, <3>5
    <3>7. f \in r..Len(s) /\ (f # r => ByteIn(s, r, {Dot}))
      BY <1>2, <1>4, <1>9, <2>1, <2>2
    <3>9. r # q
      BY <1>4, <2>6
    <3>8. \A e : e \in DecimalEnds(s, p) <=> e \in DecimalRange(q, r, f)
      BY <3>6, <3>9 DEF DecimalRange
    <3> QED
      BY <1>4, <2>5, <3>7, <3>8
  <2>7. CASE r = q
    <3>1. Class(s, int, D) = {}
      BY <1>7, <2>7, <1>4
    <3>2. \A e : e \notin Many(s, Class(s, int, D), Digit)
      BY <3>1, ManyNone
    <3>3. Class(s, sign, D) = {j}
      BY <1>6, <1>9, <2>1, <2>7
    <3>4. \A e : e \in Some(s, Class(s, sign, D), Digit) <=> j < e /\ e \in j..f
      BY <2>1, <2>2, <3>3, SomeRun
    <3>5. \A e : e \in DecimalEnds(s, p) <=> e \in (q + 1)..r \/ (j < e /\ e \in j..f)
      BY <1>4, <1>5, <3>2, <3>4
    <3>6. \A e : e \in DecimalEnds(s, p) <=> e \in (q + 2)..f
      BY <1>4, <2>1, <2>2, <2>7, <3>5
    <3>7. f \in r..Len(s) /\ (f # r => ByteIn(s, r, {Dot}))
      BY <1>2, <1>4, <1>9, <2>1, <2>2
    <3>8. \A e : e \in DecimalEnds(s, p) <=> e \in DecimalRange(q, r, f)
      BY <2>7, <3>6 DEF DecimalRange
    <3> QED
      BY <1>4, <2>5, <3>7, <3>8
  <2> QED
    BY <1>4, <2>6, <2>7
<1>10. CASE ~ByteIn(s, r, D)
  <2>1. f = r
    BY <1>8, <1>10
  <2>2. \A e : e \notin Many(s, Class(s, int, D), Digit)
    <3>1. Class(s, int, D) = {}
      BY <1>7, <1>10
    <3> QED
      BY <3>1, ManyNone
  <2>3. \A e : e \in Some(s, Class(s, sign, D), Digit) => FALSE
    <3>1. ~ByteIn(s, q, D)
      <4>1. q # r => q \in q..(r - 1)
        BY <1>4
      <4> QED
        BY <1>3, <1>4, <1>10, <4>1 DEF ByteIn
    <3>2. Class(s, sign, D) = {}
      BY <1>6, <3>1
    <3> QED
      BY <3>2, ManyNone
  <2>4. \A e : e \in DecimalEnds(s, p) <=> e \in (q + 1)..r
    BY <1>4, <1>5, <2>2, <2>3
  <2>5. r = q => \A e : e \notin (q + 1)..r
    BY <1>4
  <2>6. \A e : e \in DecimalEnds(s, p) <=> e \in DecimalRange(q, r, f)
    <3>1. r = q => \A e : e \notin (q + 2)..f
      BY <1>4, <2>1
    <3>2. DecimalRange(q, r, f) = IF r = q THEN (q + 2)..f ELSE (q + 1)..r
      BY <2>1 DEF DecimalRange
    <3> QED
      BY <2>4, <2>5, <3>1, <3>2
  <2>7. \A k \in q..(f - 1) : s[k + 1] \in Digit \cup {Dot}
    BY <1>4, <2>1
  <2>8. f \in r..Len(s) /\ (f # r => ByteIn(s, r, {Dot}))
    BY <1>4, <2>1
  <2>9. \A e : e \in DecimalEnds(s, p) <=> e \in DecimalRange(q, r, f)
    BY <2>6
  <2> QED
    BY <1>4, <2>7, <2>8, <2>9
<1> QED
  BY <1>9, <1>10

\* The exponent is read after the last byte of the decimal.
ExponentEnds(s, p) ==
    Some(s, Signed(s, Class(s, DecimalEnds(s, p), {69, 101})), Digit)

\* There is no sign behind nothing.
LEMMA SignedNone ==
    ASSUME NEW s \in Seq(Byte), NEW I, I = {}
    PROVE  Signed(s, I) = {}
BY DEF Signed, Class

\* Exponents: behind the whole of a decimal only, as no decimal goes past its end.
LEMMA ExponentFacts ==
    ASSUME NEW s \in Seq(Byte), NEW p \in 0..Len(s), NEW q, q = AfterSign(s, p),
           NEW r, r = IntegerEnd(s, q), NEW f, f = FractionEnd(s, r),
           NEW d, d = AfterSign(s, f + 1), NEW E, E = {69, 101}
    PROVE  /\ ByteIn(s, f, E) => d \in (f + 1)..Len(s)
           /\ \A e : e \in ExponentEnds(s, p) <=> /\ f \in DecimalEnds(s, p)
                                                  /\ ByteIn(s, f, E)
                                                  /\ e \in (d + 1)..RunEnd(s, d, Digit)
<1> DEFINE decimal == DecimalEnds(s, p)
           marked == Class(s, decimal, E)
<1>1. /\ q \in 0..Len(s) /\ r \in q..Len(s) /\ f \in r..Len(s)
      /\ \A e : e \in decimal <=> e \in DecimalRange(q, r, f)
      /\ \A k \in q..(f - 1) : s[k + 1] \in Digit \cup {Dot}
  <2>1. q \in 0..Len(s) /\ r \in q..Len(s) /\ f \in r..Len(s)
    BY DecimalFacts
  <2>3. \A e : e \in DecimalEnds(s, p) <=> e \in DecimalRange(q, r, f)
    BY DecimalFacts
  <2>2. \A k \in q..(f - 1) : s[k + 1] \in Digit \cup {Dot}
    BY DecimalFacts
  <2> QED
    BY <2>1, <2>2, <2>3
<1>2. E \cap (Digit \cup {Dot}) = {} /\ Signs \cap Digit = {}
  BY DEF Digit, Dot, Signs, Plus, Minus
<1> HIDE DEF decimal
<1>3. decimal \in SUBSET (0..Len(s)) /\ \A e \in decimal : e \in (q + 1)..f
  <2>1. \A e \in DecimalRange(q, r, f) : e \in (q + 1)..f /\ e \in 0..Len(s)
    BY <1>1 DEF DecimalRange
  <2> QED
    BY <1>1, <2>1
<1>4. \A e : e \in marked <=> \E i \in decimal : e = i + 1 /\ ByteIn(s, i, E)
  BY <1>3, ClassFacts
<1>5. ASSUME NEW i \in decimal, ByteIn(s, i, E) PROVE i = f
  <2>1. i \in (q + 1)..f
    BY <1>3
  <2>2. i # f => i \in q..(f - 1)
    BY <1>1, <2>1
  <2> QED
    BY <1>1, <1>2, <1>5, <2>2 DEF ByteIn
<1>6. \A e : e \in marked <=> e = f + 1 /\ f \in decimal /\ ByteIn(s, f, E)
  BY <1>4, <1>5
<1>7. ExponentEnds(s, p) = Some(s, Signed(s, marked), Digit)
  BY DEF ExponentEnds, decimal
<1> HIDE DEF marked
<1>8. CASE ~(f \in decimal /\ ByteIn(s, f, E))
  <2>1. marked = {}
    BY <1>6, <1>8
  <2>2. Signed(s, marked) = {}
    BY <2>1, SignedNone
  <2>3. \A e : e \notin ExponentEnds(s, p)
    BY <1>7, <2>2, ManyNone
  <2>4. ByteIn(s, f, E) => d \in (f + 1)..Len(s)
    <3>1. ASSUME ByteIn(s, f, E) PROVE d \in (f + 1)..Len(s)
      <4>1. PICK j \in 0..Len(s) : j = f + 1
        BY <1>1, <3>1 DEF ByteIn
      <4>2. PICK J : J = {j}
        OBVIOUS
      <4>3. d \in Signed(s, J) /\ j <= d /\ Signed(s, J) \in SUBSET (0..Len(s))
        BY <4>1, <4>2, SignedFacts
      <4> QED
        BY <4>1, <4>3
    <3> QED
      BY <3>1
  <2> QED
    BY <1>8, <2>3, <2>4 DEF decimal
<1>9. CASE f \in decimal /\ ByteIn(s, f, E)
  <2>1. PICK j \in 0..Len(s) : j = f + 1
    BY <1>1, <1>9 DEF ByteIn
  <2>2. marked = {j}
    BY <1>6, <1>9, <2>1
  <2>3. PICK J : J = Signed(s, marked)
    OBVIOUS
  <2>4. /\ J \in SUBSET (0..Len(s)) /\ d \in J /\ j <= d
        /\ \A i \in J : i # d => ByteIn(s, i, Signs)
    BY <2>1, <2>2, <2>3, SignedFacts
  <2>5. \A e : e \in ExponentEnds(s, p) <=> \E i \in J : i < e /\ Spans(s, i, e, Digit)
    BY <1>7, <2>3, <2>4, SomeFacts
  <2>6. ASSUME NEW e, NEW i \in J, i < e, Spans(s, i, e, Digit) PROVE i = d
    <3>1. i \in i..(e - 1) /\ i < Len(s)
      BY <2>4, <2>6 DEF Spans
    <3>2. ByteIn(s, i, Digit)
      BY <2>6, <3>1 DEF Spans, ByteIn
    <3> QED
      BY <1>2, <2>4, <3>2 DEF ByteIn
  <2>7. \A e : e \in ExponentEnds(s, p) <=> d < e /\ Spans(s, d, e, Digit)
    BY <2>4, <2>5, <2>6
  <2>8. d \in 0..Len(s)
    BY <2>4
  <2>9. \A e : Spans(s, d, e, Digit) <=> e \in d..RunEnd(s, d, Digit)
    BY <2>8, RunSpans
  <2>10. d \in (f + 1)..Len(s)
    BY <1>1, <2>1, <2>4, <2>8
  <2>11. \A e : d < e /\ e \in d..RunEnd(s, d, Digit) <=> e \in (d + 1)..RunEnd(s, d, Digit)
    <3>1. RunEnd(s, d, Digit) \in 0..Len(s)
      BY <2>8, RunEndFacts
    <3> QED
      BY <2>8, <3>1
  <2> QED
    BY <1>9, <2>7, <2>9, <2>10, <2>11 DEF decimal
<1> QED
  BY <1>8, <1>9

\* Where the grammar's hexadecimal numbers end.
HexEnds(s, p) ==
    Some(s, Class(s, Class(s, Signed(s, {p}), {Zero}), {88, 120}), HexDigit)

\* Hexadecimal numbers: a zero, an x, and a digit or more.
LEMMA HexFacts ==
    ASSUME NEW s \in Seq(Byte), NEW p \in 0..Len(s), NEW q, q = AfterSign(s, p),
           NEW Z, Z = {Zero}, NEW X, X = {88, 120}
    PROVE  /\ ByteIn(s, q + 1, X) => q + 2 \in 0..Len(s)
           /\ \A e : e \in HexEnds(s, p) <=> /\ ByteIn(s, q, Z) /\ ByteIn(s, q + 1, X)
                                             /\ e \in (q + 3)..RunEnd(s, q + 2, HexDigit)
<1> DEFINE zero == Class(s, Signed(s, {p}), Z)
           marked == Class(s, zero, X)
<1>1. PICK I : I = {p}
  OBVIOUS
<1>2. Z \cap Signs = {}
  BY DEF Signs, Plus, Minus, Zero
<1>3. q \in 0..Len(s) /\ \A e : e \in zero <=> e = q + 1 /\ ByteIn(s, q, Z)
  BY <1>1, <1>2, SignedClass
<1>4. HexEnds(s, p) = Some(s, marked, HexDigit)
  BY DEF HexEnds
<1> HIDE DEF zero
<1>5. zero \in SUBSET (0..Len(s))
  BY <1>3 DEF ByteIn
<1>6. \A e : e \in marked <=> \E i \in zero : e = i + 1 /\ ByteIn(s, i, X)
  BY <1>5, ClassFacts
<1> HIDE DEF marked
<1>7. \A e : e \in marked <=> e = (q + 1) + 1 /\ ByteIn(s, q, Z) /\ ByteIn(s, q + 1, X)
  <2>1. PICK x : x = q + 1
    OBVIOUS
  <2>2. \A e : e \in marked <=> e = x + 1 /\ x \in zero /\ ByteIn(s, x, X)
    BY <1>3, <1>6, <2>1
  <2> QED
    BY <1>3, <2>1, <2>2
<1>8. (q + 1) + 1 = q + 2
  BY <1>3
<1>9. ByteIn(s, q + 1, X) => q + 2 \in 0..Len(s)
  BY <1>3 DEF ByteIn
<1>10. CASE ByteIn(s, q, Z) /\ ByteIn(s, q + 1, X)
  <2>1. PICK j \in 0..Len(s) : j = q + 2
    BY <1>9, <1>10
  <2>2. marked = {j}
    BY <1>7, <1>8, <1>10, <2>1
  <2>3. \A e : e \in Some(s, marked, HexDigit) <=> j < e /\ e \in j..RunEnd(s, j, HexDigit)
    BY <2>1, <2>2, SomeRun
  <2>4. \A e : j < e /\ e \in j..RunEnd(s, j, HexDigit) <=> e \in (q + 3)..RunEnd(s, j, HexDigit)
    <3>1. RunEnd(s, j, HexDigit) \in 0..Len(s)
      BY RunEndFacts
    <3> QED
      BY <1>3, <2>1, <3>1
  <2> QED
    BY <1>4, <1>9, <1>10, <2>1, <2>3, <2>4
<1>11. CASE ~(ByteIn(s, q, Z) /\ ByteIn(s, q + 1, X))
  <2>1. marked = {}
    BY <1>7, <1>11
  <2>2. \A e : e \notin HexEnds(s, p)
    BY <1>4, <2>1, ManyNone
  <2> QED
    BY <1>9, <1>11, <2>2
<1> QED
  BY <1>10, <1>11

\* Infinity and NaN.
LEMMA NumberWords ==
    /\ WordInfinity \in Seq(Byte) /\ Len(WordInfinity) = 8 /\ WordInfinity[1] = 73
    /\ WordNaN \in Seq(Byte) /\ Len(WordNaN) = 3 /\ WordNaN[1] = 78
<1>1. WordInfinity \in Seq(Byte) /\ Len(WordInfinity) = 8 /\ WordInfinity[1] = 73
  BY DEF WordInfinity, Byte
<1>2. WordNaN \in Seq(Byte) /\ Len(WordNaN) = 3 /\ WordNaN[1] = 78
  BY DEF WordNaN, Byte
<1> QED
  BY <1>1, <1>2

\* What a match of NUMBER may be: e is the end of a decimal, of one with an exponent,
\* of a hexadecimal number or of a word.
LEMMA NumberEndsFacts ==
    ASSUME NEW s \in Seq(Byte), NEW p \in 0..Len(s), NEW q, q = AfterSign(s, p), NEW e
    PROVE  e \in NumberEnds(s, p) <=> \/ e \in DecimalEnds(s, p)
                                      \/ e \in ExponentEnds(s, p)
                                      \/ e \in HexEnds(s, p)
                                      \/ e = q + 8 /\ OccursAt(s, q, WordInfinity)
                                      \/ e = q + 3 /\ OccursAt(s, q, WordNaN)
<1>1. PICK I : I = {p}
  OBVIOUS
<1>2. WordInfinity[1] \notin Signs /\ WordNaN[1] \notin Signs
  BY NumberWords DEF Signs, Plus, Minus
<1>3. e \in Word(s, Signed(s, I), WordInfinity) <=> e = q + 8 /\ OccursAt(s, q, WordInfinity)
  <2>1. PICK w : w = WordInfinity /\ Unsigned(w) /\ Len(w) = 8
    BY <1>2, NumberWords DEF Unsigned
  <2>2. \A x : x \in Word(s, Signed(s, I), w)
                   <=> x = AfterSign(s, p) + Len(w) /\ OccursAt(s, AfterSign(s, p), w)
    BY <1>1, <2>1, SignedWord
  <2> QED
    BY <2>1, <2>2
<1>4. e \in Word(s, Signed(s, I), WordNaN) <=> e = q + 3 /\ OccursAt(s, q, WordNaN)
  <2>1. PICK w : w = WordNaN /\ Unsigned(w) /\ Len(w) = 3
    BY <1>2, NumberWords DEF Unsigned
  <2>2. \A x : x \in Word(s, Signed(s, I), w)
                   <=> x = AfterSign(s, p) + Len(w) /\ OccursAt(s, AfterSign(s, p), w)
    BY <1>1, <2>1, SignedWord
  <2> QED
    BY <2>1, <2>2
<1>5. NumberEnds(s, p) = DecimalEnds(s, p) \cup ExponentEnds(s, p) \cup HexEnds(s, p)
                           \cup Word(s, Signed(s, I), WordInfinity)
                           \cup Word(s, Signed(s, I), WordNaN)
  BY <1>1 DEF NumberEnds, DecimalEnds, ExponentEnds, HexEnds, IntegerEnds
<1> QED
  BY <1>3, <1>4, <1>5

\* What the scanner returns for a number.
LEMMA ScannedIs ==
    ASSUME NEW scan, NEW e, scan = Scanned(e)
    PROVE  scan.message = "" /\ scan.end = e
BY DEF Scanned

\* And for a failure.
LEMMA RejectedIs ==
    ASSUME NEW scan, NEW e, NEW message, message # "", scan = Rejected(e, message)
    PROVE  scan.message # "" /\ scan.end = e
BY DEF Rejected

\* The exponent marks and the x of a hexadecimal number.
NumberMarks == {69, 101} \cup {88, 120}

\* Nothing follows the longest match of NUMBER but where parse_number fails.
NumberCut(s, ends) == \A e \in ends : (\A x \in ends : x <= e) => ByteIn(s, e, NumberMarks)

\* The places in a number, by name.
NumberParts(s, p, scan, q, r, f, d, u, h, E, X, Z, ends) ==
    /\ scan = ScanNumber(s, p)
    /\ q = AfterSign(s, p)
    /\ r = IntegerEnd(s, q)
    /\ f = FractionEnd(s, r)
    /\ d = AfterSign(s, f + 1)
    /\ u = RunEnd(s, d, Digit)
    /\ h = RunEnd(s, q + 2, HexDigit)
    /\ E = {69, 101}
    /\ X = {88, 120}
    /\ Z = {Zero}
    /\ ends = NumberEnds(s, p)

\* The ends of a number from those of its five forms: the scanner's is the greatest.
LEMMA NumberCases ==
    ASSUME NEW s \in Seq(Byte), NEW p \in 0..Len(s), NEW scan, NEW q, NEW r, NEW f, NEW d,
           NEW u, NEW h, NEW E, NEW X, NEW Z, NEW ends,
           NumberParts(s, p, scan, q, r, f, d, u, h, E, X, Z, ends)
    PROVE  /\ ends \in SUBSET ((p + 1)..Len(s))
           /\ scan.message = "" => scan.end \in ends /\ \A e \in ends : e <= scan.end
           /\ scan.message # "" => NumberCut(s, ends)
<1> DEFINE N == Len(s)
<1>0. /\ scan = ScanNumber(s, p)
      /\ q = AfterSign(s, p)
      /\ r = IntegerEnd(s, q)
      /\ f = FractionEnd(s, r)
      /\ d = AfterSign(s, f + 1)
      /\ u = RunEnd(s, d, Digit)
      /\ h = RunEnd(s, q + 2, HexDigit)
      /\ E = {69, 101}
      /\ X = {88, 120}
      /\ Z = {Zero}
      /\ ends = NumberEnds(s, p)
  BY DEF NumberParts
<1>4. q \in 0..N /\ p <= q /\ r \in q..N /\ f \in r..N
  <2>1. PICK I : I = {p}
    OBVIOUS
  <2>2. p <= q
    BY <1>0, <2>1, SignedFacts
  <2>3. q \in 0..N /\ r \in q..N /\ f \in r..N
    BY <1>0, DecimalFacts
  <2> QED
    BY <2>2, <2>3
<1>5. /\ r = q <=> ~ByteIn(s, q, Digit)
      /\ \A e : e \in DecimalEnds(s, p) <=> e \in DecimalRange(q, r, f)
      /\ f # r => ByteIn(s, r, {Dot})
  <2>1. r = q <=> ~ByteIn(s, q, Digit)
    BY <1>0, DecimalFacts
  <2>2. \A e : e \in DecimalEnds(s, p) <=> e \in DecimalRange(q, r, f)
    BY <1>0, DecimalFacts
  <2>3. f # r => ByteIn(s, r, {Dot})
    BY <1>0, DecimalFacts
  <2> QED
    BY <2>1, <2>2, <2>3
<1>6. /\ ByteIn(s, f, E) => d \in (f + 1)..N
      /\ \A e : e \in ExponentEnds(s, p) <=> f \in DecimalEnds(s, p) /\ ByteIn(s, f, E) /\ e \in (d + 1)..u
  BY <1>0, ExponentFacts
<1>7. /\ ByteIn(s, q + 1, X) => q + 2 \in 0..N
      /\ \A e : e \in HexEnds(s, p) <=> ByteIn(s, q, Z) /\ ByteIn(s, q + 1, X) /\ e \in (q + 3)..h
  BY <1>0, HexFacts
<1>8. \A e : e \in ends <=> \/ e \in DecimalEnds(s, p)
                            \/ e \in ExponentEnds(s, p)
                            \/ e \in HexEnds(s, p)
                            \/ e = q + 8 /\ OccursAt(s, q, WordInfinity)
                            \/ e = q + 3 /\ OccursAt(s, q, WordNaN)
  BY <1>0, NumberEndsFacts
<1>9. scan = IF OccursAt(s, q, WordInfinity) THEN Scanned(q + 8)
             ELSE IF OccursAt(s, q, WordNaN) THEN Scanned(q + 3)
             ELSE IF ~ByteIn(s, q, Digit \cup {Dot}) THEN Rejected(q, "a number needs a digit")
             ELSE IF ByteIn(s, q, Z) /\ ByteIn(s, q + 1, X) THEN ScanHex(s, q)
             ELSE ScanDecimal(s, q)
  BY <1>0, NumberWords DEF ScanNumber
<1>10. /\ OccursAt(s, q, WordInfinity) => ByteIn(s, q, {73}) /\ q + 8 <= N
       /\ OccursAt(s, q, WordNaN) => ByteIn(s, q, {78}) /\ q + 3 <= N
  BY <1>4, NumberWords DEF OccursAt, ByteIn
<1>11. /\ ByteIn(s, f, E) => u \in d..N /\ (ByteIn(s, d, Digit) <=> u > d)
       /\ ByteIn(s, q + 1, X) => h \in (q + 2)..N
  <2>1. ASSUME ByteIn(s, f, E) PROVE u \in d..N /\ (ByteIn(s, d, Digit) <=> u > d)
    <3>1. d \in 0..N
      BY <1>4, <1>6, <2>1
    <3>2. u \in d..N /\ \A k \in d..(u - 1) : s[k + 1] \in Digit
      BY <3>1, <1>0, RunEndFacts
    <3>3. ByteIn(s, d, Digit) => u > d
      BY <3>1, <1>0, RunEndRange
    <3>4. u > d => d \in d..(u - 1) /\ d < N
      BY <3>1, <3>2
    <3> QED
      BY <3>2, <3>3, <3>4 DEF ByteIn
  <2>2. ASSUME ByteIn(s, q + 1, X) PROVE h \in (q + 2)..N
    <3>1. PICK j \in 0..N : j = q + 2
      BY <1>7, <2>2
    <3> QED
      BY <3>1, <1>0, RunEndFacts
  <2> QED
    BY <2>1, <2>2
<1>12. ByteIn(s, q, Z) => ByteIn(s, q, Digit)
  BY <1>0 DEF ByteIn, Zero, Digit
<1>13. ASSUME ~ByteIn(s, q, Digit \cup {Dot})
       PROVE  \A e : e \notin DecimalEnds(s, p) /\ e \notin ExponentEnds(s, p) /\ e \notin HexEnds(s, p)
  <2>1. ~ByteIn(s, q, Digit) /\ ~ByteIn(s, q, {Dot})
    BY <1>13 DEF ByteIn
  <2>2. r = q /\ f = q
    BY <1>5, <2>1
  <2>3. \A e : e \notin DecimalRange(q, r, f)
    BY <1>4, <2>2 DEF DecimalRange
  <2> QED
    BY <1>5, <1>6, <1>7, <1>12, <2>1, <2>3
<1>14. DecimalEnds(s, p) \in SUBSET ((q + 1)..f)
  <2>1. DecimalRange(q, r, f) \in SUBSET ((q + 1)..f)
    BY <1>4 DEF DecimalRange
  <2> QED
    BY <1>5, <2>1
<1>15. ends \in SUBSET ((p + 1)..N)
  <2>1. \A e \in DecimalEnds(s, p) : e \in (p + 1)..N
    BY <1>4, <1>14
  <2>2. ASSUME NEW e \in ExponentEnds(s, p) PROVE e \in (p + 1)..N
    <3>1. ByteIn(s, f, E) /\ e \in (d + 1)..u
      BY <1>6
    <3> QED
      BY <1>4, <1>6, <1>11, <3>1
  <2>3. ASSUME NEW e \in HexEnds(s, p) PROVE e \in (p + 1)..N
    <3>1. ByteIn(s, q + 1, X) /\ e \in (q + 3)..h
      BY <1>7
    <3> QED
      BY <1>4, <1>11, <3>1
  <2>4. OccursAt(s, q, WordInfinity) => q + 8 \in (p + 1)..N
    BY <1>4, <1>10
  <2>5. OccursAt(s, q, WordNaN) => q + 3 \in (p + 1)..N
    BY <1>4, <1>10
  <2>6. \A e \in ends : e \in (p + 1)..N
    BY <1>8, <2>1, <2>2, <2>3, <2>4, <2>5
  <2> QED
    BY <2>6
<1>16. CASE OccursAt(s, q, WordInfinity)
  <2>1. ~ByteIn(s, q, Digit \cup {Dot}) /\ ~ByteIn(s, q, {78})
    BY <1>0, <1>10, <1>16 DEF ByteIn, Digit, Dot
  <2>2. \A e : e \in ends <=> e = q + 8
    BY <1>8, <1>10, <1>13, <1>16, <2>1
  <2>3. scan.message = "" /\ scan.end = q + 8
    <9>1. scan = Scanned(q + 8)
      BY <1>9, <1>16
    <9> QED
      BY <9>1, ScannedIs
  <2>4. PICK x \in Nat : x = q + 8
    BY <1>4
  <2>6. x <= x /\ scan.end = x /\ \A e : e \in ends <=> e = x
    <3>0. x <= x
      OBVIOUS
    <3>1. scan.end = x
      BY <2>3, <2>4, Zenon
    <3>2. \A e : e \in ends <=> e = x
      BY <2>2, <2>4, Zenon
    <3> QED
      BY <3>0, <3>1, <3>2
  <2>5. scan.end \in ends /\ \A e \in ends : e <= scan.end
    BY <2>6
  <2> QED
    BY <1>15, <2>3, <2>5
<1>17. CASE ~OccursAt(s, q, WordInfinity) /\ OccursAt(s, q, WordNaN)
  <2>1. ~ByteIn(s, q, Digit \cup {Dot})
    BY <1>10, <1>17 DEF ByteIn, Digit, Dot
  <2>2. \A e : e \in ends <=> e = q + 3
    BY <1>8, <1>13, <1>17, <2>1
  <2>3. scan.message = "" /\ scan.end = q + 3
    <9>1. scan = Scanned(q + 3)
      BY <1>9, <1>17
    <9> QED
      BY <9>1, ScannedIs
  <2>4. PICK x \in Nat : x = q + 3
    BY <1>4
  <2>6. x <= x /\ scan.end = x /\ \A e : e \in ends <=> e = x
    <3>0. x <= x
      OBVIOUS
    <3>1. scan.end = x
      BY <2>3, <2>4, Zenon
    <3>2. \A e : e \in ends <=> e = x
      BY <2>2, <2>4, Zenon
    <3> QED
      BY <3>0, <3>1, <3>2
  <2>5. scan.end \in ends /\ \A e \in ends : e <= scan.end
    BY <2>6
  <2> QED
    BY <1>15, <2>3, <2>5
<1> DEFINE NoWord == ~OccursAt(s, q, WordInfinity) /\ ~OccursAt(s, q, WordNaN)
<1>18. CASE NoWord /\ ~ByteIn(s, q, Digit \cup {Dot})
  <2>1. \A e : e \notin ends
    BY <1>8, <1>13, <1>18
  <2>2. scan.message # ""
    <9>1. \E e, message : message # "" /\ scan = Rejected(e, message)
      BY <1>9, <1>18
    <9> QED
      BY <9>1, RejectedIs
  <2> QED
    BY <1>15, <2>1, <2>2 DEF NumberCut
<1>19. CASE NoWord /\ ByteIn(s, q, Digit \cup {Dot}) /\ ByteIn(s, q, Z) /\ ByteIn(s, q + 1, X)
  <2>1. r = q + 1
    BY <1>0, <1>19 DEF IntegerEnd
  <2>2. ~ByteIn(s, r, {Dot}) /\ ~ByteIn(s, r, E)
    BY <1>19, <1>0, <2>1 DEF ByteIn, Dot
  <2>3. f = q + 1
    BY <1>5, <2>1, <2>2
  <2>4. \A e : e \in DecimalEnds(s, p) <=> e = q + 1
    <3>1. \A e : e \in DecimalRange(q, r, f) <=> e = q + 1
      BY <1>4, <2>1, <2>3 DEF DecimalRange
    <3> QED
      BY <1>5, <3>1
  <2>5. \A e : e \in ends <=> e = q + 1 \/ e \in (q + 3)..h
    BY <1>6, <1>7, <1>8, <1>19, <2>1, <2>2, <2>3, <2>4
  <2>6. scan = IF h = q + 2 THEN Rejected(h, "a hex number needs a digit") ELSE Scanned(h)
    BY <1>0, <1>9, <1>19 DEF ScanHex
  <2>7. h \in (q + 2)..N
    BY <1>11, <1>19
  <2>8. CASE h = q + 2
    <3>5. \A e : e \notin (q + 3)..h
      BY <1>4, <2>8
    <3>1. \A e : e \in ends => e = q + 1
      BY <2>5, <3>5
    <3>2. ByteIn(s, q + 1, NumberMarks)
      BY <1>0, <1>19 DEF ByteIn, NumberMarks
    <3>3. scan.message # ""
      <9>1. \E e, message : message # "" /\ scan = Rejected(e, message)
        BY <2>6, <2>8
      <9> QED
        BY <9>1, RejectedIs
    <3>4. NumberCut(s, ends)
      BY <3>1, <3>2 DEF NumberCut
    <3> QED
      BY <1>15, <3>3, <3>4
  <2>9. CASE h # q + 2
    <3>1. scan.message = "" /\ scan.end = h
      <9>1. scan = Scanned(h)
        BY <2>6, <2>9
      <9> QED
        BY <9>1, ScannedIs
    <3>4. h \in (q + 3)..h
      BY <1>4, <2>7, <2>9
    <3>2. h \in ends
      BY <2>5, <3>4
    <3>3. \A e \in ends : e <= h
      BY <1>4, <2>5, <2>7
    <3> QED
      BY <1>15, <3>1, <3>2, <3>3
  <2> QED
    BY <2>8, <2>9
<1>20. CASE NoWord /\ ByteIn(s, q, Digit \cup {Dot}) /\ ~(ByteIn(s, q, Z) /\ ByteIn(s, q + 1, X))
  <2>1. scan = IF r = q /\ f <= q + 1 THEN Rejected(f, "a number needs a digit")
               ELSE ScanExponent(s, f)
    BY <1>0, <1>9, <1>20 DEF ScanDecimal
  <2>2. \A e : e \in ends <=> e \in DecimalEnds(s, p) \/ e \in ExponentEnds(s, p)
    BY <1>7, <1>8, <1>20
  <2>3. CASE r = q /\ f <= q + 1
    <3>1. \A e : e \notin DecimalRange(q, r, f)
      BY <1>4, <2>3 DEF DecimalRange
    <3>2. \A e : e \notin ends
      BY <1>5, <1>6, <2>2, <3>1
    <3>3. scan.message # ""
      <9>1. \E e, message : message # "" /\ scan = Rejected(e, message)
        BY <2>1, <2>3
      <9> QED
        BY <9>1, RejectedIs
    <3> QED
      BY <1>15, <3>2, <3>3 DEF NumberCut
  <2>4. CASE ~(r = q /\ f <= q + 1)
    <3>1. f \in DecimalRange(q, r, f)
      BY <1>4, <2>4 DEF DecimalRange
    <3>2. f \in DecimalEnds(s, p) /\ \A e \in DecimalEnds(s, p) : e <= f
      BY <1>4, <1>5, <1>14, <3>1
    <3>3. scan = IF ~ByteIn(s, f, E) THEN Scanned(f)
                 ELSE IF ByteIn(s, d, Digit) THEN Scanned(u)
                 ELSE Rejected(d, "an exponent needs a digit")
      BY <1>0, <2>1, <2>4 DEF ScanExponent
    <3>4. CASE ~ByteIn(s, f, E)
      <4>1. scan.message = "" /\ scan.end = f
        <9>1. scan = Scanned(f)
          BY <3>3, <3>4
        <9> QED
          BY <9>1, ScannedIs
      <4>2. ends = DecimalEnds(s, p)
        BY <1>6, <2>2, <3>4
      <4> QED
        BY <1>15, <3>2, <4>1, <4>2
    <3>5. CASE ByteIn(s, f, E) /\ ByteIn(s, d, Digit)
      <4>1. scan.message = "" /\ scan.end = u
        <9>1. scan = Scanned(u)
          BY <3>3, <3>5
        <9> QED
          BY <9>1, ScannedIs
      <4>2. d \in (f + 1)..N /\ u \in d..N /\ u > d
        BY <1>6, <1>11, <3>5
      <4>3. u \in (d + 1)..u
        BY <1>4, <4>2
      <4>4. u \in ends
        BY <1>6, <2>2, <3>2, <3>5, <4>3
      <4>5. ASSUME NEW e \in ends PROVE e <= u
        <5>1. e \in DecimalEnds(s, p) \/ e \in (d + 1)..u
          BY <1>6, <2>2
        <5> QED
          BY <1>4, <1>14, <4>2, <5>1
      <4> QED
        BY <1>15, <4>1, <4>4, <4>5
    <3>6. CASE ByteIn(s, f, E) /\ ~ByteIn(s, d, Digit)
      <4>1. scan.message # ""
        <9>1. \E e, message : message # "" /\ scan = Rejected(e, message)
          BY <3>3, <3>6
        <9> QED
          BY <9>1, RejectedIs
      <4>2. d \in (f + 1)..N /\ u = d
        BY <1>6, <1>11, <3>6
      <4>3. \A e : e \notin (d + 1)..u
        BY <1>4, <4>2
      <4>4. ends = DecimalEnds(s, p)
        BY <1>6, <2>2, <4>3
      <4>5. ASSUME NEW e \in ends, \A x \in ends : x <= e PROVE ByteIn(s, e, NumberMarks)
        <5>1. f <= e /\ e <= f /\ e \in (q + 1)..f
          BY <1>14, <3>2, <4>4, <4>5
        <5>2. e = f
          BY <1>4, <5>1
        <5> QED
          BY <3>6, <5>2, <1>0 DEF ByteIn, NumberMarks
      <4>6. NumberCut(s, ends)
        BY <4>5 DEF NumberCut
      <4> QED
        BY <1>15, <4>1, <4>6
    <3> QED
      BY <3>4, <3>5, <3>6
  <2> QED
    BY <2>3, <2>4
<1> QED
  BY <1>16, <1>17, <1>18, <1>19, <1>20

\* scan_number and the regular expression NUMBER: if the scanner succeeds its end is the
\* longest match; if it fails, the longest match ends at an exponent mark or at an x.
LEMMA NumberFacts ==
    ASSUME NEW s \in Seq(Byte), NEW p \in 0..Len(s), NEW scan, scan = ScanNumber(s, p),
           NEW ends, ends = NumberEnds(s, p)
    PROVE  /\ ends \in SUBSET ((p + 1)..Len(s))
           /\ scan.message = "" => scan.end \in ends /\ \A e \in ends : e <= scan.end
           /\ scan.message # "" => NumberCut(s, ends)
<1>1. \E q, r, f, d, u, h, E, X, Z : NumberParts(s, p, scan, q, r, f, d, u, h, E, X, Z, ends)
  BY DEF NumberParts
<1> QED
  BY <1>1, NumberCases

-----------------------------------------------------------------------------
(***************************************************************************)
(* Strings.                                                                *)
(***************************************************************************)
\* The n bytes from offset p on are hexadecimal digits.
HexRun(s, p, n) == p + n <= Len(s) /\ \A k \in 1..n : s[p + k] \in HexDigit

\* There is a backslash at x, and a byte of S behind it.
Escaped(s, x, S) == ByteIn(s, x, {BSlash}) /\ ByteIn(s, x + 1, S)

\* CR LF, and the bytes that stand for themselves behind a backslash.
CrLf == <<CR, LF>>
SelfEscaped == Byte \ ((49..57) \cup {117, 120})

\* An escape of the grammar at x ends at y.
EscapeTo(s, x, y) ==
    \/ Escaped(s, x, {117}) /\ HexRun(s, x + 2, 4) /\ y = x + 6
    \/ Escaped(s, x, {120}) /\ HexRun(s, x + 2, 2) /\ y = x + 4
    \/ ByteIn(s, x, {BSlash}) /\ OccursAt(s, x + 1, CrLf) /\ y = x + 3
    \/ Escaped(s, x, SelfEscaped) /\ y = x + 2

\* What is reached from I by the escape and n digits.
HexAfter(s, I, S, n, J) ==
    J = {y \in 0..Len(s) : \E x \in I : /\ Escaped(s, x, S) /\ HexRun(s, x + 2, n)
                                        /\ y = (x + 2) + n}

\* One hexadecimal digit more.
LEMMA HexGrows ==
    ASSUME NEW s \in Seq(Byte), NEW I \in SUBSET (0..Len(s)), NEW S, NEW n \in Nat, NEW J,
           HexAfter(s, I, S, n, J), NEW m, m = n + 1
    PROVE  HexAfter(s, I, S, m, Class(s, J, HexDigit))
<1>1. J \in SUBSET (0..Len(s))
      /\ \A y : y \in J <=> y \in 0..Len(s) /\ \E x \in I : /\ Escaped(s, x, S)
                                                            /\ HexRun(s, x + 2, n)
                                                            /\ y = (x + 2) + n
  BY DEF HexAfter
<1>2. /\ Class(s, J, HexDigit) \in SUBSET (0..Len(s))
      /\ \A y : y \in Class(s, J, HexDigit) <=> \E i \in J : y = i + 1 /\ ByteIn(s, i, HexDigit)
  BY <1>1, ClassFacts
<1>3. ASSUME NEW y \in Class(s, J, HexDigit)
      PROVE  \E x \in I : Escaped(s, x, S) /\ HexRun(s, x + 2, m) /\ y = (x + 2) + m
  <2>1. PICK i \in J : y = i + 1 /\ ByteIn(s, i, HexDigit)
    BY <1>2
  <2>2. PICK x \in I : Escaped(s, x, S) /\ HexRun(s, x + 2, n) /\ i = (x + 2) + n
    BY <1>1
  <2>3. x \in Nat /\ (x + 2) + m = y
    BY <2>1, <2>2
  <2>4. \A k \in 1..m : k \in 1..n \/ k = m
    OBVIOUS
  <2>5. s[(x + 2) + m] \in HexDigit /\ (x + 2) + m <= Len(s)
    BY <2>1, <2>2, <2>3 DEF ByteIn
  <2>6. HexRun(s, x + 2, m)
    BY <2>2, <2>4, <2>5 DEF HexRun
  <2> QED
    BY <2>2, <2>3, <2>6
<1>4. ASSUME NEW y, NEW x \in I, Escaped(s, x, S), HexRun(s, x + 2, m), y = (x + 2) + m
      PROVE  y \in Class(s, J, HexDigit)
  <2>1. x \in Nat /\ m \in Nat /\ m \in 1..m /\ \A k \in 1..n : k \in 1..m
    OBVIOUS
  <2>2. HexRun(s, x + 2, n)
    <3>1. (x + 2) + m <= Len(s) /\ \A k \in 1..m : s[(x + 2) + k] \in HexDigit
      BY <1>4 DEF HexRun
    <3>2. (x + 2) + n <= Len(s)
      BY <2>1, <3>1
    <3> QED
      BY <2>1, <3>1, <3>2 DEF HexRun
  <2>3. PICK i \in 0..Len(s) : i = (x + 2) + n
    BY <2>1, <2>2 DEF HexRun
  <2>4. i \in J
    BY <1>1, <1>4, <2>2, <2>3
  <2>5. y = i + 1 /\ ByteIn(s, i, HexDigit)
    BY <1>4, <2>1, <2>3 DEF HexRun, ByteIn
  <2> QED
    BY <1>2, <2>4, <2>5
<1> QED
  BY <1>2, <1>3, <1>4 DEF HexAfter

\* The grammar's escapes are those of EscapeTo.
LEMMA EscapeEndsFacts ==
    ASSUME NEW s \in Seq(Byte), NEW I \in SUBSET (0..Len(s))
    PROVE  /\ EscapeEnds(s, I) \in SUBSET (0..Len(s))
           /\ \A y : y \in EscapeEnds(s, I) <=> \E x \in I : EscapeTo(s, x, y)
<1> DEFINE escape == Class(s, I, {BSlash})
           Hex(J) == Class(s, J, HexDigit)
           W(b) == Class(s, escape, {b})
           S1 == {117}
           S2 == {120}
           U == Class(s, escape, S1)
           X == Class(s, escape, S2)
           L == Word(s, escape, CrLf)
           O == Class(s, escape, SelfEscaped)
<1>1. EscapeEnds(s, I) = Hex(Hex(Hex(Hex(U)))) \cup Hex(Hex(X)) \cup L \cup O
  BY DEF EscapeEnds, CrLf, SelfEscaped
<1>2. /\ escape \in SUBSET (0..Len(s))
      /\ \A i : i \in escape <=> \E x \in I : i = x + 1 /\ ByteIn(s, x, {BSlash})
  <2>1. PICK S : S = {BSlash}
    OBVIOUS
  <2>2. /\ Class(s, I, S) \in SUBSET (0..Len(s))
        /\ \A i : i \in Class(s, I, S) <=> \E x \in I : i = x + 1 /\ ByteIn(s, x, S)
    BY ClassFacts
  <2> QED
    BY <2>1, <2>2
<1> HIDE DEF escape
<1>3. ASSUME NEW S
      PROVE  /\ Class(s, escape, S) \in SUBSET (0..Len(s))
             /\ \A y : y \in Class(s, escape, S) <=> \E x \in I : Escaped(s, x, S) /\ y = x + 2
  <2>1. /\ Class(s, escape, S) \in SUBSET (0..Len(s))
        /\ \A y : y \in Class(s, escape, S) <=> \E i \in escape : y = i + 1 /\ ByteIn(s, i, S)
    BY <1>2, ClassFacts
  <2>2. \A x \in I : (x + 1) + 1 = x + 2
    OBVIOUS
  <2>3. ASSUME NEW y \in Class(s, escape, S)
        PROVE  \E x \in I : Escaped(s, x, S) /\ y = x + 2
    <3>1. PICK i \in escape : y = i + 1 /\ ByteIn(s, i, S)
      BY <2>1
    <3>2. PICK x \in I : i = x + 1 /\ ByteIn(s, x, {BSlash})
      BY <1>2
    <3>3. y = x + 2
      BY <2>2, <3>1, <3>2
    <3> QED
      BY <3>1, <3>2, <3>3 DEF Escaped
  <2>4. ASSUME NEW y, NEW x \in I, Escaped(s, x, S), y = x + 2 PROVE y \in Class(s, escape, S)
    <3>1. PICK i : i = x + 1
      OBVIOUS
    <3>2. i \in escape /\ ByteIn(s, i, S)
      BY <1>2, <2>4, <3>1 DEF Escaped
    <3>3. y = i + 1
      BY <2>2, <2>4, <3>1
    <3> QED
      BY <2>1, <3>2, <3>3
  <2> QED
    BY <2>1, <2>3, <2>4
<1>4. ASSUME NEW S PROVE HexAfter(s, I, S, 0, Class(s, escape, S))
  <2>1. \A x \in I : Escaped(s, x, S) => HexRun(s, x + 2, 0) /\ x + 2 = (x + 2) + 0
    BY DEF HexRun, Escaped, ByteIn
  <2> QED
    BY <1>3, <2>1 DEF HexAfter
<1>5. HexAfter(s, I, S1, 4, Hex(Hex(Hex(Hex(U)))))
  <2>1. HexAfter(s, I, S1, 0, U)
    BY <1>4
  <2>2. PICK a \in Nat, b \in Nat, c \in Nat, d \in Nat, e \in Nat :
           a = 0 /\ b = 1 /\ c = 2 /\ d = 3 /\ e = 4
    OBVIOUS
  <2>3. b = a + 1 /\ c = b + 1 /\ d = c + 1 /\ e = d + 1
    BY <2>2
  <2> HIDE DEF U, S1
  <2>4. HexAfter(s, I, S1, b, Hex(U))
    BY <2>1, <2>2, <2>3, HexGrows
  <2>5. HexAfter(s, I, S1, c, Hex(Hex(U)))
    BY <2>3, <2>4, HexGrows
  <2>6. HexAfter(s, I, S1, d, Hex(Hex(Hex(U))))
    BY <2>3, <2>5, HexGrows
  <2>7. HexAfter(s, I, S1, e, Hex(Hex(Hex(Hex(U)))))
    BY <2>3, <2>6, HexGrows
  <2> QED
    BY <2>2, <2>7
<1>6. HexAfter(s, I, S2, 2, Hex(Hex(X)))
  <2>1. HexAfter(s, I, S2, 0, X)
    BY <1>4
  <2>2. PICK a \in Nat, b \in Nat, c \in Nat : a = 0 /\ b = 1 /\ c = 2
    OBVIOUS
  <2>3. b = a + 1 /\ c = b + 1
    BY <2>2
  <2> HIDE DEF X, S2
  <2>4. HexAfter(s, I, S2, b, Hex(X))
    BY <2>1, <2>2, <2>3, HexGrows
  <2>5. HexAfter(s, I, S2, c, Hex(Hex(X)))
    BY <2>3, <2>4, HexGrows
  <2> QED
    BY <2>2, <2>5
<1>7. /\ L \in SUBSET (0..Len(s))
      /\ \A y : y \in L <=> \E x \in I : /\ ByteIn(s, x, {BSlash})
                                         /\ OccursAt(s, x + 1, CrLf) /\ y = x + 3
  <2>1. CrLf \in Seq(Byte) /\ Len(CrLf) = 2
    BY DEF CrLf, CR, LF, Byte
  <2>2. /\ L \in SUBSET (0..Len(s))
        /\ \A y : y \in L <=> \E i \in escape : y = i + Len(CrLf) /\ OccursAt(s, i, CrLf)
    BY <1>2, <2>1, WordFacts
  <2>3. \A x \in I : (x + 1) + 2 = x + 3
    OBVIOUS
  <2>4. ASSUME NEW y \in L
        PROVE  \E x \in I : ByteIn(s, x, {BSlash}) /\ OccursAt(s, x + 1, CrLf) /\ y = x + 3
    <3>1. PICK i \in escape : y = i + 2 /\ OccursAt(s, i, CrLf)
      BY <2>1, <2>2
    <3>2. PICK x \in I : i = x + 1 /\ ByteIn(s, x, {BSlash})
      BY <1>2
    <3>3. y = x + 3
      BY <2>3, <3>1, <3>2
    <3> QED
      BY <3>1, <3>2, <3>3
  <2>5. ASSUME NEW y, NEW x \in I, ByteIn(s, x, {BSlash}), OccursAt(s, x + 1, CrLf), y = x + 3
        PROVE  y \in L
    <3>1. PICK i : i = x + 1
      OBVIOUS
    <3>2. i \in escape /\ OccursAt(s, i, CrLf)
      BY <1>2, <2>5, <3>1
    <3>3. y = i + 2
      BY <2>3, <2>5, <3>1
    <3> QED
      BY <2>1, <2>2, <3>2, <3>3
  <2> QED
    BY <2>2, <2>4, <2>5
<1>8. /\ O \in SUBSET (0..Len(s))
      /\ \A y : y \in O <=> \E x \in I : Escaped(s, x, SelfEscaped) /\ y = x + 2
  BY <1>3
<1> DEFINE A == Hex(Hex(Hex(Hex(U))))
           B == Hex(Hex(X))
<1>9. /\ A \in SUBSET (0..Len(s))
      /\ \A y : y \in A <=> \E x \in I : Escaped(s, x, {117}) /\ HexRun(s, x + 2, 4) /\ y = x + 6
  <2> HIDE DEF A
  <2>1. HexAfter(s, I, S1, 4, A)
    BY <1>5 DEF A
  <2>2. \A x \in I : HexRun(s, x + 2, 4) => x + 6 \in 0..Len(s)
    BY DEF HexRun
  <2>3. \A x \in I : (x + 2) + 4 = x + 6
    OBVIOUS
  <2> QED
    BY <2>1, <2>2, <2>3 DEF HexAfter
<1>10. /\ B \in SUBSET (0..Len(s))
       /\ \A y : y \in B <=> \E x \in I : Escaped(s, x, {120}) /\ HexRun(s, x + 2, 2) /\ y = x + 4
  <2> HIDE DEF B
  <2>1. HexAfter(s, I, S2, 2, B)
    BY <1>6 DEF B
  <2>2. \A x \in I : HexRun(s, x + 2, 2) => x + 4 \in 0..Len(s)
    BY DEF HexRun
  <2>3. \A x \in I : (x + 2) + 2 = x + 4
    OBVIOUS
  <2> QED
    BY <2>1, <2>2, <2>3 DEF HexAfter
<1> HIDE DEF A, B, L, O
<1>11. EscapeEnds(s, I) = A \cup B \cup L \cup O
  BY <1>1 DEF A, B, L, O
<1> QED
  BY <1>7, <1>8, <1>9, <1>10, <1>11 DEF EscapeTo

\* The bytes that stand for themselves in a string.
Plain(q) == Byte \ {q, BSlash, LF, CR}

\* A byte, or an escape, in a string that q closes.
QuotePiece(s, q, x, y) == \/ ByteIn(s, x, Plain(q)) /\ y = x + 1
                          \/ EscapeTo(s, x, y)

\* The steps of a string.
QuoteStep(s, q) == [x \in 0..Len(s) |-> {y \in 0..Len(s) : QuotePiece(s, q, x, y)}]

QuoteItem(s, q, I) == Class(s, I, Plain(q)) \cup EscapeEnds(s, I)

\* An escape has a byte behind the backslash.
LEMMA EscapeToForward ==
    ASSUME NEW s \in Seq(Byte), NEW x \in 0..Len(s), NEW y, EscapeTo(s, x, y)
    PROVE  y \in 0..Len(s) /\ x + 1 < y
<1>1. CASE Escaped(s, x, {117}) /\ HexRun(s, x + 2, 4) /\ y = x + 6
  BY <1>1 DEF HexRun
<1>2. CASE Escaped(s, x, {120}) /\ HexRun(s, x + 2, 2) /\ y = x + 4
  BY <1>2 DEF HexRun
<1>3. CASE ByteIn(s, x, {BSlash}) /\ OccursAt(s, x + 1, CrLf) /\ y = x + 3
  <2>1. Len(CrLf) = 2
    BY DEF CrLf
  <2> QED
    BY <1>3, <2>1 DEF OccursAt
<1>4. CASE Escaped(s, x, SelfEscaped) /\ y = x + 2
  BY <1>4 DEF Escaped, ByteIn
<1> QED
  BY <1>1, <1>2, <1>3, <1>4 DEF EscapeTo

\* A plain byte or an escape is a step on.
LEMMA QuoteStepFacts ==
    ASSUME NEW s \in Seq(Byte), NEW q
    PROVE  /\ Forward(QuoteStep(s, q), Len(s))
           /\ \A x \in 0..Len(s) : \A y : QuotePiece(s, q, x, y) <=> y \in QuoteStep(s, q)[x]
           /\ \A J \in SUBSET (0..Len(s)) :
                 QuoteItem(s, q, J) = UNION {QuoteStep(s, q)[x] : x \in J}
<1>1. ASSUME NEW x \in 0..Len(s), NEW y, QuotePiece(s, q, x, y)
      PROVE  y \in 0..Len(s) /\ x < y
  <2>1. CASE ByteIn(s, x, Plain(q)) /\ y = x + 1
    BY <2>1 DEF ByteIn
  <2>2. CASE EscapeTo(s, x, y)
    BY <2>2, EscapeToForward
  <2> QED
    BY <1>1, <2>1, <2>2 DEF QuotePiece
<1>2. \A x \in 0..Len(s) : \A y : QuotePiece(s, q, x, y) <=> y \in QuoteStep(s, q)[x]
  BY <1>1 DEF QuoteStep
<1>3. Forward(QuoteStep(s, q), Len(s))
  BY <1>1 DEF QuoteStep, Forward
<1>4. ASSUME NEW J \in SUBSET (0..Len(s))
      PROVE  QuoteItem(s, q, J) = UNION {QuoteStep(s, q)[x] : x \in J}
  <2>1. ASSUME NEW y PROVE y \in QuoteItem(s, q, J) <=> \E x \in J : QuotePiece(s, q, x, y)
    <3>1. y \in Class(s, J, Plain(q)) <=> \E x \in J : y = x + 1 /\ ByteIn(s, x, Plain(q))
      BY ClassFacts
    <3>2. y \in EscapeEnds(s, J) <=> \E x \in J : EscapeTo(s, x, y)
      BY EscapeEndsFacts
    <3>3. y \in QuoteItem(s, q, J) <=> y \in Class(s, J, Plain(q)) \/ y \in EscapeEnds(s, J)
      BY DEF QuoteItem
    <3> QED
      BY <3>1, <3>2, <3>3 DEF QuotePiece
  <2> QED
    BY <1>2, <2>1
<1> QED
  BY <1>2, <1>3, <1>4

\* A star over them reaches what the steps reach.
LEMMA QuoteStar ==
    ASSUME NEW s \in Seq(Byte), NEW q, NEW I \in SUBSET (0..Len(s)), I # {}
    PROVE  Star(s, I, LAMBDA J : QuoteItem(s, q, J)) = Reach(QuoteStep(s, q), Len(s), I)
<1> DEFINE N == Len(s)
           Computes(f) == f = [n \in 0..N |-> IF n = 0 THEN I
                                              ELSE f[n - 1] \cup QuoteItem(s, q, f[n - 1])]
           reach == CHOOSE f : Computes(f)
<1>1. N \in Nat /\ Forward(QuoteStep(s, q), N)
  BY QuoteStepFacts
<1>2. PICK h \in [0..N -> SUBSET (0..N)] : Rounds(h, QuoteStep(s, q), N, I)
  BY <1>1, RoundsExist
<1>3. Computes(h)
  <2>1. ASSUME NEW n \in 0..N
        PROVE  h[n] = IF n = 0 THEN I ELSE h[n - 1] \cup QuoteItem(s, q, h[n - 1])
    <3>1. CASE n = 0
      BY <1>2, <3>1 DEF Rounds
    <3>2. CASE n # 0
      <4>1. n \in 1..N /\ n - 1 \in 0..N
        BY <3>2
      <4>2. h[n - 1] \in SUBSET (0..N)
        BY <4>1
      <4> QED
        BY <1>2, <3>2, <4>1, <4>2, QuoteStepFacts DEF Rounds
    <3> QED
      BY <3>1, <3>2
  <2> QED
    BY <2>1
<1>4. Computes(reach)
  BY <1>3
<1>5. Star(s, I, LAMBDA J : QuoteItem(s, q, J)) = reach[N]
  BY DEF Star
<1> DEFINE T == {n \in 0..N : reach[n] = h[n]}
<1> HIDE DEF reach
<1>6. 0..N \subseteq T
  <2>1. 0 \in T
    BY <1>1, <1>3, <1>4
  <2>2. ASSUME NEW n \in 1..N, n - 1 \in T PROVE n \in T
    <3>1. n \in 0..N /\ n # 0 /\ reach[n - 1] = h[n - 1]
      BY <2>2
    <3>2. h[n] = h[n - 1] \cup QuoteItem(s, q, h[n - 1])
      BY <1>3, <3>1
    <3>3. reach[n] = reach[n - 1] \cup QuoteItem(s, q, reach[n - 1])
      BY <1>4, <3>1
    <3> QED
      BY <3>1, <3>2, <3>3
  <2> HIDE DEF T
  <2> QED
    BY <1>1, <2>1, <2>2, BoundedInduction
<1> QED
  BY <1>1, <1>2, <1>5, <1>6, RoundsReach

\* What is read from x on, in a string that q closes.
InString(s, q, x) == Reach(QuoteStep(s, q), Len(s), {x})

\* A string ends behind a closing byte that its bytes and escapes lead to.
LEMMA QuotedEndsFacts ==
    ASSUME NEW s \in Seq(Byte), NEW p \in 0..Len(s), NEW q
    PROVE  \A e : e \in QuotedEnds(s, p, q) <=>
                 ByteIn(s, p, {q}) /\ \E x \in InString(s, q, p + 1) : ByteIn(s, x, {q}) /\ e = x + 1
<1> DEFINE open == Class(s, {p}, {q})
           body == Star(s, open, LAMBDA J : QuoteItem(s, q, J))
<1>1. PICK Q : Q = {q}
  OBVIOUS
<1>2. open = IF ByteIn(s, p, Q) THEN {p + 1} ELSE {}
  <2>1. PICK I : I = {p}
    OBVIOUS
  <2>2. Class(s, I, Q) = IF ByteIn(s, p, Q) THEN {p + 1} ELSE {}
    BY <2>1, ClassOne
  <2> QED
    BY <1>1, <2>1, <2>2
<1>3. open \in SUBSET (0..Len(s))
  BY <1>2 DEF ByteIn
<1>4. \A x : x \in body <=> ByteIn(s, p, Q) /\ x \in InString(s, q, p + 1)
  <2>1. CASE ByteIn(s, p, Q)
    <3>1. open = {p + 1}
      BY <1>2, <2>1
    <3>2. body = Reach(QuoteStep(s, q), Len(s), open)
      <4> HIDE DEF open
      <4> QED
        BY <1>3, <3>1, QuoteStar
    <3> QED
      BY <2>1, <3>1, <3>2 DEF InString
  <2>2. CASE ~ByteIn(s, p, Q)
    <3>1. open = {}
      BY <1>2, <2>2
    <3>2. body = {}
      <4> HIDE DEF open
      <4> QED
        BY <3>1 DEF Star
    <3> QED
      BY <2>2, <3>2
  <2> QED
    BY <2>1, <2>2
<1>5. body \in SUBSET (0..Len(s))
  BY <1>4 DEF InString, Reach
<1>6. QuotedEnds(s, p, q) = Class(s, body, Q)
  BY <1>1 DEF QuotedEnds, QuoteItem, Plain
<1> HIDE DEF body, open
<1>7. \A e : e \in Class(s, body, Q) <=> \E x \in body : e = x + 1 /\ ByteIn(s, x, Q)
  BY <1>5, ClassFacts
<1> QED
  BY <1>1, <1>4, <1>6, <1>7

-----------------------------------------------------------------------------
(***************************************************************************)
(* A string is read from b on and q closes it: x is on the way, and every  *)
(* closing byte on the way lies behind x.                                  *)
(***************************************************************************)
Carries(s, q, b, x) ==
    /\ x \in InString(s, q, b)
    /\ \A r \in InString(s, q, b) : ByteIn(s, r, {q}) => r \in InString(s, q, x)

\* Nothing goes on at x, and the string does not end there.
Dead(s, q, x) == ~ByteIn(s, x, {q}) /\ \A y : ~QuotePiece(s, q, x, y)

\* A string from x on: nothing, or a piece and a string from there on.
LEMMA InStringFacts ==
    ASSUME NEW s \in Seq(Byte), NEW q, NEW x \in 0..Len(s)
    PROVE  /\ x \in InString(s, q, x)
           /\ InString(s, q, x) \in SUBSET (x..Len(s))
           /\ \A y : QuotePiece(s, q, x, y) => /\ y \in InString(s, q, x)
                                               /\ InString(s, q, y) \subseteq InString(s, q, x)
           /\ \A r \in InString(s, q, x) :
                 r = x \/ \E y : QuotePiece(s, q, x, y) /\ r \in InString(s, q, y)
<1> DEFINE N == Len(s)
           step == QuoteStep(s, q)
<1>1. /\ N \in Nat /\ Forward(step, N)
      /\ \A y : QuotePiece(s, q, x, y) <=> y \in step[x]
  BY QuoteStepFacts
<1>2. InString(s, q, x) = Reach(step, N, {x}) /\ {x} \in SUBSET (0..N)
  BY DEF InString
<1>3. x \in InString(s, q, x) /\ \A z \in InString(s, q, x) : step[z] \subseteq InString(s, q, x)
  <2> HIDE DEF step
  <2> QED
    BY <1>1, <1>2, ReachFacts
<1>4. \A r \in InString(s, q, x) : r \in 0..N /\ x <= r
  BY <1>1, <1>2, ReachForward
<1>5. ASSUME NEW y, QuotePiece(s, q, x, y)
      PROVE  y \in InString(s, q, x) /\ InString(s, q, y) \subseteq InString(s, q, x)
  <2>1. y \in InString(s, q, x)
    BY <1>1, <1>3, <1>5
  <2>2. Reach(step, N, {y}) \subseteq Reach(step, N, {x})
    BY <1>1, <1>2, <2>1, ReachOn
  <2> QED
    BY <1>2, <2>1, <2>2 DEF InString
<1>6. ASSUME NEW r \in InString(s, q, x), r # x
      PROVE  \E y : QuotePiece(s, q, x, y) /\ r \in InString(s, q, y)
  <2>1. PICK y \in step[x] : r \in Reach(step, N, {y})
    BY <1>1, <1>2, <1>6, ReachFirst
  <2> QED
    BY <1>1, <2>1 DEF InString
<1>7. InString(s, q, x) \in SUBSET (x..Len(s))
  BY <1>4
<1> QED
  BY <1>3, <1>5, <1>6, <1>7

\* Every string lies behind its start.
LEMMA CarriesStart ==
    ASSUME NEW s \in Seq(Byte), NEW q, NEW b \in 0..Len(s)
    PROVE  Carries(s, q, b, b)
BY InStringFacts DEF Carries

\* Where x may be.
LEMMA CarriesRange ==
    ASSUME NEW s \in Seq(Byte), NEW q, NEW b \in 0..Len(s), NEW x, Carries(s, q, b, x)
    PROVE  x \in b..Len(s) /\ x \in 0..Len(s)
<1>1. x \in b..Len(s)
  BY InStringFacts DEF Carries
<1> QED
  BY <1>1

\* One step further; what else the grammar might read there leads nowhere.
LEMMA CarriesOn ==
    ASSUME NEW s \in Seq(Byte), NEW q, NEW b \in 0..Len(s), NEW x, Carries(s, q, b, x),
           ~ByteIn(s, x, {q}), NEW y, QuotePiece(s, q, x, y),
           \A z : QuotePiece(s, q, x, z) => z = y \/ (z \in 0..Len(s) /\ Dead(s, q, z))
    PROVE  /\ Carries(s, q, b, y)
           /\ \A r \in InString(s, q, x) : ByteIn(s, r, {q}) => r \in InString(s, q, y)
<1>1. x \in 0..Len(s)
  BY CarriesRange
<1>2. \A r \in InString(s, q, x) :
         r = x \/ \E z : QuotePiece(s, q, x, z) /\ r \in InString(s, q, z)
  BY <1>1, InStringFacts
<1>3. y \in InString(s, q, x)
  BY <1>1, InStringFacts
<1>4. y \in InString(s, q, b)
  <2> DEFINE N == Len(s)
             step == QuoteStep(s, q)
  <2>1. N \in Nat /\ Forward(step, N)
    BY QuoteStepFacts
  <2>2. x \in Reach(step, N, {b})
    BY DEF Carries, InString
  <2> HIDE DEF step, N
  <2>3. Reach(step, N, {x}) \subseteq Reach(step, N, {b})
    BY <2>1, <2>2, ReachOn DEF N
  <2> QED
    BY <1>3, <2>3 DEF InString, N, step
<1>5. ASSUME NEW r \in InString(s, q, x), ByteIn(s, r, {q}) PROVE r \in InString(s, q, y)
  <2>1. r # x
    BY <1>5
  <2>2. PICK z : QuotePiece(s, q, x, z) /\ r \in InString(s, q, z)
    BY <1>2, <2>1
  <2>3. CASE z = y
    BY <2>2, <2>3
  <2>4. CASE z \in 0..Len(s) /\ Dead(s, q, z)
    <3>1. r = z
      BY <2>2, <2>4, InStringFacts DEF Dead
    <3> QED
      BY <1>5, <2>4, <3>1 DEF Dead
  <2> QED
    BY <2>2, <2>3, <2>4
<1> QED
  BY <1>4, <1>5 DEF Carries

\* Where the way ends, so does the string, or there is none.
LEMMA CarriesEnd ==
    ASSUME NEW s \in Seq(Byte), NEW q, NEW b \in 0..Len(s), NEW x, Carries(s, q, b, x),
           \A z : ~QuotePiece(s, q, x, z)
    PROVE  \A r \in InString(s, q, b) : ByteIn(s, r, {q}) => r = x
<1>1. x \in 0..Len(s)
  BY CarriesRange
<1>2. \A r \in InString(s, q, x) : r = x
  BY <1>1, InStringFacts
<1> QED
  BY <1>2 DEF Carries

\* The two quotes.
Quotes == {Quote, Apostrophe}

\* At a plain byte there is one piece, that byte.
LEMMA PlainPiece ==
    ASSUME NEW s \in Seq(Byte), NEW q \in Quotes, NEW x \in 0..Len(s), ByteIn(s, x, Plain(q))
    PROVE  /\ ~ByteIn(s, x, {q})
           /\ \A z : QuotePiece(s, q, x, z) <=> z = x + 1
<1>1. ~ByteIn(s, x, {q}) /\ ~ByteIn(s, x, {BSlash})
  BY DEF ByteIn, Plain
<1>2. \A z : ~EscapeTo(s, x, z)
  BY <1>1 DEF EscapeTo, Escaped
<1> QED
  BY <1>1, <1>2 DEF QuotePiece

\* At a byte that is neither plain nor a backslash there is no piece.
LEMMA NoPiece ==
    ASSUME NEW s \in Seq(Byte), NEW q \in Quotes, NEW x \in 0..Len(s),
           ~ByteIn(s, x, Plain(q)), ~ByteIn(s, x, {BSlash})
    PROVE  \A z : ~QuotePiece(s, q, x, z)
BY DEF QuotePiece, EscapeTo, Escaped

\* At a backslash the pieces are the escapes.
LEMMA EscapePieces ==
    ASSUME NEW s \in Seq(Byte), NEW q \in Quotes, NEW x \in 0..Len(s), ByteIn(s, x, {BSlash})
    PROVE  /\ ~ByteIn(s, x, {q})
           /\ \A z : QuotePiece(s, q, x, z) <=> EscapeTo(s, x, z)
<1>1. ~ByteIn(s, x, {q}) /\ ~ByteIn(s, x, Plain(q))
  BY DEF ByteIn, Plain, Quotes, Quote, Apostrophe, BSlash
<1> QED
  BY <1>1 DEF QuotePiece

\* What is to know of CR LF at x.
CrLfFacts(s, x) == /\ CrLf \in Seq(Byte) /\ Len(CrLf) = 2
                   /\ OccursAt(s, x, CrLf) <=> ByteIn(s, x, {CR}) /\ ByteIn(s, x + 1, {LF})

\* The line ending of two bytes.
LEMMA CrLfBytes ==
    ASSUME NEW s \in Seq(Byte), NEW x \in Nat
    PROVE  CrLfFacts(s, x)
<1>1. CrLf \in Seq(Byte) /\ Len(CrLf) = 2 /\ CrLf[1] = CR /\ CrLf[2] = LF
  BY DEF CrLf, CR, LF, Byte
<1>2. OccursAt(s, x, CrLf) <=> x + 2 <= Len(s) /\ s[x + 1] = CR /\ s[x + 2] = LF
  BY <1>1 DEF OccursAt
<1>3. ByteIn(s, x, {CR}) /\ ByteIn(s, x + 1, {LF})
         <=> x + 2 <= Len(s) /\ s[x + 1] = CR /\ s[x + 2] = LF
  BY DEF ByteIn
<1> QED
  BY <1>1, <1>2, <1>3 DEF CrLfFacts

\* What the grammar makes of an escape, by the byte behind the backslash.
LEMMA EscapeCases ==
    ASSUME NEW s \in Seq(Byte), NEW x \in 0..Len(s), ByteIn(s, x, {BSlash})
    PROVE  /\ ~ByteIn(s, x + 1, {117} \cup {120} \cup SelfEscaped) => \A z : ~EscapeTo(s, x, z)
           /\ ByteIn(s, x + 1, {117}) =>
                 \A z : EscapeTo(s, x, z) <=> HexRun(s, x + 2, 4) /\ z = x + 6
           /\ ByteIn(s, x + 1, {120}) =>
                 \A z : EscapeTo(s, x, z) <=> HexRun(s, x + 2, 2) /\ z = x + 4
           /\ ByteIn(s, x + 1, SelfEscaped) /\ ~OccursAt(s, x + 1, CrLf) =>
                 \A z : EscapeTo(s, x, z) <=> z = x + 2
           /\ OccursAt(s, x + 1, CrLf) =>
                 \A z : EscapeTo(s, x, z) <=> z = x + 2 \/ z = x + 3
<1>1. CrLfFacts(s, x + 1)
  BY CrLfBytes
<1>2. \A z : EscapeTo(s, x, z) <=>
         \/ ByteIn(s, x + 1, {117}) /\ HexRun(s, x + 2, 4) /\ z = x + 6
         \/ ByteIn(s, x + 1, {120}) /\ HexRun(s, x + 2, 2) /\ z = x + 4
         \/ OccursAt(s, x + 1, CrLf) /\ z = x + 3
         \/ ByteIn(s, x + 1, SelfEscaped) /\ z = x + 2
  BY DEF EscapeTo, Escaped
<1>3. OccursAt(s, x + 1, CrLf) => ByteIn(s, x + 1, {CR})
  BY <1>1 DEF CrLfFacts
<1>4. ByteIn(s, x + 1, {CR}) => ByteIn(s, x + 1, SelfEscaped)
  BY DEF ByteIn, SelfEscaped, CR, Byte
<1>5. ~(ByteIn(s, x + 1, {117}) /\ ByteIn(s, x + 1, {120}))
  BY DEF ByteIn
<1>6. ByteIn(s, x + 1, SelfEscaped) => ~ByteIn(s, x + 1, {117}) /\ ~ByteIn(s, x + 1, {120})
  BY DEF ByteIn, SelfEscaped
<1>7. ByteIn(s, x + 1, {117} \cup {120} \cup SelfEscaped)
        <=> ByteIn(s, x + 1, {117}) \/ ByteIn(s, x + 1, {120}) \/ ByteIn(s, x + 1, SelfEscaped)
  BY DEF ByteIn
<1> QED
  BY <1>2, <1>3, <1>4, <1>5, <1>6, <1>7

\* Behind "\" CR, when LF follows, the grammar may only go on behind the LF.
LEMMA CrDead ==
    ASSUME NEW s \in Seq(Byte), NEW q \in Quotes, NEW x \in 0..Len(s),
           OccursAt(s, x + 1, CrLf)
    PROVE  x + 2 \in 0..Len(s) /\ Dead(s, q, x + 2)
<1>1. CrLfFacts(s, x + 1)
  BY CrLfBytes
<1>2. (x + 1) + 1 = x + 2
  OBVIOUS
<1>3. ByteIn(s, x + 2, {LF})
  BY <1>1, <1>2 DEF CrLfFacts
<1>4. ~ByteIn(s, x + 2, {q}) /\ ~ByteIn(s, x + 2, Plain(q)) /\ ~ByteIn(s, x + 2, {BSlash})
  BY <1>3 DEF ByteIn, Plain, Quotes, Quote, Apostrophe, BSlash, LF
<1>5. x + 2 \in 0..Len(s)
  BY <1>3 DEF ByteIn
<1> QED
  BY <1>4, <1>5, NoPiece DEF Dead

-----------------------------------------------------------------------------
(***************************************************************************)
(* decode_string.                                                          *)
(***************************************************************************)
\* What the loop appends at index i, and one round of the loop.
DecodePiece(raw, i) ==
    IF raw[i + 1] = BSlash THEN EscapePiece(raw, i, Len(raw) - 1)
    ELSE Piece(TRUE, <<raw[i + 1]>>, i + 1)

\* One round of decode_string's loop.
DecodeRound(raw, done) ==
    IF done.next >= Len(raw) - 1 THEN done
    ELSE Piece(done.ok /\ DecodePiece(raw, done.next).ok,
               done.bytes \o DecodePiece(raw, done.next).bytes,
               DecodePiece(raw, done.next).next)

\* Before the first round.
DecodeStart == Piece(TRUE, <<>>, 1)

\* All rounds.
DecodeLoop(raw) ==
    CHOOSE loop : loop = [n \in 0..(Len(raw) - 1) |->
                            IF n = 0 THEN DecodeStart ELSE DecodeRound(raw, loop[n - 1])]

\* The rounds of decode_string.
LEMMA DecodeLoopFacts ==
    ASSUME NEW raw, NEW N \in Nat, N = Len(raw) - 1
    PROVE  /\ DecodeLoop(raw)[0] = DecodeStart
           /\ \A n \in 1..N : DecodeLoop(raw)[n] = DecodeRound(raw, DecodeLoop(raw)[n - 1])
           /\ DecodeString(raw) = DecodeLoop(raw)[N]
<1> DEFINE Good(f, n) == /\ f[0] = DecodeStart
                         /\ \A m \in 1..n : f[m] = DecodeRound(raw, f[m - 1])
           T == {n \in 0..N : \E f : Good(f, n)}
           Computes(f) == f = [n \in 0..N |-> IF n = 0 THEN DecodeStart
                                              ELSE DecodeRound(raw, f[n - 1])]
<1>1. 0 \in T
  <2>1. PICK f : f = [m \in 0..N |-> DecodeStart]
    OBVIOUS
  <2>2. f[0] = DecodeStart /\ \A m \in 1..0 : f[m] = DecodeRound(raw, f[m - 1])
    BY <2>1
  <2> QED
    BY <2>2
<1>2. ASSUME NEW n \in 1..N, n - 1 \in T PROVE n \in T
  <2>1. PICK f : Good(f, n - 1)
    BY <1>2
  <2>2. PICK g : g = [m \in 0..N |-> IF m = n THEN DecodeRound(raw, f[n - 1]) ELSE f[m]]
    OBVIOUS
  <2>3. g[0] = DecodeStart
    BY <2>1, <2>2
  <2>4. ASSUME NEW m \in 1..n PROVE g[m] = DecodeRound(raw, g[m - 1])
    <3>1. m - 1 \in 0..N /\ m - 1 # n /\ m \in 0..N
      OBVIOUS
    <3>2. g[m - 1] = f[m - 1]
      BY <2>2, <3>1
    <3>3. CASE m = n
      BY <2>2, <3>1, <3>2, <3>3
    <3>4. CASE m # n
      <4>1. m \in 1..(n - 1)
        BY <3>4
      <4>2. f[m] = DecodeRound(raw, f[m - 1])
        BY <2>1, <4>1
      <4>3. g[m] = f[m]
        BY <2>2, <3>1, <3>4
      <4> QED
        BY <3>2, <4>2, <4>3
    <3> QED
      BY <3>3, <3>4
  <2>5. Good(g, n)
    BY <2>3, <2>4
  <2> QED
    BY <2>5
<1>3. 0..N \subseteq T
  <2> HIDE DEF T
  <2> QED
    BY <1>1, <1>2, BoundedInduction
<1>4. PICK f : Good(f, N)
  <2>1. N \in T
    <3>1. N \in 0..N
      OBVIOUS
    <3> HIDE DEF T
    <3> QED
      BY <1>3, <3>1
  <2> QED
    BY <2>1
<1>5. PICK h : h = [m \in 0..N |-> f[m]]
  OBVIOUS
<1>6. Computes(h)
  <2>1. ASSUME NEW n \in 0..N
        PROVE  h[n] = IF n = 0 THEN DecodeStart ELSE DecodeRound(raw, h[n - 1])
    <3>1. CASE n = 0
      BY <1>4, <1>5, <3>1
    <3>2. CASE n # 0
      <4>1. n \in 1..N /\ n - 1 \in 0..N
        BY <3>2
      <4> QED
        BY <1>4, <1>5, <3>2, <4>1
    <3> QED
      BY <3>1, <3>2
  <2>2. h = [n \in 0..N |-> h[n]]
    BY <1>5
  <2> HIDE DEF Good
  <2> QED
    BY <2>1, <2>2
<1>7. Computes(DecodeLoop(raw))
  <2> HIDE DEF Good
  <2> QED
    BY <1>6 DEF DecodeLoop
<1>8. DecodeString(raw) = DecodeLoop(raw)[N]
  BY DEF DecodeString, DecodeLoop, DecodeRound, DecodePiece, DecodeStart
<1> HIDE DEF Good, T
<1>9. \A n \in 1..N : DecodeLoop(raw)[n] = DecodeRound(raw, DecodeLoop(raw)[n - 1])
  <2>1. \A n \in 1..N : n \in 0..N /\ n # 0
    OBVIOUS
  <2> QED
    BY <1>7, <2>1
<1>10. DecodeLoop(raw)[0] = DecodeStart
  <2>1. 0 \in 0..N
    OBVIOUS
  <2> QED
    BY <1>7, <2>1
<1> QED
  BY <1>8, <1>9, <1>10

\* The loop comes to index i, and what it has then is `bytes`.
Decoding(raw, i, bytes) ==
    \E n \in Nat : /\ n < i /\ n <= Len(raw) - 1
                   /\ DecodeLoop(raw)[n] = Piece(TRUE, bytes, i)

\* The loop begins behind the opening quote.
LEMMA DecodingStart ==
    ASSUME NEW raw, NEW N \in Nat, N = Len(raw) - 1
    PROVE  Decoding(raw, 1, <<>>)
<1>1. DecodeLoop(raw)[0] = Piece(TRUE, <<>>, 1)
  BY DecodeLoopFacts DEF DecodeStart
<1>2. 0 \in Nat /\ 0 < 1 /\ 0 <= Len(raw) - 1
  OBVIOUS
<1> QED
  BY <1>1, <1>2 DEF Decoding

\* A round appended the piece's bytes.
Appends(raw, n, bytes, piece) ==
    /\ piece.ok => DecodeLoop(raw)[n] = Piece(TRUE, bytes \o piece.bytes, piece.next)
    /\ ~piece.ok => ~DecodeLoop(raw)[n].ok

\* The next round, if the index is before the closing quote.
LEMMA DecodingRound ==
    ASSUME NEW raw, NEW N \in Nat, N = Len(raw) - 1, NEW i \in Nat, i < N,
           NEW bytes, Decoding(raw, i, bytes), NEW piece, piece = DecodePiece(raw, i)
    PROVE  \E n \in 1..N : n <= i /\ Appends(raw, n, bytes, piece)
<1>1. PICK m \in Nat : m < i /\ m <= N /\ DecodeLoop(raw)[m] = Piece(TRUE, bytes, i)
  BY DEF Decoding
<1>2. PICK n \in 1..N : n = m + 1 /\ n - 1 = m /\ n <= i
  BY <1>1
<1>3. DecodeLoop(raw)[n] = DecodeRound(raw, DecodeLoop(raw)[m])
  BY <1>2, DecodeLoopFacts
<1>4. PICK done : done = Piece(TRUE, bytes, i)
  OBVIOUS
<1>5. done.ok /\ done.bytes = bytes /\ done.next = i
  BY <1>4 DEF Piece
<1>6. ~(i >= Len(raw) - 1)
  OBVIOUS
<1>7. DecodeRound(raw, done) = Piece(done.ok /\ piece.ok, done.bytes \o piece.bytes, piece.next)
  BY <1>5, <1>6, Zenon DEF DecodeRound
<1>8. DecodeLoop(raw)[n] = Piece(done.ok /\ piece.ok, done.bytes \o piece.bytes, piece.next)
  BY <1>1, <1>3, <1>4, <1>7, Zenon
<1>9. DecodeLoop(raw)[n] = Piece(done.ok /\ piece.ok, bytes \o piece.bytes, piece.next)
  BY <1>5, <1>8, Zenon
<1>10. piece.ok => DecodeLoop(raw)[n] = Piece(TRUE, bytes \o piece.bytes, piece.next)
  <2>1. piece.ok => Piece(done.ok /\ piece.ok, bytes \o piece.bytes, piece.next)
                     = Piece(TRUE, bytes \o piece.bytes, piece.next)
    BY <1>5 DEF Piece
  <2> QED
    BY <1>9, <2>1, Zenon
<1>11. ~piece.ok => ~DecodeLoop(raw)[n].ok
  <2>1. ~piece.ok => ~Piece(done.ok /\ piece.ok, bytes \o piece.bytes, piece.next).ok
    BY DEF Piece
  <2> QED
    BY <1>9, <2>1, Zenon
<1>12. Appends(raw, n, bytes, piece)
  BY <1>10, <1>11, Zenon DEF Appends
<1> QED
  BY <1>2, <1>12

\* One round of the loop.
LEMMA DecodingOn ==
    ASSUME NEW raw, NEW N \in Nat, N = Len(raw) - 1, NEW i \in Nat, i < N,
           NEW bytes, Decoding(raw, i, bytes), NEW more, NEW j \in Nat, i < j,
           DecodePiece(raw, i) = Piece(TRUE, more, j), NEW all, all = bytes \o more
    PROVE  Decoding(raw, j, all)
<1>1. PICK piece : piece = DecodePiece(raw, i)
  OBVIOUS
<1>2. piece.ok /\ piece.bytes = more /\ piece.next = j
  <2>1. piece = Piece(TRUE, more, j)
    BY <1>1
  <2> QED
    BY <2>1 DEF Piece
<1>3. PICK n \in 1..N : n <= i /\ Appends(raw, n, bytes, piece)
  BY <1>1, DecodingRound
<1>4. DecodeLoop(raw)[n] = Piece(TRUE, all, j)
  BY <1>2, <1>3, Zenon DEF Appends
<1>5. n \in Nat /\ n < j /\ n <= Len(raw) - 1
  BY <1>3
<1> QED
  BY <1>4, <1>5 DEF Decoding

\* At the closing quote the string is decoded.
LEMMA DecodingEnd ==
    ASSUME NEW raw, NEW N \in Nat, N = Len(raw) - 1, NEW bytes, Decoding(raw, N, bytes)
    PROVE  DecodeString(raw).ok /\ DecodeString(raw).bytes = bytes
<1>0. PICK done : done = Piece(TRUE, bytes, N)
  OBVIOUS
<1>1. PICK m \in Nat : m < N /\ DecodeLoop(raw)[m] = done
  BY <1>0 DEF Decoding
<1>1a. DecodeRound(raw, done) = done
  <2>1. done.next >= Len(raw) - 1
    <3>1. done.next = N
      BY <1>0 DEF Piece
    <3> QED
      BY <3>1
  <2> QED
    BY <2>1, Zenon DEF DecodeRound
<1> DEFINE T == {n \in 0..N : n >= m => DecodeLoop(raw)[n] = done}
<1>2. 0 \in T
  BY <1>1
<1>3. ASSUME NEW n \in 1..N, n - 1 \in T PROVE n \in T
  <2>1. CASE n <= m
    BY <1>1, <2>1
  <2>2. CASE n > m
    <3>1. DecodeLoop(raw)[n - 1] = done
      BY <1>3, <2>2
    <3>2. DecodeLoop(raw)[n] = DecodeRound(raw, DecodeLoop(raw)[n - 1])
      BY DecodeLoopFacts
    <3> QED
      BY <1>1a, <3>1, <3>2
  <2> QED
    BY <1>1, <2>1, <2>2
<1>4. 0..N \subseteq T
  <2> HIDE DEF T
  <2> QED
    BY <1>2, <1>3, BoundedInduction
<1>5. DecodeLoop(raw)[N] = done
  <2>1. N \in 0..N /\ N >= m
    BY <1>1
  <2> QED
    BY <1>4, <2>1
<1>6. DecodeString(raw) = done
  BY <1>5, DecodeLoopFacts
<1>7. done.ok /\ done.bytes = bytes
  BY <1>0 DEF Piece
<1> QED
  BY <1>6, <1>7

\* One piece that cannot be decoded is enough.
LEMMA DecodingFails ==
    ASSUME NEW raw, NEW N \in Nat, N = Len(raw) - 1, NEW i \in Nat, i < N,
           NEW bytes, Decoding(raw, i, bytes), ~DecodePiece(raw, i).ok
    PROVE  ~DecodeString(raw).ok
<1>1. PICK piece : piece = DecodePiece(raw, i)
  OBVIOUS
<1>2. ~piece.ok
  BY <1>1, Zenon
<1>3. PICK m \in 1..N : ~DecodeLoop(raw)[m].ok
  <2>1. PICK n \in 1..N : n <= i /\ Appends(raw, n, bytes, piece)
    BY <1>1, DecodingRound
  <2> QED
    BY <1>2, <2>1, Zenon DEF Appends
<1> DEFINE T == {n \in 0..N : n >= m => ~DecodeLoop(raw)[n].ok}
<1>4. 0 \in T
  OBVIOUS
<1>5. ASSUME NEW n \in 1..N, n - 1 \in T PROVE n \in T
  <2>1. CASE n < m
    BY <2>1
  <2>2. CASE n = m
    BY <1>3, <2>2
  <2>3. CASE n > m
    <3>1. PICK done : done = DecodeLoop(raw)[n - 1]
      OBVIOUS
    <3>2. ~done.ok
      BY <1>5, <2>3, <3>1
    <3>3. DecodeLoop(raw)[n] = DecodeRound(raw, done)
      BY <3>1, DecodeLoopFacts
    <3>4. ~DecodeRound(raw, done).ok
      <4>1. CASE done.next >= Len(raw) - 1
        BY <3>2, <4>1, Zenon DEF DecodeRound
      <4>2. CASE ~(done.next >= Len(raw) - 1)
        <5>1. PICK part : part = DecodePiece(raw, done.next)
          OBVIOUS
        <5>2. DecodeRound(raw, done)
                = Piece(done.ok /\ part.ok, done.bytes \o part.bytes, part.next)
          BY <4>2, <5>1, Zenon DEF DecodeRound
        <5>3. ~Piece(done.ok /\ part.ok, done.bytes \o part.bytes, part.next).ok
          BY <3>2 DEF Piece
        <5> QED
          BY <5>2, <5>3, Zenon
      <4> QED
        BY <4>1, <4>2
    <3> QED
      BY <3>3, <3>4
  <2> QED
    BY <2>1, <2>2, <2>3
<1>6. 0..N \subseteq T
  <2> HIDE DEF T
  <2> QED
    BY <1>4, <1>5, BoundedInduction
<1>7. ~DecodeLoop(raw)[N].ok
  <2>1. N \in 0..N /\ N >= m
    OBVIOUS
  <2> QED
    BY <1>6, <2>1
<1> QED
  BY <1>7, DecodeLoopFacts

-----------------------------------------------------------------------------
(***************************************************************************)
(* A string is open since offset p, where the quote q is; what lies before *)
(* x is decoded and is `bytes`, wherever the string may end.               *)
(***************************************************************************)
StringSoFar(s, q, p, x, bytes) ==
    /\ p + 1 \in 0..Len(s)
    /\ ByteIn(s, p, {q})
    /\ Carries(s, q, p + 1, x)
    /\ \A r \in InString(s, q, x) :
          ByteIn(s, r, {q}) => Decoding(Slice(s, p, r + 1), x - p, bytes)

\* The token that starts at p and that the closing quote at r ends.
TokenAt(s, p, r, raw) == /\ Len(raw) = (r - p) + 1
                         /\ \A k \in 1..((r - p) + 1) : raw[k] = s[p + k]

\* The text of a token, byte by byte.
LEMMA TokenBytes ==
    ASSUME NEW s \in Seq(Byte), NEW p \in Nat, NEW r \in p..(Len(s) - 1), NEW raw, raw = Slice(s, p, r + 1)
    PROVE  TokenAt(s, p, r, raw)
<1>1. raw = SubSeq(s, p + 1, r + 1)
  BY DEF Slice
<1>2. (r + 1) - (p + 1) + 1 = (r - p) + 1 /\ (r - p) + 1 \in Nat /\ r + 1 \in Nat
  OBVIOUS
<1>3. Len(raw) = (r - p) + 1
  BY <1>1, <1>2
<1>4. ASSUME NEW k \in 1..((r - p) + 1) PROVE raw[k] = s[p + k]
  BY <1>1, <1>2
<1> QED
  BY <1>3, <1>4 DEF TokenAt

\* Behind the opening quote, nothing is decoded.
LEMMA StringStart ==
    ASSUME NEW s \in Seq(Byte), NEW q, NEW p \in Nat, ByteIn(s, p, {q}), NEW x, x = p + 1
    PROVE  StringSoFar(s, q, p, x, <<>>)
<1>1. x \in 0..Len(s)
  BY DEF ByteIn
<1>2. Carries(s, q, x, x)
  BY <1>1, CarriesStart
<1>3. ASSUME NEW r \in InString(s, q, x), ByteIn(s, r, {q})
      PROVE  Decoding(Slice(s, p, r + 1), x - p, <<>>)
  <2>1. r \in x..Len(s) /\ r < Len(s)
    BY <1>1, <1>3, InStringFacts DEF ByteIn
  <2>2. PICK raw : raw = Slice(s, p, r + 1)
    OBVIOUS
  <2>3. r \in p..(Len(s) - 1)
    BY <2>1
  <2>4. Len(raw) = (r - p) + 1
    BY <2>2, <2>3, TokenBytes DEF TokenAt
  <2>5. PICK N \in Nat : N = Len(raw) - 1
    BY <2>3, <2>4
  <2>6. Decoding(raw, 1, <<>>)
    BY <2>5, DecodingStart
  <2>7. x - p = 1
    OBVIOUS
  <2> QED
    BY <2>2, <2>6, <2>7
<1> QED
  BY <1>1, <1>2, <1>3 DEF StringSoFar

\* What the loop appends at x does not depend on where the string ends.
PieceTo(s, q, p, x, y, more) ==
    \A r \in y..(Len(s) - 1) : ByteIn(s, r, {q}) =>
        DecodePiece(Slice(s, p, r + 1), x - p) = Piece(TRUE, more, y - p)

\* A piece more, and what it decodes to.
LEMMA StringOn ==
    ASSUME NEW s \in Seq(Byte), NEW q, NEW p \in Nat, NEW x, NEW bytes,
           StringSoFar(s, q, p, x, bytes), NEW y, Carries(s, q, p + 1, y),
           y \in InString(s, q, x), x # y, NEW more, PieceTo(s, q, p, x, y, more),
           NEW all, all = bytes \o more
    PROVE  StringSoFar(s, q, p, y, all)
<1>1. p + 1 \in 0..Len(s) /\ x \in (p + 1)..Len(s)
  BY CarriesRange DEF StringSoFar
<1>2. y \in (x + 1)..Len(s) /\ InString(s, q, y) \subseteq InString(s, q, x)
  <2>1. y \in x..Len(s)
    BY <1>1, InStringFacts
  <2>2. y \in (x + 1)..Len(s)
    BY <1>1, <2>1
  <2> DEFINE N == Len(s)
             step == QuoteStep(s, q)
  <2>3. N \in Nat /\ Forward(step, N)
    BY QuoteStepFacts
  <2>4. y \in Reach(step, N, {x}) /\ {x} \in SUBSET (0..N)
    BY <1>1 DEF InString
  <2> HIDE DEF step, N
  <2>5. Reach(step, N, {y}) \subseteq Reach(step, N, {x})
    BY <2>3, <2>4, ReachOn
  <2> QED
    BY <2>2, <2>5 DEF InString, N, step
<1>3. ASSUME NEW r \in InString(s, q, y), ByteIn(s, r, {q})
      PROVE  Decoding(Slice(s, p, r + 1), y - p, all)
  <2>1. r \in y..(Len(s) - 1)
    <3>1. r \in y..Len(s)
      BY <1>1, <1>2, InStringFacts
    <3> QED
      BY <1>3, <3>1 DEF ByteIn
  <2>2. PICK raw : raw = Slice(s, p, r + 1)
    OBVIOUS
  <2>3. r \in p..(Len(s) - 1)
    BY <1>1, <1>2, <2>1
  <2>4. Len(raw) = (r - p) + 1
    BY <2>2, <2>3, TokenBytes DEF TokenAt
  <2>5. PICK N \in Nat : N = Len(raw) - 1
    BY <2>3, <2>4
  <2>6. PICK i \in Nat : i = x - p
    BY <1>1
  <2>7. PICK j \in Nat : j = y - p
    BY <1>1, <1>2
  <2>8. i < N /\ i < j
    BY <1>1, <1>2, <2>1, <2>4, <2>5, <2>6, <2>7
  <2>9. Decoding(raw, i, bytes)
    BY <1>2, <1>3, <2>2, <2>6 DEF StringSoFar
  <2>10. DecodePiece(raw, i) = Piece(TRUE, more, j)
    BY <1>3, <2>1, <2>2, <2>6, <2>7 DEF PieceTo
  <2>11. Decoding(raw, j, all)
    BY <2>5, <2>8, <2>9, <2>10, DecodingOn
  <2> QED
    BY <2>2, <2>7, <2>11
<1> QED
  BY <1>1, <1>3 DEF StringSoFar

\* decode_string takes the token raw and finds these bytes in it.
DecodesTo(raw, bytes) == DecodeString(raw).ok /\ DecodeString(raw).bytes = bytes

\* The closing quote: the token ends behind it, and is what was decoded.
LEMMA StringClosed ==
    ASSUME NEW s \in Seq(Byte), NEW q \in Quotes, NEW p \in Nat, NEW x, NEW bytes,
           StringSoFar(s, q, p, x, bytes), ByteIn(s, x, {q}), NEW raw, raw = Slice(s, p, x + 1)
    PROVE  /\ QuotedEnds(s, p, q) = {x + 1}
           /\ DecodesTo(raw, bytes)
<1>1. p + 1 \in 0..Len(s) /\ p \in 0..Len(s) /\ x \in (p + 1)..Len(s) /\ x \in 0..Len(s)
  BY CarriesRange DEF StringSoFar
<1>2. \A z : ~QuotePiece(s, q, x, z)
  <2>1. ~ByteIn(s, x, Plain(q)) /\ ~ByteIn(s, x, {BSlash})
    BY DEF ByteIn, Plain, Quotes, Quote, Apostrophe, BSlash
  <2> QED
    BY <1>1, <2>1, NoPiece
<1>3. \A r \in InString(s, q, p + 1) : ByteIn(s, r, {q}) => r = x
  BY <1>1, <1>2, CarriesEnd DEF StringSoFar
<1>4. x \in InString(s, q, p + 1)
  BY DEF StringSoFar, Carries
<1>5. \A e : e \in QuotedEnds(s, p, q) <=> e = x + 1
  BY <1>1, <1>3, <1>4, QuotedEndsFacts DEF StringSoFar
<1>6. x \in p..(Len(s) - 1)
  BY <1>1 DEF ByteIn
<1>7. Len(raw) = (x - p) + 1
  BY <1>6, TokenBytes DEF TokenAt
<1>8. PICK N \in Nat : N = Len(raw) - 1 /\ N = x - p
  BY <1>1, <1>7
<1>9. Decoding(raw, N, bytes)
  BY <1>1, <1>8, InStringFacts DEF StringSoFar
<1>10. DecodesTo(raw, bytes)
  BY <1>8, <1>9, DecodingEnd DEF DecodesTo
<1> QED
  BY <1>5, <1>10

\* No string token starts at p that can be decoded.
NoString(s, p, q) == \A e \in QuotedEnds(s, p, q) : ~DecodeString(Slice(s, p, e)).ok

\* A piece that decoding rejects wherever the string ends: no string is decoded.
LEMMA StringFails ==
    ASSUME NEW s \in Seq(Byte), NEW q, NEW p \in Nat, NEW x, NEW bytes,
           StringSoFar(s, q, p, x, bytes),
           \A r \in InString(s, q, x) :
               ByteIn(s, r, {q}) => r # x /\ ~DecodePiece(Slice(s, p, r + 1), x - p).ok
    PROVE  NoString(s, p, q)
<1>1. p + 1 \in 0..Len(s) /\ p \in 0..Len(s) /\ x \in (p + 1)..Len(s) /\ x \in 0..Len(s)
  BY CarriesRange DEF StringSoFar
<1>1a. \A e : e \in QuotedEnds(s, p, q) <=>
           ByteIn(s, p, {q}) /\ \E r \in InString(s, q, p + 1) : ByteIn(s, r, {q}) /\ e = r + 1
    BY <1>1, QuotedEndsFacts
<1>2. ASSUME NEW e \in QuotedEnds(s, p, q) PROVE ~DecodeString(Slice(s, p, e)).ok
  <2>1. PICK r \in InString(s, q, p + 1) : ByteIn(s, r, {q}) /\ e = r + 1
    BY <1>1a, <1>2, Zenon
  <2>2. r \in InString(s, q, x)
    BY <2>1 DEF StringSoFar, Carries
  <2>3. r \in x..Len(s)
    BY <1>1, <2>2, InStringFacts
  <2>4. r # x /\ ~DecodePiece(Slice(s, p, r + 1), x - p).ok
    BY <2>1, <2>2
  <2>5. r \in p..(Len(s) - 1) /\ x < r
    BY <1>1, <2>1, <2>3, <2>4 DEF ByteIn
  <2>6. PICK raw : raw = Slice(s, p, r + 1)
    OBVIOUS
  <2>7. Len(raw) = (r - p) + 1
    BY <2>5, <2>6, TokenBytes DEF TokenAt
  <2>8. PICK N \in Nat : N = Len(raw) - 1
    BY <2>5, <2>7
  <2>9. PICK i \in Nat : i = x - p
    BY <1>1
  <2>10. i < N
    BY <1>1, <2>5, <2>7, <2>8, <2>9
  <2>11. Decoding(raw, i, bytes)
    BY <2>1, <2>2, <2>6, <2>9 DEF StringSoFar
  <2>12. ~DecodePiece(raw, i).ok
    BY <2>4, <2>6, <2>9
  <2>13. ~DecodeString(raw).ok
    BY <2>8, <2>10, <2>11, <2>12, DecodingFails
  <2> QED
    BY <2>1, <2>6, <2>13
<1> QED
  BY <1>2 DEF NoString

-----------------------------------------------------------------------------
(***************************************************************************)
(* The bytes from x on, seen from the token that starts at p and that the  *)
(* quote at r ends: raw[i + 1] is the byte at x, raw[end + 1] the one at r.*)
(***************************************************************************)
Seen(s, x, r, raw, i, end) ==
    /\ i \in Nat /\ end \in Nat /\ end = i + (r - x)
    /\ Len(raw) = end + 1
    /\ \A k \in 1..((r - x) + 1) : raw[i + k] = s[x + k]

\* A token's text, seen from an offset in it.
LEMMA SeenToken ==
    ASSUME NEW s \in Seq(Byte), NEW p \in Nat, NEW x \in p..Len(s), NEW r \in x..(Len(s) - 1),
           NEW raw, raw = Slice(s, p, r + 1), NEW i, i = x - p, NEW end, end = r - p
    PROVE  Seen(s, x, r, raw, i, end)
<1>1. TokenAt(s, p, r, raw)
  <2>1. r \in p..(Len(s) - 1)
    OBVIOUS
  <2> QED
    BY <2>1, TokenBytes
<1>2. Len(raw) = end + 1 /\ end = i + (r - x) /\ i \in Nat /\ end \in Nat
  <2>1. Len(raw) = (r - p) + 1
    BY <1>1 DEF TokenAt
  <2>2. end = i + (r - x) /\ i \in Nat /\ end \in Nat
    OBVIOUS
  <2> QED
    BY <2>1, <2>2
<1>3. ASSUME NEW k \in 1..((r - x) + 1) PROVE raw[i + k] = s[x + k]
  <2>1. i + k \in 1..((r - p) + 1) /\ p + (i + k) = x + k
    OBVIOUS
  <2>2. raw[i + k] = s[p + (i + k)]
    BY <1>1, <2>1 DEF TokenAt
  <2> QED
    BY <2>1, <2>2
<1> QED
  BY <1>2, <1>3 DEF Seen

\* Words and digits that the token holds.
LEMMA SeenWord ==
    ASSUME NEW s \in Seq(Byte), NEW x \in Nat, NEW r \in x..(Len(s) - 1), NEW raw, NEW i, NEW end,
           Seen(s, x, r, raw, i, end), NEW w \in Seq(Byte), NEW k \in Nat, k + Len(w) <= (r - x) + 1
    PROVE  OccursAt(raw, i + k, w) <=> OccursAt(s, x + k, w)
<1>0. PICK n \in Nat : n = Len(w)
  OBVIOUS
<1>1. (i + k) + n <= Len(raw) /\ (x + k) + n <= Len(s)
  BY <1>0 DEF Seen
<1>2. \A m \in 1..n : raw[(i + k) + m] = s[(x + k) + m]
  <2>1. ASSUME NEW m \in 1..n PROVE raw[(i + k) + m] = s[(x + k) + m]
    <3>1. PICK j \in 1..((r - x) + 1) : j = k + m
      BY <1>0
    <3>2. i + j = (i + k) + m /\ x + j = (x + k) + m
      BY <3>1 DEF Seen
    <3>3. raw[i + j] = s[x + j]
      BY DEF Seen
    <3> QED
      BY <3>2, <3>3
  <2> QED
    BY <2>1
<1> QED
  BY <1>0, <1>1, <1>2 DEF OccursAt

\* The hexadecimal digits in a token are those in the text.
LEMMA SeenHex ==
    ASSUME NEW s \in Seq(Byte), NEW x \in Nat, NEW r \in x..(Len(s) - 1), NEW raw, NEW i, NEW end,
           Seen(s, x, r, raw, i, end), NEW k \in Nat
    PROVE  /\ k + 2 <= (r - x) + 1 => Hex2(raw, i + k) = Hex2(s, x + k)
           /\ k + 4 <= (r - x) + 1 => Hex4(raw, i + k) = Hex4(s, x + k)
<1>1. ASSUME NEW j \in Nat, j + 2 <= (r - x) + 1 PROVE Hex2(raw, i + j) = Hex2(s, x + j)
  <2>1. j + 1 \in 1..((r - x) + 1) /\ j + 2 \in 1..((r - x) + 1)
    BY <1>1
  <2>2. i + (j + 1) = (i + j) + 1 /\ i + (j + 2) = (i + j) + 2 /\ x + (j + 1) = (x + j) + 1 /\ x + (j + 2) = (x + j) + 2
    BY DEF Seen
  <2>3. raw[i + (j + 1)] = s[x + (j + 1)] /\ raw[i + (j + 2)] = s[x + (j + 2)]
    BY <2>1 DEF Seen
  <2>4. raw[(i + j) + 1] = s[(x + j) + 1] /\ raw[(i + j) + 2] = s[(x + j) + 2]
    BY <2>2, <2>3
  <2> QED
    BY <2>4 DEF Hex2
<1>2. ASSUME k + 4 <= (r - x) + 1 PROVE Hex4(raw, i + k) = Hex4(s, x + k)
  <2>1. PICK m \in Nat : m = k + 2 /\ i + m = (i + k) + 2 /\ x + m = (x + k) + 2
    BY DEF Seen
  <2>2. Hex2(raw, i + k) = Hex2(s, x + k)
    BY <1>1, <1>2
  <2>3. Hex2(raw, i + m) = Hex2(s, x + m)
    BY <1>1, <1>2, <2>1
  <2> QED
    BY <2>1, <2>2, <2>3 DEF Hex4
<1> QED
  BY <1>1, <1>2

-----------------------------------------------------------------------------
(***************************************************************************)
(* What decode_string makes of an escape at x.                             *)
(***************************************************************************)
\* The index behind an escape of n bytes, and what it stands for.
EscapeIs(raw, i, end, n, more) == EscapePiece(raw, i, end) = Piece(TRUE, more, i + n)

\* decode_string at an escape of a byte for itself,
LEMMA EscapeSelf ==
    ASSUME NEW s \in Seq(Byte), NEW x \in Nat, NEW r \in (x + 2)..(Len(s) - 1),
           NEW raw, NEW i, NEW end, Seen(s, x, r, raw, i, end),
           NEW e, e = s[x + 2], e \notin {117, 120, LF, CR},
           ~OccursAt(s, x + 1, LS), ~OccursAt(s, x + 1, PS)
    PROVE  EscapeIs(raw, i, end, 2, <<SelfPiece(e)>>)
<1>1. raw[i + 2] = e
  BY DEF Seen
<1>2. e # 117 /\ e # 120 /\ e # LF /\ e # CR
  OBVIOUS
<1>3. LS \in Seq(Byte) /\ Len(LS) = 3 /\ PS \in Seq(Byte) /\ Len(PS) = 3
  BY DEF LS, PS, Byte
<1>4. i + 3 < end => ~OccursAt(raw, i + 1, LS) /\ ~OccursAt(raw, i + 1, PS)
  <2>1. ASSUME i + 3 < end PROVE ~OccursAt(raw, i + 1, LS) /\ ~OccursAt(raw, i + 1, PS)
    <3>1. PICK k \in Nat : k = 1 /\ k + 3 <= (r - x) + 1 /\ r \in x..(Len(s) - 1)
      BY <2>1 DEF Seen
    <3>2. OccursAt(raw, i + k, LS) <=> OccursAt(s, x + k, LS)
      BY <1>3, <3>1, SeenWord
    <3>3. OccursAt(raw, i + k, PS) <=> OccursAt(s, x + k, PS)
      BY <1>3, <3>1, SeenWord
    <3> QED
      BY <3>1, <3>2, <3>3, Zenon
  <2> QED
    BY <2>1
<1>5. EscapePiece(raw, i, end) = Piece(TRUE, <<SelfPiece(e)>>, i + 2)
  BY <1>1, <1>2, <1>4, Zenon DEF EscapePiece
<1> QED
  BY <1>5 DEF EscapeIs

\* A line continuation stands for nothing.
LEMMA EscapeLine ==
    ASSUME NEW s \in Seq(Byte), NEW x \in Nat, NEW n \in {2, 3, 4}, NEW r \in (x + n)..(Len(s) - 1),
           NEW raw, NEW i, NEW end, Seen(s, x, r, raw, i, end),
           \/ n = 2 /\ ByteIn(s, x + 1, {LF})
           \/ n = 2 /\ ByteIn(s, x + 1, {CR}) /\ ~ByteIn(s, x + 2, {LF})
           \/ n = 3 /\ ByteIn(s, x + 1, {CR}) /\ ByteIn(s, x + 2, {LF})
           \/ n = 4 /\ (OccursAt(s, x + 1, LS) \/ OccursAt(s, x + 1, PS))
    PROVE  EscapeIs(raw, i, end, n, <<>>)
<1>w. \A k \in Nat : \A w \in Seq(Byte) :
         k + Len(w) <= (r - x) + 1 => (OccursAt(raw, i + k, w) <=> OccursAt(s, x + k, w))
  <2>1. r \in x..(Len(s) - 1)
    OBVIOUS
  <2> QED
    BY <2>1, SeenWord
<1>0. (x + 1) + 1 = x + 2 /\ (x + 2) + 1 = x + 3 /\ r \in x..(Len(s) - 1) /\ 2 \in 1..((r - x) + 1)
  OBVIOUS
<1>1. raw[i + 2] = s[x + 2] /\ (x + 1) + 1 = x + 2 /\ (x + 2) + 1 = x + 3 /\ r \in x..(Len(s) - 1)
  BY <1>0 DEF Seen
<1>2. LF # 117 /\ LF # 120 /\ CR # 117 /\ CR # 120 /\ CR # LF
  BY DEF LF, CR
<1>3. CASE n = 2 /\ ByteIn(s, x + 1, {LF})
  <2>1. raw[i + 2] = LF
    BY <1>1, <1>3 DEF ByteIn
  <2>2. EscapePiece(raw, i, end) = Piece(TRUE, <<>>, i + 2)
    BY <1>2, <2>1, Zenon DEF EscapePiece
  <2> QED
    BY <1>3, <2>2 DEF EscapeIs
<1>4. CASE n = 2 /\ ByteIn(s, x + 1, {CR}) /\ ~ByteIn(s, x + 2, {LF})
  <2>1. raw[i + 2] = CR
    BY <1>1, <1>4 DEF ByteIn
  <2>2. ~(i + 2 < end /\ raw[i + 3] = LF)
    <3>1. ASSUME i + 2 < end PROVE raw[i + 3] # LF
      <4>1. 3 \in 1..((r - x) + 1) /\ x + 2 < Len(s)
        BY <3>1, <1>4 DEF Seen
      <4>2. raw[i + 3] = s[x + 3]
        BY <4>1 DEF Seen
      <4> QED
        BY <1>1, <1>4, <4>1, <4>2 DEF ByteIn
    <3> QED
      BY <3>1
  <2>3. EscapePiece(raw, i, end) = Piece(TRUE, <<>>, i + 2)
    BY <1>2, <2>1, <2>2, Zenon DEF EscapePiece
  <2> QED
    BY <1>4, <2>3 DEF EscapeIs
<1>5. CASE n = 3 /\ ByteIn(s, x + 1, {CR}) /\ ByteIn(s, x + 2, {LF})
  <2>1. raw[i + 2] = CR
    BY <1>1, <1>5 DEF ByteIn
  <2>2. i + 2 < end /\ raw[i + 3] = LF
    <3>0. r \in Int /\ x \in Int /\ x + 3 <= r
      BY <1>5
    <3>1. 3 \in 1..((r - x) + 1) /\ i + 2 < end
      BY <3>0 DEF Seen
    <3>2. raw[i + 3] = s[x + 3]
      BY <3>1 DEF Seen
    <3> QED
      BY <1>1, <1>5, <3>1, <3>2 DEF ByteIn
  <2>3. EscapePiece(raw, i, end) = Piece(TRUE, <<>>, i + 3)
    BY <1>2, <2>1, <2>2, Zenon DEF EscapePiece
  <2> QED
    BY <1>5, <2>3 DEF EscapeIs
<1>6. CASE n = 4 /\ (OccursAt(s, x + 1, LS) \/ OccursAt(s, x + 1, PS))
  <2>1. LS \in Seq(Byte) /\ Len(LS) = 3 /\ PS \in Seq(Byte) /\ Len(PS) = 3 /\ LS[1] = 226 /\ PS[1] = 226
    BY DEF LS, PS, Byte
  <2>2. s[(x + 1) + 1] = 226
    BY <1>6, <2>1 DEF OccursAt
  <2>3. raw[i + 2] = 226
    BY <1>1, <2>2
  <2>4. raw[i + 2] # 117 /\ raw[i + 2] # 120 /\ raw[i + 2] # LF /\ raw[i + 2] # CR
    BY <2>3 DEF LF, CR
  <2>5. i + 3 < end
    BY <1>6 DEF Seen
  <2>6. OccursAt(raw, i + 1, LS) \/ OccursAt(raw, i + 1, PS)
    <3>1. PICK k \in Nat : k = 1 /\ k + 3 <= (r - x) + 1 /\ r \in x..(Len(s) - 1)
      BY <1>6
    <3>1a. k + Len(LS) <= (r - x) + 1 /\ k + Len(PS) <= (r - x) + 1
      BY <2>1, <3>1
    <3>2. OccursAt(raw, i + k, LS) <=> OccursAt(s, x + k, LS)
      BY <1>w, <2>1, <3>1, <3>1a
    <3>3. OccursAt(raw, i + k, PS) <=> OccursAt(s, x + k, PS)
      BY <1>w, <2>1, <3>1, <3>1a
    <3> QED
      BY <1>6, <3>1, <3>2, <3>3, Zenon
  <2>7. EscapePiece(raw, i, end) = Piece(TRUE, <<>>, i + 4)
    BY <2>4, <2>5, <2>6, Zenon DEF EscapePiece
  <2> QED
    BY <1>6, <2>7 DEF EscapeIs
<1> QED
  BY <1>3, <1>4, <1>5, <1>6

\* at a \x escape,
LEMMA EscapeTwoDigits ==
    ASSUME NEW s \in Seq(Byte), NEW x \in Nat, NEW r \in (x + 4)..(Len(s) - 1),
           NEW raw, NEW i, NEW end, Seen(s, x, r, raw, i, end), s[x + 2] = 120
    PROVE  EscapeIs(raw, i, end, 4, Utf8(Hex2(s, x + 2)))
<1>1. raw[i + 2] = 120 /\ r \in x..(Len(s) - 1) /\ 2 + 2 <= (r - x) + 1
  BY DEF Seen
<1>2. raw[i + 2] # 117
  BY <1>1
<1>3. Hex2(raw, i + 2) = Hex2(s, x + 2)
  BY <1>1, SeenHex
<1>4. EscapePiece(raw, i, end) = Piece(TRUE, Utf8(Hex2(s, x + 2)), i + 4)
  BY <1>1, <1>2, <1>3, Zenon DEF EscapePiece
<1> QED
  BY <1>4 DEF EscapeIs

\* The mark of four hexadecimal digits.
UnicodeMark == <<BSlash, 117>>

\* and at a \u escape: a unit, a pair, or a rejected half of one.
LEMMA EscapeFourDigits ==
    ASSUME NEW s \in Seq(Byte), NEW x \in Nat, NEW r \in (x + 6)..(Len(s) - 1),
           NEW raw, NEW i, NEW end, Seen(s, x, r, raw, i, end), s[x + 2] = 117,
           NEW unit, unit = Hex4(s, x + 2)
    PROVE  /\ unit \notin HighSurrogate \cup LowSurrogate =>
                 EscapeIs(raw, i, end, 6, Utf8(unit))
           /\ unit \in LowSurrogate => ~EscapePiece(raw, i, end).ok
           /\ unit \in HighSurrogate /\ ~OccursAt(s, x + 6, UnicodeMark) =>
                 ~EscapePiece(raw, i, end).ok
           /\ unit \in HighSurrogate /\ x + 12 <= r /\ Hex4(s, x + 8) \notin LowSurrogate =>
                 ~EscapePiece(raw, i, end).ok
           /\ unit \in HighSurrogate /\ x + 12 <= r /\ OccursAt(s, x + 6, UnicodeMark)
                 /\ Hex4(s, x + 8) \in LowSurrogate =>
                 EscapeIs(raw, i, end, 12, Utf8(SurrogatePair(unit, Hex4(s, x + 8))))
<1>w. \A k \in Nat : \A w \in Seq(Byte) :
         k + Len(w) <= (r - x) + 1 => (OccursAt(raw, i + k, w) <=> OccursAt(s, x + k, w))
  <2>1. r \in x..(Len(s) - 1)
    OBVIOUS
  <2> QED
    BY <2>1, SeenWord
<1>1. raw[i + 2] = 117 /\ r \in x..(Len(s) - 1) /\ 2 + 4 <= (r - x) + 1
  BY DEF Seen
<1>2. Hex4(raw, i + 2) = unit
  BY <1>1, SeenHex
<1>3. EscapePiece(raw, i, end) = UnicodePiece(raw, i, end)
  BY <1>1, Zenon DEF EscapePiece
<1>4. PICK low : low = IF i + 12 <= end /\ OccursAt(raw, i + 6, UnicodeMark) THEN Hex4(raw, i + 8) ELSE 0
  OBVIOUS
<1>5. UnicodePiece(raw, i, end) =
        IF unit \in HighSurrogate
        THEN IF low \in LowSurrogate
             THEN Piece(TRUE, Utf8(SurrogatePair(unit, low)), i + 12)
             ELSE Piece(FALSE, <<>>, end)
        ELSE IF unit \in LowSurrogate THEN Piece(FALSE, <<>>, end)
        ELSE Piece(TRUE, Utf8(unit), i + 6)
  BY <1>2, <1>4, Zenon DEF UnicodePiece, UnicodeMark
<1>6. ~Piece(FALSE, <<>>, end).ok
  BY DEF Piece
<1>7. unit \in LowSurrogate => unit \notin HighSurrogate
  <2>1. ASSUME NEW u \in LowSurrogate PROVE u \notin HighSurrogate
    <3>1. u \in Int /\ 56320 <= u
      BY DEF LowSurrogate
    <3>2. u \in HighSurrogate => u <= 56319
      BY DEF HighSurrogate
    <3> QED
      BY <3>1, <3>2
  <2> QED
    BY <2>1, Zenon
<1>8. 0 \notin LowSurrogate
  BY DEF LowSurrogate
<1>9. UnicodeMark \in Seq(Byte) /\ Len(UnicodeMark) = 2
  BY DEF UnicodeMark, BSlash, Byte
<1>10. i + 12 <= end <=> x + 12 <= r
  BY DEF Seen
<1>11. x + 12 <= r => /\ OccursAt(raw, i + 6, UnicodeMark) <=> OccursAt(s, x + 6, UnicodeMark)
                      /\ Hex4(raw, i + 8) = Hex4(s, x + 8)
  <2>1. ASSUME x + 12 <= r
        PROVE  /\ OccursAt(raw, i + 6, UnicodeMark) <=> OccursAt(s, x + 6, UnicodeMark)
               /\ Hex4(raw, i + 8) = Hex4(s, x + 8)
    <3>1. 8 + 4 <= (r - x) + 1
      BY <2>1
    <3>2. OccursAt(raw, i + 6, UnicodeMark) <=> OccursAt(s, x + 6, UnicodeMark)
      <4>1. PICK k \in Nat : k = 6 /\ k + 2 <= (r - x) + 1 /\ r \in x..(Len(s) - 1)
        BY <2>1
      <4>1a. k + Len(UnicodeMark) <= (r - x) + 1
        BY <1>9, <4>1
      <4>2. OccursAt(raw, i + k, UnicodeMark) <=> OccursAt(s, x + k, UnicodeMark)
        <5>1. k \in Nat /\ UnicodeMark \in Seq(Byte)
          BY <1>9, <4>1
        <5> QED
          BY <1>w, <4>1a, <5>1, Zenon
      <4> QED
        BY <4>1, <4>2, Zenon
    <3>3. Hex4(raw, i + 8) = Hex4(s, x + 8)
      BY <1>1, <3>1, SeenHex
    <3> QED
      BY <3>2, <3>3
  <2> QED
    BY <2>1
<1>12. unit \notin HighSurrogate \cup LowSurrogate => EscapeIs(raw, i, end, 6, Utf8(unit))
  <2>1. unit \notin HighSurrogate \cup LowSurrogate => unit \notin HighSurrogate /\ unit \notin LowSurrogate
    OBVIOUS
  <2> QED
    BY <1>3, <1>5, <2>1, Zenon DEF EscapeIs
<1>13. unit \in LowSurrogate => ~EscapePiece(raw, i, end).ok
  BY <1>3, <1>5, <1>6, <1>7, Zenon
<1>14. unit \in HighSurrogate /\ low \notin LowSurrogate => ~EscapePiece(raw, i, end).ok
  BY <1>3, <1>5, <1>6, Zenon
<1>15. ~OccursAt(s, x + 6, UnicodeMark) => low \notin LowSurrogate
  <2>1. ~OccursAt(s, x + 6, UnicodeMark) => low = 0
    BY <1>4, <1>10, <1>11, Zenon
  <2> QED
    BY <1>8, <2>1
<1>16. x + 12 <= r /\ Hex4(s, x + 8) \notin LowSurrogate => low \notin LowSurrogate
  <2>1. x + 12 <= r => low = 0 \/ low = Hex4(s, x + 8)
    BY <1>4, <1>11, Zenon
  <2> QED
    BY <1>8, <2>1
<1>17. x + 12 <= r /\ OccursAt(s, x + 6, UnicodeMark) => low = Hex4(s, x + 8)
  BY <1>4, <1>10, <1>11, Zenon
<1>18. unit \in HighSurrogate /\ low \in LowSurrogate =>
          EscapeIs(raw, i, end, 12, Utf8(SurrogatePair(unit, low)))
  BY <1>3, <1>5, Zenon DEF EscapeIs
<1> QED
  BY <1>12, <1>13, <1>14, <1>15, <1>16, <1>17, <1>18, Zenon

-----------------------------------------------------------------------------
(***************************************************************************)
(* Strings, one step of the reader at a time.                              *)
(***************************************************************************)
\* One piece is the only one.
OnePiece(s, q, x, y) == \A z : QuotePiece(s, q, x, z) <=> z = y

\* If there is one piece, every string goes through it.
LEMMA CarriesOne ==
    ASSUME NEW s \in Seq(Byte), NEW q, NEW b \in 0..Len(s), NEW x, Carries(s, q, b, x),
           ~ByteIn(s, x, {q}), NEW y, OnePiece(s, q, x, y)
    PROVE  /\ Carries(s, q, b, y)
           /\ y \in InString(s, q, x)
           /\ \A r \in InString(s, q, x) : ByteIn(s, r, {q}) => r \in InString(s, q, y)
<1>1. QuotePiece(s, q, x, y)
  BY DEF OnePiece
<1>2. \A z : QuotePiece(s, q, x, z) => z = y \/ (z \in 0..Len(s) /\ Dead(s, q, z))
  BY DEF OnePiece
<1>3. x \in 0..Len(s)
  BY CarriesRange
<1>4. y \in InString(s, q, x)
  BY <1>1, <1>3, InStringFacts
<1> QED
  BY <1>1, <1>2, <1>4, CarriesOn

\* The reader takes a plain byte,
LEMMA StringPlain ==
    ASSUME NEW s \in Seq(Byte), NEW q \in Quotes, NEW p \in Nat, NEW x, NEW bytes,
           StringSoFar(s, q, p, x, bytes), ByteIn(s, x, Plain(q)),
           NEW y, y = x + 1, NEW c, c = s[x + 1], NEW all, all = bytes \o <<c>>
    PROVE  StringSoFar(s, q, p, y, all)
<1>1. p + 1 \in 0..Len(s) /\ x \in (p + 1)..Len(s) /\ x \in 0..Len(s)
  BY CarriesRange DEF StringSoFar
<1>2. ~ByteIn(s, x, {q}) /\ OnePiece(s, q, x, y)
  BY <1>1, PlainPiece DEF OnePiece
<1>3. PICK b : b = p + 1 /\ b \in 0..Len(s)
  BY <1>1
<1>4. Carries(s, q, b, y) /\ y \in InString(s, q, x)
  BY <1>2, <1>3, CarriesOne DEF StringSoFar
<1>5. ASSUME NEW r \in y..(Len(s) - 1)
      PROVE  DecodePiece(Slice(s, p, r + 1), x - p) = Piece(TRUE, <<c>>, y - p)
  <2>1. PICK raw : raw = Slice(s, p, r + 1)
    OBVIOUS
  <2>2. PICK i \in Nat : i = x - p
    BY <1>1
  <2>3. r \in p..(Len(s) - 1) /\ i + 1 \in 1..((r - p) + 1) /\ p + (i + 1) = x + 1 /\ y - p = i + 1
    BY <1>1, <2>2
  <2>3a. TokenAt(s, p, r, raw)
    BY <2>1, <2>3, TokenBytes
  <2>3b. \A k \in 1..((r - p) + 1) : raw[k] = s[p + k]
    BY <2>3a DEF TokenAt
  <2>4. raw[i + 1] = c
    BY <2>3, <2>3b
  <2>5. c # BSlash
    BY DEF ByteIn, Plain
  <2>6. DecodePiece(raw, i) = Piece(TRUE, <<c>>, i + 1)
    BY <2>4, <2>5, Zenon DEF DecodePiece
  <2> QED
    BY <2>1, <2>2, <2>3, <2>6, Zenon
<1>6. PieceTo(s, q, p, x, y, <<c>>)
  BY <1>5 DEF PieceTo
<1>7. x # y
  BY <1>1
<1> QED
  BY <1>3, <1>4, <1>6, <1>7, StringOn

\* Wherever the token may end, the escape at x takes n bytes and stands for `more`,
EscapeAlways(s, x, n, more) ==
    \A r \in (x + n)..(Len(s) - 1) : \A raw, i, end :
        Seen(s, x, r, raw, i, end) => EscapeIs(raw, i, end, n, more)

\* or cannot be decoded, if the token goes on for at least n bytes.
EscapeNever(s, x, n) ==
    \A r \in (x + n)..(Len(s) - 1) : \A raw, i, end :
        Seen(s, x, r, raw, i, end) => ~EscapePiece(raw, i, end).ok

\* The loop at the backslash at x.
LEMMA DecodeEscape ==
    ASSUME NEW s \in Seq(Byte), NEW p \in Nat, NEW x \in p..Len(s), NEW r \in x..(Len(s) - 1),
           ByteIn(s, x, {BSlash}), NEW raw, raw = Slice(s, p, r + 1), NEW i, i = x - p
    PROVE  /\ Seen(s, x, r, raw, i, r - p)
           /\ DecodePiece(raw, i) = EscapePiece(raw, i, r - p)
<1>1. PICK end : end = r - p
  OBVIOUS
<1>2. Seen(s, x, r, raw, i, end)
  BY <1>1, SeenToken
<1>3. i \in Nat /\ 1 \in 1..((r - x) + 1)
  OBVIOUS
<1>4. raw[i + 1] = s[x + 1] /\ Len(raw) = end + 1
  BY <1>2, <1>3 DEF Seen
<1>5. raw[i + 1] = BSlash
  BY <1>4 DEF ByteIn
<1>6. Len(raw) - 1 = end
  BY <1>1, <1>4
<1>7. DecodePiece(raw, i) = EscapePiece(raw, i, end)
  BY <1>5, <1>6, Zenon DEF DecodePiece
<1> QED
  BY <1>1, <1>2, <1>7

\* or an escape that decodes to the same wherever the string ends.
LEMMA StringEscape ==
    ASSUME NEW s \in Seq(Byte), NEW q, NEW p \in Nat, NEW x, NEW bytes,
           StringSoFar(s, q, p, x, bytes), ByteIn(s, x, {BSlash}), NEW n \in Nat, n # 0,
           NEW y, y = x + n, Carries(s, q, p + 1, y), y \in InString(s, q, x),
           NEW more, EscapeAlways(s, x, n, more), NEW all, all = bytes \o more
    PROVE  StringSoFar(s, q, p, y, all)
<1>1. p + 1 \in 0..Len(s) /\ x \in (p + 1)..Len(s) /\ x \in p..Len(s)
  BY CarriesRange DEF StringSoFar
<1>2. ASSUME NEW r \in y..(Len(s) - 1)
      PROVE  DecodePiece(Slice(s, p, r + 1), x - p) = Piece(TRUE, more, y - p)
  <2>1. PICK raw : raw = Slice(s, p, r + 1)
    OBVIOUS
  <2>2. PICK i \in Nat : i = x - p
    BY <1>1
  <2>3. r \in x..(Len(s) - 1) /\ y - p = i + n
    BY <1>1, <2>2
  <2>4. PICK end : end = r - p
    OBVIOUS
  <2>5. Seen(s, x, r, raw, i, end) /\ DecodePiece(raw, i) = EscapePiece(raw, i, end)
    BY <1>1, <2>1, <2>2, <2>3, <2>4, DecodeEscape
  <2>6. EscapeIs(raw, i, end, n, more)
    BY <2>5 DEF EscapeAlways
  <2> QED
    BY <2>1, <2>2, <2>3, <2>5, <2>6, Zenon DEF EscapeIs
<1>3. PieceTo(s, q, p, x, y, more)
  BY <1>2 DEF PieceTo
<1>4. x # y
  BY <1>1
<1> QED
  BY <1>3, <1>4, StringOn

\* An escape that ends the reading: no token, or one that decode_string rejects.
LEMMA StringLost ==
    ASSUME NEW s \in Seq(Byte), NEW q, NEW p \in Nat, NEW x, NEW bytes,
           StringSoFar(s, q, p, x, bytes), ByteIn(s, x, {BSlash}), NEW n \in Nat, n # 0,
           \A r \in InString(s, q, x) : ByteIn(s, r, {q}) => x + n <= r,
           EscapeNever(s, x, n)
    PROVE  NoString(s, p, q)
<1>1. p + 1 \in 0..Len(s) /\ x \in (p + 1)..Len(s) /\ x \in p..Len(s) /\ x \in 0..Len(s)
  BY CarriesRange DEF StringSoFar
<1>2. ASSUME NEW r \in InString(s, q, x), ByteIn(s, r, {q})
      PROVE  r # x /\ ~DecodePiece(Slice(s, p, r + 1), x - p).ok
  <2>1. r \in x..Len(s)
    BY <1>1, InStringFacts
  <2>1a. x + n <= r
    BY <1>2
  <2>2. r \in x..(Len(s) - 1) /\ r \in (x + n)..(Len(s) - 1) /\ r # x
    BY <1>1, <1>2, <2>1, <2>1a DEF ByteIn
  <2>3. PICK raw : raw = Slice(s, p, r + 1)
    OBVIOUS
  <2>4. PICK i : i = x - p
    OBVIOUS
  <2>5. PICK end : end = r - p
    OBVIOUS
  <2>6. Seen(s, x, r, raw, i, end) /\ DecodePiece(raw, i) = EscapePiece(raw, i, end)
    BY <1>1, <2>2, <2>3, <2>4, <2>5, DecodeEscape
  <2>7. ~EscapePiece(raw, i, end).ok
    BY <2>2, <2>6 DEF EscapeNever
  <2> QED
    BY <2>2, <2>3, <2>4, <2>6, <2>7, Zenon
<1> QED
  BY <1>2, StringFails

\* Nothing of a string can follow at x.
LEMMA StringStuck ==
    ASSUME NEW s \in Seq(Byte), NEW q, NEW p \in Nat, NEW x, NEW bytes,
           StringSoFar(s, q, p, x, bytes), ~ByteIn(s, x, {q}), \A z : ~QuotePiece(s, q, x, z)
    PROVE  NoString(s, p, q)
<1>1. x \in 0..Len(s)
  BY CarriesRange DEF StringSoFar
<1>2. \A r \in InString(s, q, x) : r = x
  BY <1>1, InStringFacts
<1>3. \A r \in InString(s, q, x) : ~ByteIn(s, r, {q})
  BY <1>2
<1> QED
  BY <1>3, StringFails

\* The escapes the reader takes without a look behind the next byte.
LEMMA StringSelf ==
    ASSUME NEW s \in Seq(Byte), NEW q \in Quotes, NEW p \in Nat, NEW x, NEW bytes,
           StringSoFar(s, q, p, x, bytes), ByteIn(s, x, {BSlash}),
           ByteIn(s, x + 1, SelfEscaped \ {LF, CR}), ~OccursAt(s, x + 1, LS), ~OccursAt(s, x + 1, PS),
           NEW y, y = x + 2, NEW e, e = s[x + 2], NEW all, all = bytes \o <<SelfPiece(e)>>
    PROVE  StringSoFar(s, q, p, y, all)
<1>1. p + 1 \in 0..Len(s) /\ x \in 0..Len(s)
  BY CarriesRange DEF StringSoFar
<1>2. (x + 1) + 1 = x + 2
  BY <1>1
<1>3. e \in SelfEscaped /\ e \notin {LF, CR} /\ ByteIn(s, x + 1, SelfEscaped)
  BY <1>2 DEF ByteIn
<1>4. ~OccursAt(s, x + 1, CrLf)
  <2>1. CrLfFacts(s, x + 1)
    BY <1>1, CrLfBytes
  <2>2. ~ByteIn(s, x + 1, {CR})
    BY <1>2, <1>3 DEF ByteIn
  <2> QED
    BY <2>1, <2>2 DEF CrLfFacts
<1>5. OnePiece(s, q, x, y)
  <2>1. \A z : EscapeTo(s, x, z) <=> z = y
    BY <1>1, <1>3, <1>4, EscapeCases
  <2>2. \A z : QuotePiece(s, q, x, z) <=> EscapeTo(s, x, z)
    BY <1>1, EscapePieces
  <2> QED
    BY <2>1, <2>2 DEF OnePiece
<1>6. ~ByteIn(s, x, {q})
  BY <1>1, EscapePieces
<1>7. Carries(s, q, p + 1, y) /\ y \in InString(s, q, x)
  <2>1. PICK b \in 0..Len(s) : b = p + 1
    BY <1>1
  <2>2. Carries(s, q, b, x)
    BY <2>1 DEF StringSoFar
  <2> QED
    BY <1>5, <1>6, <2>1, <2>2, CarriesOne
<1>8. EscapeAlways(s, x, 2, <<SelfPiece(e)>>)
  <2>1. ASSUME NEW r \in (x + 2)..(Len(s) - 1), NEW raw, NEW i, NEW end, Seen(s, x, r, raw, i, end)
        PROVE  EscapeIs(raw, i, end, 2, <<SelfPiece(e)>>)
    <3>1. e \notin {117, 120, LF, CR}
      BY <1>3 DEF SelfEscaped
    <3>2. x \in Nat
      BY <1>1
    <3> QED
      BY <2>1, <3>1, <3>2, EscapeSelf
  <2> QED
    BY <2>1 DEF EscapeAlways
<1>9. PICK n \in Nat : n = 2 /\ n # 0 /\ y = x + n
  OBVIOUS
<1> QED
  BY <1>7, <1>8, <1>9, StringEscape

\* Line continuations.
LEMMA StringLine ==
    ASSUME NEW s \in Seq(Byte), NEW q \in Quotes, NEW p \in Nat, NEW x, NEW bytes \in Seq(Byte),
           StringSoFar(s, q, p, x, bytes), ByteIn(s, x, {BSlash}), NEW n \in {2, 3, 4},
           \/ n = 2 /\ ByteIn(s, x + 1, {LF})
           \/ n = 2 /\ ByteIn(s, x + 1, {CR}) /\ ~ByteIn(s, x + 2, {LF})
           \/ n = 3 /\ ByteIn(s, x + 1, {CR}) /\ ByteIn(s, x + 2, {LF})
           \/ n = 4 /\ (OccursAt(s, x + 1, LS) \/ OccursAt(s, x + 1, PS)),
           NEW y, y = x + n
    PROVE  StringSoFar(s, q, p, y, bytes)
<1>1. p + 1 \in 0..Len(s) /\ x \in 0..Len(s) /\ (x + 1) + 1 = x + 2
  BY CarriesRange DEF StringSoFar
<1>2. PICK b \in 0..Len(s) : b = p + 1
  BY <1>1
<1>3. Carries(s, q, b, x)
  BY <1>2 DEF StringSoFar
<1>4. /\ ~ByteIn(s, x, {q})
      /\ \A z : QuotePiece(s, q, x, z) <=> EscapeTo(s, x, z)
  BY <1>1, EscapePieces
<1>5. CrLfFacts(s, x + 1)
  BY <1>1, CrLfBytes
<1>6. EscapeAlways(s, x, n, <<>>)
  <2>1. ASSUME NEW r \in (x + n)..(Len(s) - 1), NEW raw, NEW i, NEW end, Seen(s, x, r, raw, i, end)
        PROVE  EscapeIs(raw, i, end, n, <<>>)
    <3>1. x \in Nat
      BY <1>1
    <3> QED
      BY <2>1, <3>1, EscapeLine
  <2> QED
    BY <2>1 DEF EscapeAlways
<1>7. Carries(s, q, b, y) /\ y \in InString(s, q, x)
  <2>1. CASE n = 2 /\ (ByteIn(s, x + 1, {LF}) \/ (ByteIn(s, x + 1, {CR}) /\ ~ByteIn(s, x + 2, {LF})))
    <3>1. ByteIn(s, x + 1, SelfEscaped)
      <4>1. LF \in SelfEscaped /\ CR \in SelfEscaped
        BY DEF SelfEscaped, LF, CR, Byte
      <4>2. ByteIn(s, x + 1, {LF, CR})
        BY <2>1 DEF ByteIn
      <4> QED
        BY <4>1, <4>2 DEF ByteIn
    <3>2. ~OccursAt(s, x + 1, CrLf)
      <4>1. ByteIn(s, x + 1, {LF}) => ~ByteIn(s, x + 1, {CR})
        BY DEF ByteIn, LF, CR
      <4> QED
        BY <1>1, <1>5, <2>1, <4>1 DEF CrLfFacts
    <3>3. \A z : EscapeTo(s, x, z) <=> z = x + 2
      BY <1>1, <3>1, <3>2, EscapeCases
    <3>4. OnePiece(s, q, x, y)
      BY <1>4, <2>1, <3>3 DEF OnePiece
    <3> QED
      BY <1>3, <1>4, <3>4, CarriesOne
  <2>2. CASE n = 3 /\ ByteIn(s, x + 1, {CR}) /\ ByteIn(s, x + 2, {LF})
    <3>1. OccursAt(s, x + 1, CrLf)
      BY <1>1, <1>5, <2>2 DEF CrLfFacts
    <3>2. \A z : EscapeTo(s, x, z) <=> z = x + 2 \/ z = x + 3
      BY <1>1, <3>1, EscapeCases
    <3>3. x + 2 \in 0..Len(s) /\ Dead(s, q, x + 2)
      BY <1>1, <3>1, CrDead
    <3>4. QuotePiece(s, q, x, y)
      BY <1>4, <2>2, <3>2
    <3>5. \A z : QuotePiece(s, q, x, z) => z = y \/ (z \in 0..Len(s) /\ Dead(s, q, z))
      BY <1>4, <2>2, <3>2, <3>3
    <3>6. y \in InString(s, q, x)
      BY <1>1, <3>4, InStringFacts
    <3> QED
      BY <1>3, <1>4, <3>4, <3>5, <3>6, CarriesOn
  <2>3. CASE n = 4 /\ (OccursAt(s, x + 1, LS) \/ OccursAt(s, x + 1, PS))
    <3>1. /\ x + 4 <= Len(s) /\ s[(x + 1) + 1] = 226 /\ s[(x + 1) + 2] = 128
          /\ s[(x + 1) + 3] \in {168, 169}
      <4>1. /\ Len(LS) = 3 /\ LS[1] = 226 /\ LS[2] = 128 /\ LS[3] = 168
            /\ Len(PS) = 3 /\ PS[1] = 226 /\ PS[2] = 128 /\ PS[3] = 169
        BY DEF LS, PS
      <4>2. CASE OccursAt(s, x + 1, LS)
        <5>1. (x + 1) + 3 <= Len(s) /\ \A k \in 1..3 : s[(x + 1) + k] = LS[k]
          BY <4>1, <4>2 DEF OccursAt
        <5> QED
          BY <1>1, <4>1, <5>1
      <4>3. CASE OccursAt(s, x + 1, PS)
        <5>1. (x + 1) + 3 <= Len(s) /\ \A k \in 1..3 : s[(x + 1) + k] = PS[k]
          BY <4>1, <4>3 DEF OccursAt
        <5> QED
          BY <1>1, <4>1, <5>1
      <4> QED
        BY <2>3, <4>2, <4>3
    <3>2. PICK v : v = x + 2
      OBVIOUS
    <3>3. PICK w : w = v + 1
      OBVIOUS
    <3>4. /\ v \in 0..Len(s) /\ w \in 0..Len(s) /\ y = w + 1
          /\ (x + 1) + 2 = v + 1 /\ (x + 1) + 3 = w + 1 /\ v < Len(s) /\ w < Len(s) /\ x + 1 < Len(s)
      BY <1>1, <2>3, <3>1, <3>2, <3>3
    <3>5. ByteIn(s, x + 1, SelfEscaped)
      BY <3>1, <3>4 DEF ByteIn, SelfEscaped, Byte
    <3>6. ~OccursAt(s, x + 1, CrLf)
      <4>1. ~ByteIn(s, x + 1, {CR})
        BY <3>1 DEF ByteIn, CR
      <4> QED
        BY <1>5, <4>1 DEF CrLfFacts
    <3>7. OnePiece(s, q, x, v)
      <4>1. \A z : EscapeTo(s, x, z) <=> z = x + 2
        BY <1>1, <3>5, <3>6, EscapeCases
      <4> QED
        BY <1>4, <3>2, <4>1 DEF OnePiece
    <3>8. ByteIn(s, v, Plain(q)) /\ ByteIn(s, w, Plain(q))
      <4>1. \A c \in {128, 168, 169} : c \in Plain(q)
        BY DEF Plain, Quotes, Quote, Apostrophe, BSlash, LF, CR, Byte
      <4>2. s[v + 1] = 128 /\ s[w + 1] \in {168, 169}
        BY <3>1, <3>4
      <4> QED
        BY <3>4, <4>1, <4>2 DEF ByteIn
    <3>9. OnePiece(s, q, v, w) /\ ~ByteIn(s, v, {q})
      <4>1. ~ByteIn(s, v, {q}) /\ \A z : QuotePiece(s, q, v, z) <=> z = v + 1
        <5>1. v \in 0..Len(s)
          BY <3>4
        <5> QED
          BY <3>8, <5>1, PlainPiece
      <4> QED
        BY <3>3, <4>1 DEF OnePiece
    <3>10. OnePiece(s, q, w, y) /\ ~ByteIn(s, w, {q})
      <4>1. ~ByteIn(s, w, {q}) /\ \A z : QuotePiece(s, q, w, z) <=> z = w + 1
        <5>1. w \in 0..Len(s)
          BY <3>4
        <5> QED
          BY <3>8, <5>1, PlainPiece
      <4>2. y = w + 1
        BY <3>4
      <4> QED
        BY <4>1, <4>2 DEF OnePiece
    <3>11. Carries(s, q, b, v) /\ v \in InString(s, q, x)
      BY <1>3, <1>4, <3>7, CarriesOne
    <3>12. Carries(s, q, b, w) /\ w \in InString(s, q, v)
      BY <3>9, <3>11, CarriesOne
    <3>13. Carries(s, q, b, y) /\ y \in InString(s, q, w)
      BY <3>10, <3>12, CarriesOne
    <3>14. InString(s, q, w) \subseteq InString(s, q, v) /\ InString(s, q, v) \subseteq InString(s, q, x)
      <4>1. QuotePiece(s, q, x, v) /\ QuotePiece(s, q, v, w)
        BY <3>7, <3>9 DEF OnePiece
      <4> QED
        BY <1>1, <3>4, <4>1, InStringFacts
    <3> QED
      BY <3>13, <3>14
  <2> QED
    BY <2>1, <2>2, <2>3
<1>8. n \in Nat /\ n # 0
  OBVIOUS
<1>9. bytes = bytes \o <<>>
  OBVIOUS
<1> QED
  BY <1>2, <1>6, <1>7, <1>8, <1>9, StringEscape

\* \xHH.
LEMMA StringTwoDigits ==
    ASSUME NEW s \in Seq(Byte), NEW q \in Quotes, NEW p \in Nat, NEW x, NEW bytes,
           StringSoFar(s, q, p, x, bytes), ByteIn(s, x, {BSlash}), ByteIn(s, x + 1, {120}),
           NEW y, y = x + 4, NEW all, all = bytes \o Utf8(Hex2(s, x + 2))
    PROVE  /\ HexRun(s, x + 2, 2) => StringSoFar(s, q, p, y, all)
           /\ ~HexRun(s, x + 2, 2) => NoString(s, p, q)
<1>1. p + 1 \in 0..Len(s) /\ x \in 0..Len(s) /\ (x + 1) + 1 = x + 2
  BY CarriesRange DEF StringSoFar
<1>2. PICK b \in 0..Len(s) : b = p + 1
  BY <1>1
<1>3. Carries(s, q, b, x)
  BY <1>2 DEF StringSoFar
<1>4. /\ ~ByteIn(s, x, {q})
      /\ \A z : QuotePiece(s, q, x, z) <=> EscapeTo(s, x, z)
  BY <1>1, EscapePieces
<1>5. \A z : EscapeTo(s, x, z) <=> HexRun(s, x + 2, 2) /\ z = y
  BY <1>1, EscapeCases
<1>6. CASE HexRun(s, x + 2, 2)
  <2>1. OnePiece(s, q, x, y)
    BY <1>4, <1>5, <1>6 DEF OnePiece
  <2>2. Carries(s, q, b, y) /\ y \in InString(s, q, x)
    BY <1>3, <1>4, <2>1, CarriesOne
  <2>3. PICK more : more = Utf8(Hex2(s, x + 2))
    OBVIOUS
  <2>4. EscapeAlways(s, x, 4, more)
    <3>1. ASSUME NEW r \in (x + 4)..(Len(s) - 1), NEW raw, NEW i, NEW end, Seen(s, x, r, raw, i, end)
          PROVE  EscapeIs(raw, i, end, 4, more)
      <4>1. x \in Nat /\ s[x + 2] = 120
        BY <1>1 DEF ByteIn
      <4> QED
        BY <2>3, <3>1, <4>1, EscapeTwoDigits
    <3> QED
      BY <3>1 DEF EscapeAlways
  <2>5. PICK n \in Nat : n = 4 /\ n # 0 /\ y = x + n
    OBVIOUS
  <2>6. StringSoFar(s, q, p, y, all)
    BY <1>2, <2>2, <2>3, <2>4, <2>5, StringEscape
  <2> QED
    BY <1>6, <2>6
<1>7. CASE ~HexRun(s, x + 2, 2)
  <2>1. \A z : ~QuotePiece(s, q, x, z)
    BY <1>4, <1>5, <1>7
  <2>2. NoString(s, p, q)
    BY <1>4, <2>1, StringStuck
  <2> QED
    BY <1>7, <2>2
<1> QED
  BY <1>6, <1>7

\* The piece at an escape that is a \u.
LEMMA UnicodePieces ==
    ASSUME NEW s \in Seq(Byte), NEW q \in Quotes, NEW x \in 0..Len(s), OccursAt(s, x, UnicodeMark),
           NEW y, y = x + 6
    PROVE  /\ ByteIn(s, x, {BSlash}) /\ ByteIn(s, x + 1, {117}) /\ ~ByteIn(s, x, {q})
           /\ HexRun(s, x + 2, 4) => OnePiece(s, q, x, y)
           /\ ~HexRun(s, x + 2, 4) => \A z : ~QuotePiece(s, q, x, z)
<1>1. UnicodeMark[1] = BSlash /\ UnicodeMark[2] = 117 /\ Len(UnicodeMark) = 2
  BY DEF UnicodeMark
<1>2. x + 2 <= Len(s) /\ s[x + 1] = BSlash /\ s[x + 2] = 117
  BY <1>1 DEF OccursAt
<1>3. (x + 1) + 1 = x + 2
  OBVIOUS
<1>4. ByteIn(s, x, {BSlash}) /\ ByteIn(s, x + 1, {117})
  BY <1>2, <1>3 DEF ByteIn
<1>5. ~ByteIn(s, x, {q}) /\ \A z : QuotePiece(s, q, x, z) <=> EscapeTo(s, x, z)
  BY <1>4, EscapePieces
<1>6. \A z : EscapeTo(s, x, z) <=> HexRun(s, x + 2, 4) /\ z = x + 6
  BY <1>4, EscapeCases
<1> QED
  BY <1>4, <1>5, <1>6 DEF OnePiece

\* The digits at x + 2 are not four, or those of a surrogate without another.
LoneUnit(s, x, y, unit) ==
    \/ ~HexRun(s, x + 2, 4)
    \/ unit \in LowSurrogate
    \/ unit \in HighSurrogate /\ ~OccursAt(s, y, UnicodeMark)

\* \uHHHH.
LEMMA StringFourDigits ==
    ASSUME NEW s \in Seq(Byte), NEW q \in Quotes, NEW p \in Nat, NEW x, NEW bytes,
           StringSoFar(s, q, p, x, bytes), OccursAt(s, x, UnicodeMark),
           NEW unit, unit = Hex4(s, x + 2), NEW y, y = x + 6, NEW all, all = bytes \o Utf8(unit)
    PROVE  /\ HexRun(s, x + 2, 4) /\ unit \notin HighSurrogate \cup LowSurrogate =>
                 StringSoFar(s, q, p, y, all)
           /\ LoneUnit(s, x, y, unit) => NoString(s, p, q)
<1>1. p + 1 \in 0..Len(s) /\ x \in 0..Len(s)
  BY CarriesRange DEF StringSoFar
<1>2. PICK b \in 0..Len(s) : b = p + 1
  BY <1>1
<1>3. Carries(s, q, b, x)
  BY <1>2 DEF StringSoFar
<1>4. /\ ByteIn(s, x, {BSlash}) /\ ByteIn(s, x + 1, {117}) /\ ~ByteIn(s, x, {q})
      /\ HexRun(s, x + 2, 4) => OnePiece(s, q, x, y)
      /\ ~HexRun(s, x + 2, 4) => \A z : ~QuotePiece(s, q, x, z)
  BY <1>1, UnicodePieces
<1>5. ~HexRun(s, x + 2, 4) => NoString(s, p, q)
  BY <1>4, StringStuck
<1>6. x \in Nat /\ s[x + 2] = 117
  <2>1. (x + 1) + 1 = x + 2
    BY <1>1
  <2> QED
    BY <1>1, <1>4, <2>1 DEF ByteIn
<1>7. ASSUME HexRun(s, x + 2, 4)
      PROVE  /\ Carries(s, q, b, y) /\ y \in InString(s, q, x)
             /\ \A r \in InString(s, q, x) : ByteIn(s, r, {q}) => x + 6 <= r
  <2>1. /\ Carries(s, q, b, y) /\ y \in InString(s, q, x)
        /\ \A r \in InString(s, q, x) : ByteIn(s, r, {q}) => r \in InString(s, q, y)
    BY <1>3, <1>4, <1>7, CarriesOne
  <2>2. y \in 0..Len(s)
    BY <2>1, CarriesRange
  <2>3. \A r \in InString(s, q, y) : x + 6 <= r
    BY <1>6, <2>2, InStringFacts
  <2> QED
    BY <2>1, <2>3
<1>8. PICK n \in Nat : n = 6 /\ n # 0 /\ y = x + n
  OBVIOUS
<1>9. ASSUME HexRun(s, x + 2, 4), unit \notin HighSurrogate \cup LowSurrogate
      PROVE  StringSoFar(s, q, p, y, all)
  <2>1. PICK more : more = Utf8(unit)
    OBVIOUS
  <2>2. EscapeAlways(s, x, n, more)
    <3>1. ASSUME NEW r \in (x + 6)..(Len(s) - 1), NEW raw, NEW i, NEW end, Seen(s, x, r, raw, i, end)
          PROVE  EscapeIs(raw, i, end, 6, more)
      BY <1>6, <1>9, <2>1, <3>1, EscapeFourDigits
    <3> QED
      BY <1>8, <3>1 DEF EscapeAlways
  <2> QED
    BY <1>2, <1>4, <1>7, <1>8, <1>9, <2>1, <2>2, StringEscape
<1>10. ASSUME HexRun(s, x + 2, 4),
              unit \in LowSurrogate \/ (unit \in HighSurrogate /\ ~OccursAt(s, y, UnicodeMark))
       PROVE  NoString(s, p, q)
  <2>1. EscapeNever(s, x, n)
    <3>1. ASSUME NEW r \in (x + 6)..(Len(s) - 1), NEW raw, NEW i, NEW end, Seen(s, x, r, raw, i, end)
          PROVE  ~EscapePiece(raw, i, end).ok
      <4>1. /\ unit \in LowSurrogate => ~EscapePiece(raw, i, end).ok
            /\ unit \in HighSurrogate /\ ~OccursAt(s, x + 6, UnicodeMark) =>
                  ~EscapePiece(raw, i, end).ok
        BY <1>6, <3>1, EscapeFourDigits
      <4> QED
        BY <1>10, <4>1
    <3> QED
      BY <1>8, <3>1 DEF EscapeNever
  <2>2. \A r \in InString(s, q, x) : ByteIn(s, r, {q}) => x + n <= r
    BY <1>7, <1>8, <1>10
  <2> QED
    BY <1>4, <1>8, <2>1, <2>2, StringLost
<1> QED
  BY <1>5, <1>9, <1>10 DEF LoneUnit

\* A high surrogate and the \u behind it.
LEMMA StringPair ==
    ASSUME NEW s \in Seq(Byte), NEW q \in Quotes, NEW p \in Nat, NEW x, NEW bytes,
           StringSoFar(s, q, p, x, bytes), OccursAt(s, x, UnicodeMark), HexRun(s, x + 2, 4),
           NEW high, high = Hex4(s, x + 2), high \in HighSurrogate, OccursAt(s, x + 6, UnicodeMark),
           NEW low, low = Hex4(s, x + 8), NEW y, y = x + 12,
           NEW all, all = bytes \o Utf8(SurrogatePair(high, low))
    PROVE  /\ ~HexRun(s, x + 8, 4) => NoString(s, p, q)
           /\ HexRun(s, x + 8, 4) /\ low \notin LowSurrogate => NoString(s, p, q)
           /\ HexRun(s, x + 8, 4) /\ low \in LowSurrogate => StringSoFar(s, q, p, y, all)
<1>1. p + 1 \in 0..Len(s) /\ x \in 0..Len(s)
  BY CarriesRange DEF StringSoFar
<1>2. PICK b \in 0..Len(s) : b = p + 1
  BY <1>1
<1>3. Carries(s, q, b, x)
  BY <1>2 DEF StringSoFar
<1>4. PICK m : m = x + 6
  OBVIOUS
<1>5. /\ ByteIn(s, x, {BSlash}) /\ ByteIn(s, x + 1, {117}) /\ ~ByteIn(s, x, {q})
      /\ OnePiece(s, q, x, m)
  BY <1>1, <1>4, UnicodePieces
<1>6. /\ Carries(s, q, b, m) /\ m \in InString(s, q, x)
      /\ \A r \in InString(s, q, x) : ByteIn(s, r, {q}) => r \in InString(s, q, m)
  BY <1>3, <1>5, CarriesOne
<1>7. m \in 0..Len(s) /\ y = m + 6 /\ m + 2 = x + 8
  BY <1>1, <1>4, <1>6, CarriesRange
<1>8. /\ ~ByteIn(s, m, {q})
      /\ HexRun(s, x + 8, 4) => OnePiece(s, q, m, y)
      /\ ~HexRun(s, x + 8, 4) => \A z : ~QuotePiece(s, q, m, z)
  <2>1. OccursAt(s, m, UnicodeMark)
    BY <1>4
  <2>2. /\ ~ByteIn(s, m, {q})
        /\ HexRun(s, m + 2, 4) => OnePiece(s, q, m, y)
        /\ ~HexRun(s, m + 2, 4) => \A z : ~QuotePiece(s, q, m, z)
    BY <1>7, <2>1, UnicodePieces
  <2>3. HexRun(s, m + 2, 4) <=> HexRun(s, x + 8, 4)
    BY <1>7
  <2> QED
    BY <2>2, <2>3
<1>9. ASSUME ~HexRun(s, x + 8, 4) PROVE NoString(s, p, q)
  <2>1. \A r \in InString(s, q, m) : r = m
    BY <1>7, <1>8, <1>9, InStringFacts
  <2>2. \A r \in InString(s, q, x) : ~ByteIn(s, r, {q})
    BY <1>6, <1>8, <2>1
  <2> QED
    BY <2>2, StringFails
<1>10. x \in Nat /\ s[x + 2] = 117
  <2>1. (x + 1) + 1 = x + 2
    BY <1>1
  <2> QED
    BY <1>1, <1>5, <2>1 DEF ByteIn
<1>11. ASSUME HexRun(s, x + 8, 4)
       PROVE  /\ Carries(s, q, b, y) /\ y \in InString(s, q, x)
              /\ \A r \in InString(s, q, x) : ByteIn(s, r, {q}) => x + 12 <= r
  <2>1. /\ Carries(s, q, b, y) /\ y \in InString(s, q, m)
        /\ \A r \in InString(s, q, m) : ByteIn(s, r, {q}) => r \in InString(s, q, y)
    BY <1>6, <1>8, <1>11, CarriesOne
  <2>2. y \in 0..Len(s)
    BY <2>1, CarriesRange
  <2>3. \A r \in InString(s, q, y) : x + 12 <= r
    BY <1>10, <2>2, InStringFacts
  <2>4. InString(s, q, m) \subseteq InString(s, q, x)
    <3>1. QuotePiece(s, q, x, m)
      BY <1>5 DEF OnePiece
    <3> QED
      BY <1>1, <3>1, InStringFacts
  <2> QED
    BY <1>6, <2>1, <2>3, <2>4
<1>12. PICK n \in Nat : n = 12 /\ n # 0 /\ y = x + n
  OBVIOUS
<1>13. ASSUME NEW r \in (x + 12)..(Len(s) - 1), NEW raw, NEW i, NEW end, Seen(s, x, r, raw, i, end)
       PROVE  /\ low \notin LowSurrogate => ~EscapePiece(raw, i, end).ok
              /\ low \in LowSurrogate =>
                    EscapeIs(raw, i, end, 12, Utf8(SurrogatePair(high, low)))
  <2>1. r \in (x + 6)..(Len(s) - 1) /\ x + 12 <= r
    BY <1>10
  <2>2. /\ high \in HighSurrogate /\ x + 12 <= r /\ Hex4(s, x + 8) \notin LowSurrogate =>
              ~EscapePiece(raw, i, end).ok
        /\ high \in HighSurrogate /\ x + 12 <= r /\ OccursAt(s, x + 6, UnicodeMark)
              /\ Hex4(s, x + 8) \in LowSurrogate =>
              EscapeIs(raw, i, end, 12, Utf8(SurrogatePair(high, Hex4(s, x + 8))))
    BY <1>10, <1>13, <2>1, EscapeFourDigits
  <2> QED
    BY <2>1, <2>2, Zenon
<1>14. ASSUME HexRun(s, x + 8, 4), low \notin LowSurrogate PROVE NoString(s, p, q)
  <2>1. EscapeNever(s, x, n)
    BY <1>12, <1>13, <1>14 DEF EscapeNever
  <2>2. \A r \in InString(s, q, x) : ByteIn(s, r, {q}) => x + n <= r
    BY <1>11, <1>12, <1>14
  <2> QED
    BY <1>5, <1>12, <2>1, <2>2, StringLost
<1>15. ASSUME HexRun(s, x + 8, 4), low \in LowSurrogate PROVE StringSoFar(s, q, p, y, all)
  <2>1. PICK more : more = Utf8(SurrogatePair(high, low))
    OBVIOUS
  <2>2. EscapeAlways(s, x, n, more)
    <3>1. ASSUME NEW r \in (x + 12)..(Len(s) - 1), NEW raw, NEW i, NEW end, Seen(s, x, r, raw, i, end)
          PROVE  EscapeIs(raw, i, end, 12, more)
      BY <1>13, <1>15, <2>1, <3>1
    <3> QED
      BY <1>12, <3>1 DEF EscapeAlways
  <2> QED
    BY <1>2, <1>5, <1>11, <1>12, <1>15, <2>1, <2>2, StringEscape
<1> QED
  BY <1>9, <1>14, <1>15

-----------------------------------------------------------------------------
(***************************************************************************)
(* The lexer: which terminals may match where.                             *)
(***************************************************************************)
NameEnds(s, p)  == Many(s, Class(s, {p}, IdStart), IdContinue)
\* The regular expressions of the other terminals.
LineOpen        == <<Slash, Slash>>
LineEnds(s, p)  == Many(s, Word(s, {p}, LineOpen), Byte \ LineEnd)
StringEnds(s, p) == QuotedEnds(s, p, Quote) \cup QuotedEnds(s, p, Apostrophe)
WordEnds(s, p, w) == Word(s, {p}, w)
ByteEnds(s, p, b) == Class(s, {p}, {b})

\* The regular expression of each terminal.
LEMMA EndsOf ==
    ASSUME NEW s, NEW p
    PROVE  /\ TerminalEnds("STRING", s, p) = StringEnds(s, p)
           /\ TerminalEnds("NUMBER", s, p) = NumberEnds(s, p)
           /\ TerminalEnds("IDENT", s, p) = NameEnds(s, p)
           /\ TerminalEnds("true", s, p) = WordEnds(s, p, WordTrue)
           /\ TerminalEnds("false", s, p) = WordEnds(s, p, WordFalse)
           /\ TerminalEnds("null", s, p) = WordEnds(s, p, WordNull)
           /\ TerminalEnds("{", s, p) = ByteEnds(s, p, LBrace)
           /\ TerminalEnds("}", s, p) = ByteEnds(s, p, RBrace)
           /\ TerminalEnds("[", s, p) = ByteEnds(s, p, LBracket)
           /\ TerminalEnds("]", s, p) = ByteEnds(s, p, RBracket)
           /\ TerminalEnds(",", s, p) = ByteEnds(s, p, Comma)
           /\ TerminalEnds(":", s, p) = ByteEnds(s, p, Colon)
           /\ TerminalEnds("space", s, p) = SpaceEnds(s, p)
           /\ TerminalEnds("line comment", s, p) = LineEnds(s, p)
           /\ TerminalEnds("block comment", s, p) = BlockCommentEnds(s, p)
<1>1. TerminalEnds("STRING", s, p) = StringEnds(s, p)
  BY Zenon DEF TerminalEnds, StringEnds
<1>2. TerminalEnds("NUMBER", s, p) = NumberEnds(s, p)
  BY Zenon DEF TerminalEnds
<1>3. TerminalEnds("IDENT", s, p) = NameEnds(s, p)
  BY Zenon DEF TerminalEnds, NameEnds
<1>4. TerminalEnds("true", s, p) = WordEnds(s, p, WordTrue)
  BY Zenon DEF TerminalEnds, WordEnds
<1>5. TerminalEnds("false", s, p) = WordEnds(s, p, WordFalse)
  BY Zenon DEF TerminalEnds, WordEnds
<1>6. TerminalEnds("null", s, p) = WordEnds(s, p, WordNull)
  BY Zenon DEF TerminalEnds, WordEnds
<1>7. TerminalEnds("{", s, p) = ByteEnds(s, p, LBrace)
  BY Zenon DEF TerminalEnds, ByteEnds
<1>8. TerminalEnds("}", s, p) = ByteEnds(s, p, RBrace)
  BY Zenon DEF TerminalEnds, ByteEnds
<1>9. TerminalEnds("[", s, p) = ByteEnds(s, p, LBracket)
  BY Zenon DEF TerminalEnds, ByteEnds
<1>10. TerminalEnds("]", s, p) = ByteEnds(s, p, RBracket)
  BY Zenon DEF TerminalEnds, ByteEnds
<1>11. TerminalEnds(",", s, p) = ByteEnds(s, p, Comma)
  BY Zenon DEF TerminalEnds, ByteEnds
<1>12. TerminalEnds(":", s, p) = ByteEnds(s, p, Colon)
  BY Zenon DEF TerminalEnds, ByteEnds
<1>13. TerminalEnds("space", s, p) = SpaceEnds(s, p)
  BY Zenon DEF TerminalEnds
<1>14. TerminalEnds("line comment", s, p) = LineEnds(s, p)
  BY Zenon DEF TerminalEnds, LineEnds, LineOpen
<1>15. TerminalEnds("block comment", s, p) = BlockCommentEnds(s, p)
  BY Zenon DEF TerminalEnds
<1> QED
  BY <1>1, <1>2, <1>3, <1>4, <1>5, <1>6, <1>7, <1>8, <1>9, <1>10, <1>11, <1>12, <1>13,
     <1>14, <1>15, Zenon

\* A terminal that is one byte, and one that is a word.
LEMMA ByteEndsFacts ==
    ASSUME NEW s \in Seq(Byte), NEW p \in 0..Len(s), NEW b
    PROVE  ByteEnds(s, p, b) = IF ByteIn(s, p, {b}) THEN {p + 1} ELSE {}
<1>1. PICK I : I = {p}
  OBVIOUS
<1>2. PICK S : S = {b}
  OBVIOUS
<1>3. Class(s, I, S) = IF ByteIn(s, p, S) THEN {p + 1} ELSE {}
  BY <1>1, ClassOne
<1> QED
  BY <1>1, <1>2, <1>3 DEF ByteEnds

\* The ends of a literal,
LEMMA WordEndsFacts ==
    ASSUME NEW s \in Seq(Byte), NEW p \in 0..Len(s), NEW w \in Seq(Byte)
    PROVE  \A e : e \in WordEnds(s, p, w) <=> e = p + Len(w) /\ OccursAt(s, p, w)
<1>1. PICK I : I = {p} /\ I \in SUBSET (0..Len(s))
  OBVIOUS
<1>2. \A e : e \in Word(s, I, w) <=> \E i \in I : e = i + Len(w) /\ OccursAt(s, i, w)
  BY <1>1, WordFacts
<1>3. WordEnds(s, p, w) = Word(s, I, w)
  BY <1>1 DEF WordEnds
<1> QED
  BY <1>1, <1>2, <1>3

\* of a name,
LEMMA NameEndsFacts ==
    ASSUME NEW s \in Seq(Byte), NEW p \in 0..Len(s), NEW u, u = RunEnd(s, p, IdContinue)
    PROVE  \A e : e \in NameEnds(s, p) <=> ByteIn(s, p, IdStart) /\ e \in (p + 1)..u
<1>1. PICK I : I = {p}
  OBVIOUS
<1>2. Class(s, I, IdStart) = IF ByteIn(s, p, IdStart) THEN {p + 1} ELSE {}
  BY <1>1, ClassOne
<1>3. PICK J : J = Class(s, I, IdStart)
  OBVIOUS
<1>4. NameEnds(s, p) = Many(s, J, IdContinue)
  BY <1>1, <1>3 DEF NameEnds
<1>5. CASE ByteIn(s, p, IdStart)
  <2>1. J = {p + 1}
    BY <1>2, <1>3, <1>5
  <2>2. PICK i \in 0..Len(s) : i = p + 1
    BY <1>5 DEF ByteIn
  <2>3. \A e : e \in Many(s, J, IdContinue) <=> e \in i..RunEnd(s, i, IdContinue)
    BY <2>1, <2>2, ManyRun
  <2>4. \A e : e \in i..RunEnd(s, i, IdContinue) <=> Spans(s, i, e, IdContinue)
    BY <2>2, RunSpans
  <2>5. \A e : e \in p..u <=> Spans(s, p, e, IdContinue)
    BY RunSpans
  <2>6. ASSUME NEW e PROVE Spans(s, i, e, IdContinue) <=> e \in (p + 1)..u
    <3>1. s[p + 1] \in IdContinue
      BY <1>5 DEF ByteIn, IdContinue
    <3>2. u \in Int
      BY RunEndFacts
    <3>3. Spans(s, i, e, IdContinue) <=> Spans(s, p, e, IdContinue) /\ p + 1 <= e
      <4>1. ASSUME Spans(s, i, e, IdContinue) PROVE Spans(s, p, e, IdContinue) /\ p + 1 <= e
        <5>1. \A k \in p..(e - 1) : k = p \/ k \in i..(e - 1)
          BY <2>2, <4>1 DEF Spans
        <5> QED
          BY <2>2, <3>1, <4>1, <5>1 DEF Spans
      <4>2. ASSUME Spans(s, p, e, IdContinue), p + 1 <= e PROVE Spans(s, i, e, IdContinue)
        BY <2>2, <4>2 DEF Spans
      <4> QED
        BY <4>1, <4>2
    <3>4. e \in (p + 1)..u <=> e \in p..u /\ p + 1 <= e
      BY <3>2
    <3> QED
      BY <2>5, <3>3, <3>4
  <2> QED
    BY <1>4, <1>5, <2>3, <2>4, <2>6
<1>6. CASE ~ByteIn(s, p, IdStart)
  <2>1. J = {}
    BY <1>2, <1>3, <1>6
  <2> QED
    BY <1>4, <1>6, <2>1, ManyNone
<1> QED
  BY <1>5, <1>6

\* and of a line comment.
LEMMA LineEndsFacts ==
    ASSUME NEW s \in Seq(Byte), NEW p \in 0..Len(s), NEW S, S = Byte \ LineEnd
    PROVE  /\ OccursAt(s, p, LineOpen) => p + 2 \in 0..Len(s)
           /\ \A e : e \in LineEnds(s, p) <=>
                 OccursAt(s, p, LineOpen) /\ e \in (p + 2)..RunEnd(s, p + 2, S)
<1>1. LineOpen \in Seq(Byte) /\ Len(LineOpen) = 2
  BY DEF LineOpen, Slash, Byte
<1>2. PICK J : J = WordEnds(s, p, LineOpen)
  OBVIOUS
<1>3. \A e : e \in J <=> e = p + Len(LineOpen) /\ OccursAt(s, p, LineOpen)
  BY <1>1, <1>2, WordEndsFacts
<1>4. LineEnds(s, p) = Many(s, J, S)
  BY <1>2 DEF LineEnds, WordEnds
<1>5. OccursAt(s, p, LineOpen) => p + 2 \in 0..Len(s)
  BY <1>1 DEF OccursAt
<1>6. CASE OccursAt(s, p, LineOpen)
  <2>1. PICK i \in 0..Len(s) : i = p + 2
    BY <1>5, <1>6
  <2>2. J = {i}
    BY <1>1, <1>3, <1>6, <2>1
  <2>3. \A e : e \in Many(s, J, S) <=> e \in i..RunEnd(s, i, S)
    BY <2>1, <2>2, ManyRun
  <2> QED
    BY <1>4, <1>5, <1>6, <2>1, <2>3
<1>7. CASE ~OccursAt(s, p, LineOpen)
  <2>1. J = {}
    BY <1>3, <1>7
  <2>2. \A e : e \notin Many(s, J, S)
    BY <2>1, ManyNone
  <2> QED
    BY <1>4, <1>7, <2>2
<1> QED
  BY <1>6, <1>7

\* A match takes at least a byte.
Beyond(ends, p) == \E e \in ends : e > p
May(s, p, t)    == Beyond(TerminalEnds(t, s, p), p)

\* The first bytes of numbers and of white space.
NumberFirst == Digit \cup {Plus, Minus, Dot, 73, 78}
SpaceFirst  == Space \cup {194, 226, 239}

\* The only terminal, names aside, that may match at p.
FirstTerminal(s, p) ==
    IF ByteIn(s, p, Quotes) THEN "STRING"
    ELSE IF ByteIn(s, p, NumberFirst) THEN "NUMBER"
    ELSE IF ByteIn(s, p, {116}) THEN "true"
    ELSE IF ByteIn(s, p, {102}) THEN "false"
    ELSE IF ByteIn(s, p, {110}) THEN "null"
    ELSE IF ByteIn(s, p, {LBrace}) THEN "{"
    ELSE IF ByteIn(s, p, {RBrace}) THEN "}"
    ELSE IF ByteIn(s, p, {LBracket}) THEN "["
    ELSE IF ByteIn(s, p, {RBracket}) THEN "]"
    ELSE IF ByteIn(s, p, {Comma}) THEN ","
    ELSE IF ByteIn(s, p, {Colon}) THEN ":"
    ELSE IF ByteIn(s, p, SpaceFirst) THEN "space"
    ELSE IF OccursAt(s, p, LineOpen) THEN "line comment"
    ELSE IF OccursAt(s, p, CommentOpen) THEN "block comment"
    ELSE "none"

\* The terminal that the first byte, or a comment's mark, tells.
LEMMA FirstTerminalIs ==
    ASSUME NEW s \in Seq(Byte), NEW p \in 0..Len(s)
    PROVE  /\ ByteIn(s, p, Quotes) => FirstTerminal(s, p) = "STRING"
           /\ ByteIn(s, p, NumberFirst) => FirstTerminal(s, p) = "NUMBER"
           /\ ByteIn(s, p, {116}) => FirstTerminal(s, p) = "true"
           /\ ByteIn(s, p, {102}) => FirstTerminal(s, p) = "false"
           /\ ByteIn(s, p, {110}) => FirstTerminal(s, p) = "null"
           /\ ByteIn(s, p, {LBrace}) => FirstTerminal(s, p) = "{"
           /\ ByteIn(s, p, {RBrace}) => FirstTerminal(s, p) = "}"
           /\ ByteIn(s, p, {LBracket}) => FirstTerminal(s, p) = "["
           /\ ByteIn(s, p, {RBracket}) => FirstTerminal(s, p) = "]"
           /\ ByteIn(s, p, {Comma}) => FirstTerminal(s, p) = ","
           /\ ByteIn(s, p, {Colon}) => FirstTerminal(s, p) = ":"
           /\ ByteIn(s, p, SpaceFirst) => FirstTerminal(s, p) = "space"
           /\ OccursAt(s, p, LineOpen) => FirstTerminal(s, p) = "line comment"
           /\ OccursAt(s, p, CommentOpen) => FirstTerminal(s, p) = "block comment"
           /\ ~ByteIn(s, p, NumberFirst \cup SpaceFirst \cup
                 {Quote, Apostrophe, 116, 102, 110, LBrace, RBrace, LBracket, RBracket, Comma, Colon})
              /\ ~OccursAt(s, p, LineOpen) /\ ~OccursAt(s, p, CommentOpen)
                 => FirstTerminal(s, p) = "none"
<1>0. /\ OccursAt(s, p, LineOpen) => ByteIn(s, p, {Slash}) /\ ByteIn(s, p + 1, {Slash})
      /\ OccursAt(s, p, CommentOpen) => ByteIn(s, p, {Slash}) /\ ByteIn(s, p + 1, {Asterisk})
  <2>1. /\ Len(LineOpen) = 2 /\ LineOpen[1] = Slash /\ LineOpen[2] = Slash
        /\ Len(CommentOpen) = 2 /\ CommentOpen[1] = Slash /\ CommentOpen[2] = Asterisk
    BY CommentMarks DEF LineOpen
  <2>2. (p + 1) + 1 = p + 2
    OBVIOUS
  <2> QED
    BY <2>1, <2>2 DEF OccursAt, ByteIn
<1>1. ByteIn(s, p, Quotes) => FirstTerminal(s, p) = "STRING"
  BY Zenon DEF FirstTerminal
<1>2a. ByteIn(s, p, NumberFirst) =>
         /\ ~ByteIn(s, p, Quotes)
  BY DEF ByteIn, Quotes, NumberFirst, SpaceFirst, Digit, Space, Plus, Minus, Dot, Quote, Apostrophe, LBrace, RBrace, LBracket, RBracket, Comma, Colon
<1>2. ByteIn(s, p, NumberFirst) => FirstTerminal(s, p) = "NUMBER"
  BY <1>2a, Zenon DEF FirstTerminal
<1>3a. ByteIn(s, p, {116}) =>
         /\ ~ByteIn(s, p, Quotes)
         /\ ~ByteIn(s, p, NumberFirst)
  <2>1. ASSUME ByteIn(s, p, {116})
        PROVE  /\ ~ByteIn(s, p, Quotes)
               /\ ~ByteIn(s, p, NumberFirst)
    <3>1. s[p + 1] = 116
      BY <2>1 DEF ByteIn
    <3>2. /\ 116 \notin Quotes
          /\ 116 \notin NumberFirst
      BY DEF Quotes, NumberFirst, SpaceFirst, Digit, Space, Plus, Minus, Dot, Quote, Apostrophe, LBrace, RBrace, LBracket, RBracket, Comma, Colon
    <3> QED
      BY <3>1, <3>2 DEF ByteIn
  <2> QED
    BY <2>1
<1>3. ByteIn(s, p, {116}) => FirstTerminal(s, p) = "true"
  BY <1>3a, Zenon DEF FirstTerminal
<1>4a. ByteIn(s, p, {102}) =>
         /\ ~ByteIn(s, p, Quotes)
         /\ ~ByteIn(s, p, NumberFirst)
         /\ ~ByteIn(s, p, {116})
  <2>1. ASSUME ByteIn(s, p, {102})
        PROVE  /\ ~ByteIn(s, p, Quotes)
               /\ ~ByteIn(s, p, NumberFirst)
               /\ ~ByteIn(s, p, {116})
    <3>1. s[p + 1] = 102
      BY <2>1 DEF ByteIn
    <3>2. /\ 102 \notin Quotes
          /\ 102 \notin NumberFirst
          /\ 102 \notin {116}
      BY DEF Quotes, NumberFirst, SpaceFirst, Digit, Space, Plus, Minus, Dot, Quote, Apostrophe, LBrace, RBrace, LBracket, RBracket, Comma, Colon
    <3> QED
      BY <3>1, <3>2 DEF ByteIn
  <2> QED
    BY <2>1
<1>4. ByteIn(s, p, {102}) => FirstTerminal(s, p) = "false"
  BY <1>4a, Zenon DEF FirstTerminal
<1>5a. ByteIn(s, p, {110}) =>
         /\ ~ByteIn(s, p, Quotes)
         /\ ~ByteIn(s, p, NumberFirst)
         /\ ~ByteIn(s, p, {116})
         /\ ~ByteIn(s, p, {102})
  <2>1. ASSUME ByteIn(s, p, {110})
        PROVE  /\ ~ByteIn(s, p, Quotes)
               /\ ~ByteIn(s, p, NumberFirst)
               /\ ~ByteIn(s, p, {116})
               /\ ~ByteIn(s, p, {102})
    <3>1. s[p + 1] = 110
      BY <2>1 DEF ByteIn
    <3>2. /\ 110 \notin Quotes
          /\ 110 \notin NumberFirst
          /\ 110 \notin {116}
          /\ 110 \notin {102}
      BY DEF Quotes, NumberFirst, SpaceFirst, Digit, Space, Plus, Minus, Dot, Quote, Apostrophe, LBrace, RBrace, LBracket, RBracket, Comma, Colon
    <3> QED
      BY <3>1, <3>2 DEF ByteIn
  <2> QED
    BY <2>1
<1>5. ByteIn(s, p, {110}) => FirstTerminal(s, p) = "null"
  BY <1>5a, Zenon DEF FirstTerminal
<1>6a. ByteIn(s, p, {LBrace}) =>
         /\ ~ByteIn(s, p, Quotes)
         /\ ~ByteIn(s, p, NumberFirst)
         /\ ~ByteIn(s, p, {116})
         /\ ~ByteIn(s, p, {102})
         /\ ~ByteIn(s, p, {110})
  <2>1. ASSUME ByteIn(s, p, {LBrace})
        PROVE  /\ ~ByteIn(s, p, Quotes)
               /\ ~ByteIn(s, p, NumberFirst)
               /\ ~ByteIn(s, p, {116})
               /\ ~ByteIn(s, p, {102})
               /\ ~ByteIn(s, p, {110})
    <3>1. s[p + 1] = LBrace
      BY <2>1 DEF ByteIn
    <3>2. /\ LBrace \notin Quotes
          /\ LBrace \notin NumberFirst
          /\ LBrace \notin {116}
          /\ LBrace \notin {102}
          /\ LBrace \notin {110}
      BY DEF Quotes, NumberFirst, SpaceFirst, Digit, Space, Plus, Minus, Dot, Quote, Apostrophe, LBrace, RBrace, LBracket, RBracket, Comma, Colon
    <3> QED
      BY <3>1, <3>2 DEF ByteIn
  <2> QED
    BY <2>1
<1>6. ByteIn(s, p, {LBrace}) => FirstTerminal(s, p) = "{"
  BY <1>6a, Zenon DEF FirstTerminal
<1>7a. ByteIn(s, p, {RBrace}) =>
         /\ ~ByteIn(s, p, Quotes)
         /\ ~ByteIn(s, p, NumberFirst)
         /\ ~ByteIn(s, p, {116})
         /\ ~ByteIn(s, p, {102})
         /\ ~ByteIn(s, p, {110})
         /\ ~ByteIn(s, p, {LBrace})
  <2>1. ASSUME ByteIn(s, p, {RBrace})
        PROVE  /\ ~ByteIn(s, p, Quotes)
               /\ ~ByteIn(s, p, NumberFirst)
               /\ ~ByteIn(s, p, {116})
               /\ ~ByteIn(s, p, {102})
               /\ ~ByteIn(s, p, {110})
               /\ ~ByteIn(s, p, {LBrace})
    <3>1. s[p + 1] = RBrace
      BY <2>1 DEF ByteIn
    <3>2. /\ RBrace \notin Quotes
          /\ RBrace \notin NumberFirst
          /\ RBrace \notin {116}
          /\ RBrace \notin {102}
          /\ RBrace \notin {110}
          /\ RBrace \notin {LBrace}
      BY DEF Quotes, NumberFirst, SpaceFirst, Digit, Space, Plus, Minus, Dot, Quote, Apostrophe, LBrace, RBrace, LBracket, RBracket, Comma, Colon
    <3> QED
      BY <3>1, <3>2 DEF ByteIn
  <2> QED
    BY <2>1
<1>7. ByteIn(s, p, {RBrace}) => FirstTerminal(s, p) = "}"
  BY <1>7a, Zenon DEF FirstTerminal
<1>8a. ByteIn(s, p, {LBracket}) =>
         /\ ~ByteIn(s, p, Quotes)
         /\ ~ByteIn(s, p, NumberFirst)
         /\ ~ByteIn(s, p, {116})
         /\ ~ByteIn(s, p, {102})
         /\ ~ByteIn(s, p, {110})
         /\ ~ByteIn(s, p, {LBrace})
         /\ ~ByteIn(s, p, {RBrace})
  <2>1. ASSUME ByteIn(s, p, {LBracket})
        PROVE  /\ ~ByteIn(s, p, Quotes)
               /\ ~ByteIn(s, p, NumberFirst)
               /\ ~ByteIn(s, p, {116})
               /\ ~ByteIn(s, p, {102})
               /\ ~ByteIn(s, p, {110})
               /\ ~ByteIn(s, p, {LBrace})
               /\ ~ByteIn(s, p, {RBrace})
    <3>1. s[p + 1] = LBracket
      BY <2>1 DEF ByteIn
    <3>2. /\ LBracket \notin Quotes
          /\ LBracket \notin NumberFirst
          /\ LBracket \notin {116}
          /\ LBracket \notin {102}
          /\ LBracket \notin {110}
          /\ LBracket \notin {LBrace}
          /\ LBracket \notin {RBrace}
      BY DEF Quotes, NumberFirst, SpaceFirst, Digit, Space, Plus, Minus, Dot, Quote, Apostrophe, LBrace, RBrace, LBracket, RBracket, Comma, Colon
    <3> QED
      BY <3>1, <3>2 DEF ByteIn
  <2> QED
    BY <2>1
<1>8. ByteIn(s, p, {LBracket}) => FirstTerminal(s, p) = "["
  BY <1>8a, Zenon DEF FirstTerminal
<1>9a. ByteIn(s, p, {RBracket}) =>
         /\ ~ByteIn(s, p, Quotes)
         /\ ~ByteIn(s, p, NumberFirst)
         /\ ~ByteIn(s, p, {116})
         /\ ~ByteIn(s, p, {102})
         /\ ~ByteIn(s, p, {110})
         /\ ~ByteIn(s, p, {LBrace})
         /\ ~ByteIn(s, p, {RBrace})
         /\ ~ByteIn(s, p, {LBracket})
  <2>1. ASSUME ByteIn(s, p, {RBracket})
        PROVE  /\ ~ByteIn(s, p, Quotes)
               /\ ~ByteIn(s, p, NumberFirst)
               /\ ~ByteIn(s, p, {116})
               /\ ~ByteIn(s, p, {102})
               /\ ~ByteIn(s, p, {110})
               /\ ~ByteIn(s, p, {LBrace})
               /\ ~ByteIn(s, p, {RBrace})
               /\ ~ByteIn(s, p, {LBracket})
    <3>1. s[p + 1] = RBracket
      BY <2>1 DEF ByteIn
    <3>2. /\ RBracket \notin Quotes
          /\ RBracket \notin NumberFirst
          /\ RBracket \notin {116}
          /\ RBracket \notin {102}
          /\ RBracket \notin {110}
          /\ RBracket \notin {LBrace}
          /\ RBracket \notin {RBrace}
          /\ RBracket \notin {LBracket}
      BY DEF Quotes, NumberFirst, SpaceFirst, Digit, Space, Plus, Minus, Dot, Quote, Apostrophe, LBrace, RBrace, LBracket, RBracket, Comma, Colon
    <3> QED
      BY <3>1, <3>2 DEF ByteIn
  <2> QED
    BY <2>1
<1>9. ByteIn(s, p, {RBracket}) => FirstTerminal(s, p) = "]"
  BY <1>9a, Zenon DEF FirstTerminal
<1>10a. ByteIn(s, p, {Comma}) =>
         /\ ~ByteIn(s, p, Quotes)
         /\ ~ByteIn(s, p, NumberFirst)
         /\ ~ByteIn(s, p, {116})
         /\ ~ByteIn(s, p, {102})
         /\ ~ByteIn(s, p, {110})
         /\ ~ByteIn(s, p, {LBrace})
         /\ ~ByteIn(s, p, {RBrace})
         /\ ~ByteIn(s, p, {LBracket})
         /\ ~ByteIn(s, p, {RBracket})
  <2>1. ASSUME ByteIn(s, p, {Comma})
        PROVE  /\ ~ByteIn(s, p, Quotes)
               /\ ~ByteIn(s, p, NumberFirst)
               /\ ~ByteIn(s, p, {116})
               /\ ~ByteIn(s, p, {102})
               /\ ~ByteIn(s, p, {110})
               /\ ~ByteIn(s, p, {LBrace})
               /\ ~ByteIn(s, p, {RBrace})
               /\ ~ByteIn(s, p, {LBracket})
               /\ ~ByteIn(s, p, {RBracket})
    <3>1. s[p + 1] = Comma
      BY <2>1 DEF ByteIn
    <3>2. /\ Comma \notin Quotes
          /\ Comma \notin NumberFirst
          /\ Comma \notin {116}
          /\ Comma \notin {102}
          /\ Comma \notin {110}
          /\ Comma \notin {LBrace}
          /\ Comma \notin {RBrace}
          /\ Comma \notin {LBracket}
          /\ Comma \notin {RBracket}
      BY DEF Quotes, NumberFirst, SpaceFirst, Digit, Space, Plus, Minus, Dot, Quote, Apostrophe, LBrace, RBrace, LBracket, RBracket, Comma, Colon
    <3> QED
      BY <3>1, <3>2 DEF ByteIn
  <2> QED
    BY <2>1
<1>10. ByteIn(s, p, {Comma}) => FirstTerminal(s, p) = ","
  BY <1>10a, Zenon DEF FirstTerminal
<1>11a. ByteIn(s, p, {Colon}) =>
         /\ ~ByteIn(s, p, Quotes)
         /\ ~ByteIn(s, p, NumberFirst)
         /\ ~ByteIn(s, p, {116})
         /\ ~ByteIn(s, p, {102})
         /\ ~ByteIn(s, p, {110})
         /\ ~ByteIn(s, p, {LBrace})
         /\ ~ByteIn(s, p, {RBrace})
         /\ ~ByteIn(s, p, {LBracket})
         /\ ~ByteIn(s, p, {RBracket})
         /\ ~ByteIn(s, p, {Comma})
  <2>1. ASSUME ByteIn(s, p, {Colon})
        PROVE  /\ ~ByteIn(s, p, Quotes)
               /\ ~ByteIn(s, p, NumberFirst)
               /\ ~ByteIn(s, p, {116})
               /\ ~ByteIn(s, p, {102})
               /\ ~ByteIn(s, p, {110})
               /\ ~ByteIn(s, p, {LBrace})
               /\ ~ByteIn(s, p, {RBrace})
               /\ ~ByteIn(s, p, {LBracket})
               /\ ~ByteIn(s, p, {RBracket})
               /\ ~ByteIn(s, p, {Comma})
    <3>1. s[p + 1] = Colon
      BY <2>1 DEF ByteIn
    <3>2. /\ Colon \notin Quotes
          /\ Colon \notin NumberFirst
          /\ Colon \notin {116}
          /\ Colon \notin {102}
          /\ Colon \notin {110}
          /\ Colon \notin {LBrace}
          /\ Colon \notin {RBrace}
          /\ Colon \notin {LBracket}
          /\ Colon \notin {RBracket}
          /\ Colon \notin {Comma}
      BY DEF Quotes, NumberFirst, SpaceFirst, Digit, Space, Plus, Minus, Dot, Quote, Apostrophe, LBrace, RBrace, LBracket, RBracket, Comma, Colon
    <3> QED
      BY <3>1, <3>2 DEF ByteIn
  <2> QED
    BY <2>1
<1>11. ByteIn(s, p, {Colon}) => FirstTerminal(s, p) = ":"
  BY <1>11a, Zenon DEF FirstTerminal
<1>12a. ByteIn(s, p, SpaceFirst) =>
         /\ ~ByteIn(s, p, Quotes)
         /\ ~ByteIn(s, p, NumberFirst)
         /\ ~ByteIn(s, p, {116})
         /\ ~ByteIn(s, p, {102})
         /\ ~ByteIn(s, p, {110})
         /\ ~ByteIn(s, p, {LBrace})
         /\ ~ByteIn(s, p, {RBrace})
         /\ ~ByteIn(s, p, {LBracket})
         /\ ~ByteIn(s, p, {RBracket})
         /\ ~ByteIn(s, p, {Comma})
         /\ ~ByteIn(s, p, {Colon})
  <2>1. \A v \in SpaceFirst : v \notin Quotes
    BY DEF Quotes, NumberFirst, SpaceFirst, Digit, Space, Plus, Minus, Dot, Quote, Apostrophe, LBrace, RBrace, LBracket, RBracket, Comma, Colon
  <2>2. \A v \in SpaceFirst : v \notin NumberFirst
    BY DEF Quotes, NumberFirst, SpaceFirst, Digit, Space, Plus, Minus, Dot, Quote, Apostrophe, LBrace, RBrace, LBracket, RBracket, Comma, Colon
  <2>3. \A v \in SpaceFirst : v \notin {116}
    BY DEF Quotes, NumberFirst, SpaceFirst, Digit, Space, Plus, Minus, Dot, Quote, Apostrophe, LBrace, RBrace, LBracket, RBracket, Comma, Colon
  <2>4. \A v \in SpaceFirst : v \notin {102}
    BY DEF Quotes, NumberFirst, SpaceFirst, Digit, Space, Plus, Minus, Dot, Quote, Apostrophe, LBrace, RBrace, LBracket, RBracket, Comma, Colon
  <2>5. \A v \in SpaceFirst : v \notin {110}
    BY DEF Quotes, NumberFirst, SpaceFirst, Digit, Space, Plus, Minus, Dot, Quote, Apostrophe, LBrace, RBrace, LBracket, RBracket, Comma, Colon
  <2>6. \A v \in SpaceFirst : v \notin {LBrace}
    BY DEF Quotes, NumberFirst, SpaceFirst, Digit, Space, Plus, Minus, Dot, Quote, Apostrophe, LBrace, RBrace, LBracket, RBracket, Comma, Colon
  <2>7. \A v \in SpaceFirst : v \notin {RBrace}
    BY DEF Quotes, NumberFirst, SpaceFirst, Digit, Space, Plus, Minus, Dot, Quote, Apostrophe, LBrace, RBrace, LBracket, RBracket, Comma, Colon
  <2>8. \A v \in SpaceFirst : v \notin {LBracket}
    BY DEF Quotes, NumberFirst, SpaceFirst, Digit, Space, Plus, Minus, Dot, Quote, Apostrophe, LBrace, RBrace, LBracket, RBracket, Comma, Colon
  <2>9. \A v \in SpaceFirst : v \notin {RBracket}
    BY DEF Quotes, NumberFirst, SpaceFirst, Digit, Space, Plus, Minus, Dot, Quote, Apostrophe, LBrace, RBrace, LBracket, RBracket, Comma, Colon
  <2>10. \A v \in SpaceFirst : v \notin {Comma}
    BY DEF Quotes, NumberFirst, SpaceFirst, Digit, Space, Plus, Minus, Dot, Quote, Apostrophe, LBrace, RBrace, LBracket, RBracket, Comma, Colon
  <2>11. \A v \in SpaceFirst : v \notin {Colon}
    BY DEF Quotes, NumberFirst, SpaceFirst, Digit, Space, Plus, Minus, Dot, Quote, Apostrophe, LBrace, RBrace, LBracket, RBracket, Comma, Colon
  <2> QED
    BY <2>1, <2>2, <2>3, <2>4, <2>5, <2>6, <2>7, <2>8, <2>9, <2>10, <2>11 DEF ByteIn
<1>12. ByteIn(s, p, SpaceFirst) => FirstTerminal(s, p) = "space"
  BY <1>12a, Zenon DEF FirstTerminal
<1>13a. OccursAt(s, p, LineOpen) =>
         /\ ~ByteIn(s, p, Quotes)
         /\ ~ByteIn(s, p, NumberFirst)
         /\ ~ByteIn(s, p, {116})
         /\ ~ByteIn(s, p, {102})
         /\ ~ByteIn(s, p, {110})
         /\ ~ByteIn(s, p, {LBrace})
         /\ ~ByteIn(s, p, {RBrace})
         /\ ~ByteIn(s, p, {LBracket})
         /\ ~ByteIn(s, p, {RBracket})
         /\ ~ByteIn(s, p, {Comma})
         /\ ~ByteIn(s, p, {Colon})
         /\ ~ByteIn(s, p, SpaceFirst)
  <2>1. ASSUME ByteIn(s, p, {Slash})
        PROVE  /\ ~ByteIn(s, p, Quotes)
               /\ ~ByteIn(s, p, NumberFirst)
               /\ ~ByteIn(s, p, {116})
               /\ ~ByteIn(s, p, {102})
               /\ ~ByteIn(s, p, {110})
               /\ ~ByteIn(s, p, {LBrace})
               /\ ~ByteIn(s, p, {RBrace})
               /\ ~ByteIn(s, p, {LBracket})
               /\ ~ByteIn(s, p, {RBracket})
               /\ ~ByteIn(s, p, {Comma})
               /\ ~ByteIn(s, p, {Colon})
               /\ ~ByteIn(s, p, SpaceFirst)
    <3>1. s[p + 1] = Slash
      BY <2>1 DEF ByteIn
    <3>2. /\ Slash \notin Quotes
          /\ Slash \notin NumberFirst
          /\ Slash \notin {116}
          /\ Slash \notin {102}
          /\ Slash \notin {110}
          /\ Slash \notin {LBrace}
          /\ Slash \notin {RBrace}
          /\ Slash \notin {LBracket}
          /\ Slash \notin {RBracket}
          /\ Slash \notin {Comma}
          /\ Slash \notin {Colon}
          /\ Slash \notin SpaceFirst
      BY DEF Quotes, NumberFirst, SpaceFirst, Digit, Space, Plus, Minus, Dot, Quote, Apostrophe, LBrace, RBrace, LBracket, RBracket, Comma, Colon, Slash
    <3> QED
      BY <3>1, <3>2 DEF ByteIn
  <2> QED
    BY <1>0, <2>1, Zenon
<1>13. OccursAt(s, p, LineOpen) => FirstTerminal(s, p) = "line comment"
  BY <1>13a, Zenon DEF FirstTerminal
<1>14a. OccursAt(s, p, CommentOpen) =>
         /\ ~ByteIn(s, p, Quotes)
         /\ ~ByteIn(s, p, NumberFirst)
         /\ ~ByteIn(s, p, {116})
         /\ ~ByteIn(s, p, {102})
         /\ ~ByteIn(s, p, {110})
         /\ ~ByteIn(s, p, {LBrace})
         /\ ~ByteIn(s, p, {RBrace})
         /\ ~ByteIn(s, p, {LBracket})
         /\ ~ByteIn(s, p, {RBracket})
         /\ ~ByteIn(s, p, {Comma})
         /\ ~ByteIn(s, p, {Colon})
         /\ ~ByteIn(s, p, SpaceFirst)
         /\ ~OccursAt(s, p, LineOpen)
  <2>1. ASSUME ByteIn(s, p, {Slash})
        PROVE  /\ ~ByteIn(s, p, Quotes)
               /\ ~ByteIn(s, p, NumberFirst)
               /\ ~ByteIn(s, p, {116})
               /\ ~ByteIn(s, p, {102})
               /\ ~ByteIn(s, p, {110})
               /\ ~ByteIn(s, p, {LBrace})
               /\ ~ByteIn(s, p, {RBrace})
               /\ ~ByteIn(s, p, {LBracket})
               /\ ~ByteIn(s, p, {RBracket})
               /\ ~ByteIn(s, p, {Comma})
               /\ ~ByteIn(s, p, {Colon})
               /\ ~ByteIn(s, p, SpaceFirst)
    <3>1. s[p + 1] = Slash
      BY <2>1 DEF ByteIn
    <3>2. /\ Slash \notin Quotes
          /\ Slash \notin NumberFirst
          /\ Slash \notin {116}
          /\ Slash \notin {102}
          /\ Slash \notin {110}
          /\ Slash \notin {LBrace}
          /\ Slash \notin {RBrace}
          /\ Slash \notin {LBracket}
          /\ Slash \notin {RBracket}
          /\ Slash \notin {Comma}
          /\ Slash \notin {Colon}
          /\ Slash \notin SpaceFirst
      BY DEF Quotes, NumberFirst, SpaceFirst, Digit, Space, Plus, Minus, Dot, Quote, Apostrophe, LBrace, RBrace, LBracket, RBracket, Comma, Colon, Slash
    <3> QED
      BY <3>1, <3>2 DEF ByteIn
  <2>2. ByteIn(s, p + 1, {Asterisk}) => ~ByteIn(s, p + 1, {Slash})
    BY DEF ByteIn, Asterisk, Slash
  <2> QED
    BY <1>0, <2>1, <2>2, Zenon
<1>14. OccursAt(s, p, CommentOpen) => FirstTerminal(s, p) = "block comment"
  BY <1>14a, Zenon DEF FirstTerminal
<1>15. ASSUME ~ByteIn(s, p, NumberFirst \cup SpaceFirst \cup
              {Quote, Apostrophe, 116, 102, 110, LBrace, RBrace, LBracket, RBracket, Comma, Colon}),
             ~OccursAt(s, p, LineOpen), ~OccursAt(s, p, CommentOpen)
       PROVE FirstTerminal(s, p) = "none"
  <2>1. /\ ~ByteIn(s, p, Quotes)
        /\ ~ByteIn(s, p, NumberFirst)
        /\ ~ByteIn(s, p, {116})
        /\ ~ByteIn(s, p, {102})
        /\ ~ByteIn(s, p, {110})
        /\ ~ByteIn(s, p, {LBrace})
        /\ ~ByteIn(s, p, {RBrace})
        /\ ~ByteIn(s, p, {LBracket})
        /\ ~ByteIn(s, p, {RBracket})
        /\ ~ByteIn(s, p, {Comma})
        /\ ~ByteIn(s, p, {Colon})
        /\ ~ByteIn(s, p, SpaceFirst)
    BY <1>15 DEF ByteIn, Quotes
  <2> QED
    BY <1>15, <2>1, Zenon DEF FirstTerminal
<1> QED
  BY <1>1, <1>2, <1>3, <1>4, <1>5, <1>6, <1>7, <1>8, <1>9, <1>10, <1>11, <1>12, <1>13, <1>14, <1>15, Zenon

\* The first byte of a number,
LEMMA NumberStarts ==
    ASSUME NEW s \in Seq(Byte), NEW p \in 0..Len(s), NEW e \in NumberEnds(s, p)
    PROVE  ByteIn(s, p, NumberFirst)
<1>1. PICK q : q = AfterSign(s, p)
  OBVIOUS
<1>2. CASE ByteIn(s, p, {Plus, Minus})
  BY <1>2 DEF ByteIn, NumberFirst
<1>3. CASE ~ByteIn(s, p, {Plus, Minus})
  <2>1. q = p
    BY <1>1, <1>3 DEF AfterSign
  <2>2. PICK r : r = IntegerEnd(s, q)
    OBVIOUS
  <2>3. PICK f : f = FractionEnd(s, r)
    OBVIOUS
  <2>a. q \in 0..Len(s) /\ r \in q..Len(s) /\ f \in r..Len(s)
    BY <1>1, <2>2, <2>3, DecimalFacts
  <2>b. r = q <=> ~ByteIn(s, q, Digit)
    BY <1>1, <2>2, <2>3, DecimalFacts
  <2>c. \A x : x \in DecimalEnds(s, p) <=> x \in DecimalRange(q, r, f)
    BY <1>1, <2>2, <2>3, DecimalFacts
  <2>d. f # r => ByteIn(s, r, {Dot})
    BY <1>1, <2>2, <2>3, DecimalFacts
  <2>5. ASSUME NEW x \in DecimalEnds(s, p) PROVE ByteIn(s, p, Digit) \/ ByteIn(s, p, {Dot})
    <3>1. CASE r = q
      <4>1. x \in (q + 2)..f
        BY <2>a, <2>c, <2>5, <3>1 DEF DecimalRange
      <4>2. f # r
        BY <2>a, <3>1, <4>1
      <4> QED
        BY <2>1, <2>d, <3>1, <4>2
    <3>2. CASE r # q
      BY <2>1, <2>b, <3>2
    <3> QED
      BY <3>1, <3>2
  <2>6. PICK d : d = AfterSign(s, f + 1)
    OBVIOUS
  <2>7. PICK E : E = {69, 101}
    OBVIOUS
  <2>8. \A x : x \in ExponentEnds(s, p) => f \in DecimalEnds(s, p)
    BY <1>1, <2>2, <2>3, <2>6, <2>7, ExponentFacts
  <2>9. PICK Z : Z = {Zero}
    OBVIOUS
  <2>10. PICK X : X = {88, 120}
    OBVIOUS
  <2>11. \A x : x \in HexEnds(s, p) => ByteIn(s, q, Z)
    BY <1>1, <2>9, <2>10, HexFacts
  <2>12. \/ e \in DecimalEnds(s, p)
         \/ e \in ExponentEnds(s, p)
         \/ e \in HexEnds(s, p)
         \/ e = q + 8 /\ OccursAt(s, q, WordInfinity)
         \/ e = q + 3 /\ OccursAt(s, q, WordNaN)
    BY <1>1, NumberEndsFacts
  <2>13. \/ ByteIn(s, p, Digit) \/ ByteIn(s, p, {Dot}) \/ ByteIn(s, p, {Zero})
         \/ ByteIn(s, p, {73}) \/ ByteIn(s, p, {78})
    <3>1. OccursAt(s, q, WordInfinity) => ByteIn(s, p, {73})
      BY <2>1, NumberWords DEF OccursAt, ByteIn
    <3>2. OccursAt(s, q, WordNaN) => ByteIn(s, p, {78})
      BY <2>1, NumberWords DEF OccursAt, ByteIn
    <3> QED
      BY <2>1, <2>5, <2>8, <2>9, <2>11, <2>12, <3>1, <3>2
  <2> QED
    BY <2>13 DEF ByteIn, NumberFirst, Digit, Zero
<1> QED
  BY <1>2, <1>3

\* of white space,
LEMMA SpaceStarts ==
    ASSUME NEW s \in Seq(Byte), NEW p \in 0..Len(s), NEW y, SpacePiece(s, p, y)
    PROVE  ByteIn(s, p, SpaceFirst)
<1>1. CASE ByteIn(s, p, Space)
  BY <1>1 DEF ByteIn, SpaceFirst
<1>2. CASE ~ByteIn(s, p, Space)
  <2>1. PICK word \in SpaceWords : OccursAt(s, p, word)
    BY <1>2 DEF SpacePiece
  <2>2. Len(word) > 0
    BY SpaceWordsType
  <2>3. word[1] \in {194, 226, 239}
    BY DEF SpaceWords, NBSP, BOM, LS, PS
  <2> QED
    BY <2>1, <2>2, <2>3 DEF OccursAt, ByteIn, SpaceFirst
<1> QED
  BY <1>1, <1>2

\* and of a word.
LEMMA WordStarts ==
    ASSUME NEW s \in Seq(Byte), NEW p \in 0..Len(s), NEW w \in Seq(Byte), Len(w) > 0,
           NEW b, b = w[1], Beyond(WordEnds(s, p, w), p)
    PROVE  ByteIn(s, p, {b})
<1>1. OccursAt(s, p, w)
  BY WordEndsFacts DEF Beyond
<1> QED
  BY <1>1 DEF OccursAt, ByteIn

\* The literals.
Literal3 == /\ WordTrue \in Seq(Byte) /\ Len(WordTrue) = 4 /\ WordTrue[1] = 116
            /\ WordFalse \in Seq(Byte) /\ Len(WordFalse) = 5 /\ WordFalse[1] = 102
            /\ WordNull \in Seq(Byte) /\ Len(WordNull) = 4 /\ WordNull[1] = 110

\* The three literals and how they begin.
LEMMA LiteralWords == Literal3
BY DEF Literal3, WordTrue, WordFalse, WordNull, Byte

\* A terminal that takes a byte begins with one of its first bytes.
LEMMA Starts ==
    ASSUME NEW s \in Seq(Byte), NEW p \in 0..Len(s)
    PROVE  /\ Beyond(StringEnds(s, p), p) => ByteIn(s, p, Quotes)
           /\ Beyond(NumberEnds(s, p), p) => ByteIn(s, p, NumberFirst)
           /\ Beyond(WordEnds(s, p, WordTrue), p) => ByteIn(s, p, {116})
           /\ Beyond(WordEnds(s, p, WordFalse), p) => ByteIn(s, p, {102})
           /\ Beyond(WordEnds(s, p, WordNull), p) => ByteIn(s, p, {110})
           /\ Beyond(ByteEnds(s, p, LBrace), p) => ByteIn(s, p, {LBrace})
           /\ Beyond(ByteEnds(s, p, RBrace), p) => ByteIn(s, p, {RBrace})
           /\ Beyond(ByteEnds(s, p, LBracket), p) => ByteIn(s, p, {LBracket})
           /\ Beyond(ByteEnds(s, p, RBracket), p) => ByteIn(s, p, {RBracket})
           /\ Beyond(ByteEnds(s, p, Comma), p) => ByteIn(s, p, {Comma})
           /\ Beyond(ByteEnds(s, p, Colon), p) => ByteIn(s, p, {Colon})
           /\ Beyond(SpaceEnds(s, p), p) => ByteIn(s, p, SpaceFirst)
           /\ Beyond(LineEnds(s, p), p) => OccursAt(s, p, LineOpen)
           /\ Beyond(BlockCommentEnds(s, p), p) => OccursAt(s, p, CommentOpen)
           /\ Beyond(NameEnds(s, p), p) => ByteIn(s, p, IdStart)
<1>1. Beyond(StringEnds(s, p), p) => ByteIn(s, p, Quotes)
  <2>1. \A q : \A e : e \in QuotedEnds(s, p, q) => ByteIn(s, p, {q})
    BY QuotedEndsFacts
  <2> QED
    BY <2>1 DEF Beyond, StringEnds, ByteIn, Quotes
<1>2. Beyond(NumberEnds(s, p), p) => ByteIn(s, p, NumberFirst)
  BY NumberStarts DEF Beyond
<1>3. Beyond(WordEnds(s, p, WordTrue), p) => ByteIn(s, p, {116})
  <2>1. PICK b : b = 116
    OBVIOUS
  <2>2. WordTrue \in Seq(Byte) /\ Len(WordTrue) > 0 /\ b = WordTrue[1]
    BY <2>1, LiteralWords DEF Literal3
  <2>3. Beyond(WordEnds(s, p, WordTrue), p) => ByteIn(s, p, {b})
    BY <2>2, WordStarts
  <2> QED
    BY <2>1, <2>3
<1>4. Beyond(WordEnds(s, p, WordFalse), p) => ByteIn(s, p, {102})
  <2>1. PICK b : b = 102
    OBVIOUS
  <2>2. WordFalse \in Seq(Byte) /\ Len(WordFalse) > 0 /\ b = WordFalse[1]
    BY <2>1, LiteralWords DEF Literal3
  <2>3. Beyond(WordEnds(s, p, WordFalse), p) => ByteIn(s, p, {b})
    BY <2>2, WordStarts
  <2> QED
    BY <2>1, <2>3
<1>5. Beyond(WordEnds(s, p, WordNull), p) => ByteIn(s, p, {110})
  <2>1. PICK b : b = 110
    OBVIOUS
  <2>2. WordNull \in Seq(Byte) /\ Len(WordNull) > 0 /\ b = WordNull[1]
    BY <2>1, LiteralWords DEF Literal3
  <2>3. Beyond(WordEnds(s, p, WordNull), p) => ByteIn(s, p, {b})
    BY <2>2, WordStarts
  <2> QED
    BY <2>1, <2>3
<1>6. \A b : Beyond(ByteEnds(s, p, b), p) => ByteIn(s, p, {b})
  BY ByteEndsFacts DEF Beyond
<1>7. Beyond(SpaceEnds(s, p), p) => ByteIn(s, p, SpaceFirst)
  <2>1. ASSUME Beyond(SpaceEnds(s, p), p) PROVE \E y : SpacePiece(s, p, y)
    <3>1. (\A y : ~SpacePiece(s, p, y)) => SpaceEnds(s, p) = {p}
      BY SpaceFacts
    <3> QED
      BY <2>1, <3>1 DEF Beyond
  <2> QED
    BY <2>1, SpaceStarts
<1>8. Beyond(LineEnds(s, p), p) => OccursAt(s, p, LineOpen)
  BY LineEndsFacts DEF Beyond
<1>9. Beyond(BlockCommentEnds(s, p), p) => OccursAt(s, p, CommentOpen)
  BY BlockCommentFacts DEF Beyond
<1>10. Beyond(NameEnds(s, p), p) => ByteIn(s, p, IdStart)
  BY NameEndsFacts DEF Beyond
<1> QED
  BY <1>1, <1>2, <1>3, <1>4, <1>5, <1>6, <1>7, <1>8, <1>9, <1>10, Zenon

\* The terminals but the name.
Rest == ValueTerminals \cup {"}", "]", ",", ":"} \cup Ignored

\* Only one of the terminals that are not names may match.
LEMMA MayFirst ==
    ASSUME NEW s \in Seq(Byte), NEW p \in 0..Len(s), NEW t \in Rest, May(s, p, t)
    PROVE  t = FirstTerminal(s, p)
<1>1. CASE t = "STRING"
  <2>1. May(s, p, "STRING") => Beyond(StringEnds(s, p), p)
    BY EndsOf, Zenon DEF May
  <2>2. Beyond(StringEnds(s, p), p) => ByteIn(s, p, Quotes)
    BY Starts, Zenon
  <2>3. ByteIn(s, p, Quotes) => FirstTerminal(s, p) = "STRING"
    BY FirstTerminalIs, ZenonT(60)
  <2> QED
    BY <1>1, <2>1, <2>2, <2>3, Zenon
<1>2. CASE t = "NUMBER"
  <2>1. May(s, p, "NUMBER") => Beyond(NumberEnds(s, p), p)
    BY EndsOf, Zenon DEF May
  <2>2. Beyond(NumberEnds(s, p), p) => ByteIn(s, p, NumberFirst)
    BY Starts, Zenon
  <2>3. ByteIn(s, p, NumberFirst) => FirstTerminal(s, p) = "NUMBER"
    BY FirstTerminalIs, ZenonT(60)
  <2> QED
    BY <1>2, <2>1, <2>2, <2>3, Zenon
<1>3. CASE t = "true"
  <2>1. May(s, p, "true") => Beyond(WordEnds(s, p, WordTrue), p)
    BY EndsOf, Zenon DEF May
  <2>2. Beyond(WordEnds(s, p, WordTrue), p) => ByteIn(s, p, {116})
    BY Starts, Zenon
  <2>3. ByteIn(s, p, {116}) => FirstTerminal(s, p) = "true"
    BY FirstTerminalIs, ZenonT(60)
  <2> QED
    BY <1>3, <2>1, <2>2, <2>3, Zenon
<1>4. CASE t = "false"
  <2>1. May(s, p, "false") => Beyond(WordEnds(s, p, WordFalse), p)
    BY EndsOf, Zenon DEF May
  <2>2. Beyond(WordEnds(s, p, WordFalse), p) => ByteIn(s, p, {102})
    BY Starts, Zenon
  <2>3. ByteIn(s, p, {102}) => FirstTerminal(s, p) = "false"
    BY FirstTerminalIs, ZenonT(60)
  <2> QED
    BY <1>4, <2>1, <2>2, <2>3, Zenon
<1>5. CASE t = "null"
  <2>1. May(s, p, "null") => Beyond(WordEnds(s, p, WordNull), p)
    BY EndsOf, Zenon DEF May
  <2>2. Beyond(WordEnds(s, p, WordNull), p) => ByteIn(s, p, {110})
    BY Starts, Zenon
  <2>3. ByteIn(s, p, {110}) => FirstTerminal(s, p) = "null"
    BY FirstTerminalIs, ZenonT(60)
  <2> QED
    BY <1>5, <2>1, <2>2, <2>3, Zenon
<1>6. CASE t = "{"
  <2>1. May(s, p, "{") => Beyond(ByteEnds(s, p, LBrace), p)
    BY EndsOf, Zenon DEF May
  <2>2. Beyond(ByteEnds(s, p, LBrace), p) => ByteIn(s, p, {LBrace})
    BY Starts, Zenon
  <2>3. ByteIn(s, p, {LBrace}) => FirstTerminal(s, p) = "{"
    BY FirstTerminalIs, ZenonT(60)
  <2> QED
    BY <1>6, <2>1, <2>2, <2>3, Zenon
<1>7. CASE t = "}"
  <2>1. May(s, p, "}") => Beyond(ByteEnds(s, p, RBrace), p)
    BY EndsOf, Zenon DEF May
  <2>2. Beyond(ByteEnds(s, p, RBrace), p) => ByteIn(s, p, {RBrace})
    BY Starts, Zenon
  <2>3. ByteIn(s, p, {RBrace}) => FirstTerminal(s, p) = "}"
    BY FirstTerminalIs, ZenonT(60)
  <2> QED
    BY <1>7, <2>1, <2>2, <2>3, Zenon
<1>8. CASE t = "["
  <2>1. May(s, p, "[") => Beyond(ByteEnds(s, p, LBracket), p)
    BY EndsOf, Zenon DEF May
  <2>2. Beyond(ByteEnds(s, p, LBracket), p) => ByteIn(s, p, {LBracket})
    BY Starts, Zenon
  <2>3. ByteIn(s, p, {LBracket}) => FirstTerminal(s, p) = "["
    BY FirstTerminalIs, ZenonT(60)
  <2> QED
    BY <1>8, <2>1, <2>2, <2>3, Zenon
<1>9. CASE t = "]"
  <2>1. May(s, p, "]") => Beyond(ByteEnds(s, p, RBracket), p)
    BY EndsOf, Zenon DEF May
  <2>2. Beyond(ByteEnds(s, p, RBracket), p) => ByteIn(s, p, {RBracket})
    BY Starts, Zenon
  <2>3. ByteIn(s, p, {RBracket}) => FirstTerminal(s, p) = "]"
    BY FirstTerminalIs, ZenonT(60)
  <2> QED
    BY <1>9, <2>1, <2>2, <2>3, Zenon
<1>10. CASE t = ","
  <2>1. May(s, p, ",") => Beyond(ByteEnds(s, p, Comma), p)
    BY EndsOf, Zenon DEF May
  <2>2. Beyond(ByteEnds(s, p, Comma), p) => ByteIn(s, p, {Comma})
    BY Starts, Zenon
  <2>3. ByteIn(s, p, {Comma}) => FirstTerminal(s, p) = ","
    BY FirstTerminalIs, ZenonT(60)
  <2> QED
    BY <1>10, <2>1, <2>2, <2>3, Zenon
<1>11. CASE t = ":"
  <2>1. May(s, p, ":") => Beyond(ByteEnds(s, p, Colon), p)
    BY EndsOf, Zenon DEF May
  <2>2. Beyond(ByteEnds(s, p, Colon), p) => ByteIn(s, p, {Colon})
    BY Starts, Zenon
  <2>3. ByteIn(s, p, {Colon}) => FirstTerminal(s, p) = ":"
    BY FirstTerminalIs, ZenonT(60)
  <2> QED
    BY <1>11, <2>1, <2>2, <2>3, Zenon
<1>12. CASE t = "space"
  <2>1. May(s, p, "space") => Beyond(SpaceEnds(s, p), p)
    BY EndsOf, Zenon DEF May
  <2>2. Beyond(SpaceEnds(s, p), p) => ByteIn(s, p, SpaceFirst)
    BY Starts, Zenon
  <2>3. ByteIn(s, p, SpaceFirst) => FirstTerminal(s, p) = "space"
    BY FirstTerminalIs, ZenonT(60)
  <2> QED
    BY <1>12, <2>1, <2>2, <2>3, Zenon
<1>13. CASE t = "line comment"
  <2>1. May(s, p, "line comment") => Beyond(LineEnds(s, p), p)
    BY EndsOf, Zenon DEF May
  <2>2. Beyond(LineEnds(s, p), p) => OccursAt(s, p, LineOpen)
    BY Starts, Zenon
  <2>3. OccursAt(s, p, LineOpen) => FirstTerminal(s, p) = "line comment"
    BY FirstTerminalIs, ZenonT(60)
  <2> QED
    BY <1>13, <2>1, <2>2, <2>3, Zenon
<1>14. CASE t = "block comment"
  <2>1. May(s, p, "block comment") => Beyond(BlockCommentEnds(s, p), p)
    BY EndsOf, Zenon DEF May
  <2>2. Beyond(BlockCommentEnds(s, p), p) => OccursAt(s, p, CommentOpen)
    BY Starts, Zenon
  <2>3. OccursAt(s, p, CommentOpen) => FirstTerminal(s, p) = "block comment"
    BY FirstTerminalIs, ZenonT(60)
  <2> QED
    BY <1>14, <2>1, <2>2, <2>3, Zenon
<1>15. \/ t = "STRING"
       \/ t = "NUMBER"
       \/ t = "true"
       \/ t = "false"
       \/ t = "null"
       \/ t = "{"
       \/ t = "}"
       \/ t = "["
       \/ t = "]"
       \/ t = ","
       \/ t = ":"
       \/ t = "space"
       \/ t = "line comment"
       \/ t = "block comment"
  BY Zenon DEF Rest, ValueTerminals, Ignored
<1> QED
  BY <1>1, <1>2, <1>3, <1>4, <1>5, <1>6, <1>7, <1>8, <1>9, <1>10, <1>11, <1>12, <1>13, <1>14, <1>15, Zenon

-----------------------------------------------------------------------------
(***************************************************************************)
(* The lexer: in each phase, which terminal is tried and which matches.    *)
(***************************************************************************)

\* The phases, and what may be matched in each.
Phases == {"value", "item", "pair", "colon", "object", "array", "nothing"}

Allowed(phase) == Expected[phase] \cup Ignored

\* What the grammar expects in each phase.
LEMMA ExpectedIs ==
    /\ DOMAIN Expected = Phases
    /\ Expected["value"] = ValueTerminals
    /\ Expected["item"] = ValueTerminals \cup {"]"}
    /\ Expected["pair"] = {"STRING", "IDENT", "}"}
    /\ Expected["colon"] = {":"}
    /\ Expected["object"] = {",", "}"}
    /\ Expected["array"] = {",", "]"}
    /\ Expected["nothing"] = {}
<1>1. DOMAIN Expected = Phases
  BY Zenon DEF Expected, Phases
<1>2. Expected["value"] = ValueTerminals /\ Expected["item"] = ValueTerminals \cup {"]"}
  BY Zenon DEF Expected
<1>3. Expected["pair"] = {"STRING", "IDENT", "}"} /\ Expected["colon"] = {":"}
  BY Zenon DEF Expected
<1>4. Expected["object"] = {",", "}"} /\ Expected["array"] = {",", "]"}
  BY Zenon DEF Expected
<1>5. Expected["nothing"] = {}
  BY Zenon DEF Expected
<1> QED
  BY <1>1, <1>2, <1>3, <1>4, <1>5, Zenon

\* A name is expected as a key only.
LEMMA NamesOnlyAsKeys ==
    ASSUME NEW phase \in Phases, "IDENT" \in Allowed(phase)
    PROVE  phase = "pair"
<1>1. "IDENT" \notin Ignored
  BY Zenon DEF Ignored
<1>2. "IDENT" \in Expected[phase]
  BY <1>1, Zenon DEF Allowed
<1>3. CASE phase = "value"
  BY <1>2, <1>3, ExpectedIs, Zenon DEF ValueTerminals
<1>4. CASE phase = "item"
  BY <1>2, <1>4, ExpectedIs, Zenon DEF ValueTerminals
<1>5. CASE phase = "colon"
  BY <1>2, <1>5, ExpectedIs, Zenon
<1>6. CASE phase = "object"
  BY <1>2, <1>6, ExpectedIs, Zenon
<1>7. CASE phase = "array"
  BY <1>2, <1>7, ExpectedIs, Zenon
<1>8. CASE phase = "nothing"
  BY <1>2, <1>8, ExpectedIs, Zenon
<1> QED
  BY <1>3, <1>4, <1>5, <1>6, <1>7, <1>8, Zenon DEF Phases

\* The terminals that are allowed elsewhere.
LEMMA AllowedRest ==
    ASSUME NEW phase \in Phases, NEW t \in Allowed(phase), t # "IDENT"
    PROVE  /\ t \in Rest
           /\ phase = "pair" => t \in {"STRING", "}"} \cup Ignored
<1>1. CASE t \in Ignored
  BY <1>1, Zenon DEF Rest
<1>2. CASE t \in Expected[phase]
  <2>1. CASE phase = "value"
    <3>1. t \in ValueTerminals
      BY <1>2, <2>1, ExpectedIs, Zenon
    <3>2. phase # "pair"
      BY <2>1, Zenon
    <3> QED
      BY <3>1, <3>2, Zenon DEF Rest
  <2>2. CASE phase = "item"
    <3>1. t \in ValueTerminals \cup {"]"}
      BY <1>2, <2>2, ExpectedIs, Zenon
    <3>2. phase # "pair"
      BY <2>2, Zenon
    <3> QED
      BY <3>1, <3>2, Zenon DEF Rest
  <2>3. CASE phase = "pair"
    <3>1. t \in {"STRING", "}"}
      BY <1>2, <2>3, ExpectedIs, Zenon
    <3> QED
      BY <3>1, Zenon DEF Rest, ValueTerminals
  <2>4. CASE phase = "colon"
    <3>1. t = ":"
      BY <1>2, <2>4, ExpectedIs, Zenon
    <3>2. phase # "pair"
      BY <2>4, Zenon
    <3> QED
      BY <3>1, <3>2, Zenon DEF Rest
  <2>5. CASE phase = "object"
    <3>1. t \in {",", "}"}
      BY <1>2, <2>5, ExpectedIs, Zenon
    <3>2. phase # "pair"
      BY <2>5, Zenon
    <3> QED
      BY <3>1, <3>2, Zenon DEF Rest
  <2>6. CASE phase = "array"
    <3>1. t \in {",", "]"}
      BY <1>2, <2>6, ExpectedIs, Zenon
    <3>2. phase # "pair"
      BY <2>6, Zenon
    <3> QED
      BY <3>1, <3>2, Zenon DEF Rest
  <2>7. CASE phase = "nothing"
    BY <1>2, <2>7, ExpectedIs, Zenon
  <2> QED
    BY <2>1, <2>2, <2>3, <2>4, <2>5, <2>6, <2>7, Zenon DEF Phases
<1> QED
  BY <1>1, <1>2, Zenon DEF Allowed

\* The only terminal that may match at p in a phase.
Looked(s, p, phase) == IF phase = "pair" /\ ByteIn(s, p, IdStart) THEN "IDENT"
                       ELSE FirstTerminal(s, p)

\* What begins with a letter is no string, no bracket, no space and no comment.
LEMMA NameByte ==
    ASSUME NEW s \in Seq(Byte), NEW p \in 0..Len(s), ByteIn(s, p, IdStart)
    PROVE  /\ ~ByteIn(s, p, Quotes) /\ ~ByteIn(s, p, {RBrace}) /\ ~ByteIn(s, p, SpaceFirst)
           /\ ~OccursAt(s, p, LineOpen) /\ ~OccursAt(s, p, CommentOpen)
<1>1. s[p + 1] \in IdStart
  BY DEF ByteIn
<1>2. Quotes \cap IdStart = {} /\ RBrace \notin IdStart /\ Slash \notin IdStart
  <2>1. Quote \notin IdStart /\ Apostrophe \notin IdStart
    BY DEF IdStart, Quote, Apostrophe
  <2>2. RBrace \notin IdStart /\ Slash \notin IdStart
    BY DEF IdStart, RBrace, Slash
  <2> QED
    BY <2>1, <2>2 DEF Quotes
<1>2a. SpaceFirst \cap IdStart = {}
  <2>1. \A v \in SpaceFirst : v < 33 \/ v > 193
    BY DEF SpaceFirst, Space
  <2>2. \A v \in IdStart : v \in Int /\ 35 < v /\ v < 123
    BY DEF IdStart
  <2> QED
    BY <2>1, <2>2
<1>3. ~ByteIn(s, p, Quotes) /\ ~ByteIn(s, p, {RBrace}) /\ ~ByteIn(s, p, SpaceFirst)
  BY <1>1, <1>2, <1>2a DEF ByteIn
<1>4. ~OccursAt(s, p, LineOpen)
  <2>1. Len(LineOpen) = 2 /\ LineOpen[1] = Slash
    BY DEF LineOpen
  <2>2. OccursAt(s, p, LineOpen) => s[p + 1] = Slash
    BY <2>1 DEF OccursAt
  <2> QED
    BY <1>1, <1>2, <2>2
<1>5. ~OccursAt(s, p, CommentOpen)
  <2>1. OccursAt(s, p, CommentOpen) => s[p + 1] = Slash
    BY CommentMarks DEF OccursAt
  <2> QED
    BY <1>1, <1>2, <2>1
<1> QED
  BY <1>3, <1>4, <1>5

\* No other terminal of a key's place begins like a name.
LEMMA KeyFirst ==
    ASSUME NEW s \in Seq(Byte), NEW p \in 0..Len(s), ByteIn(s, p, IdStart),
           NEW t \in {"STRING", "}"} \cup Ignored
    PROVE  ~May(s, p, t)
<1>3. ~ByteIn(s, p, Quotes) /\ ~ByteIn(s, p, {RBrace}) /\ ~ByteIn(s, p, SpaceFirst)
  BY NameByte, Zenon
<1>4. ~OccursAt(s, p, LineOpen)
  BY NameByte, Zenon
<1>5. ~OccursAt(s, p, CommentOpen)
  BY NameByte, Zenon
<1>6. CASE t = "STRING"
  BY <1>3, <1>6, EndsOf, Starts, Zenon DEF May
<1>7. CASE t = "}"
  BY <1>3, <1>7, EndsOf, Starts, Zenon DEF May
<1>8. CASE t = "space"
  BY <1>3, <1>8, EndsOf, Starts, Zenon DEF May
<1>9. CASE t = "line comment"
  BY <1>4, <1>9, EndsOf, Starts, Zenon DEF May
<1>10. CASE t = "block comment"
  BY <1>5, <1>10, EndsOf, Starts, Zenon DEF May
<1> QED
  BY <1>6, <1>7, <1>8, <1>9, <1>10, Zenon DEF Ignored

\* Of the terminals that are allowed, at most one may match.
LEMMA MayLooked ==
    ASSUME NEW s \in Seq(Byte), NEW p \in 0..Len(s), NEW phase \in Phases,
           NEW t \in Allowed(phase), May(s, p, t)
    PROVE  t = Looked(s, p, phase)
<1>1. CASE t = "IDENT"
  <2>1. phase = "pair"
    BY <1>1, NamesOnlyAsKeys, Zenon
  <2>2. Beyond(NameEnds(s, p), p)
    BY <1>1, EndsOf, Zenon DEF May
  <2>3. ByteIn(s, p, IdStart)
    BY <2>2, Starts, Zenon
  <2> QED
    BY <1>1, <2>1, <2>3, Zenon DEF Looked
<1>2. CASE t # "IDENT"
  <2>1. t \in Rest
    BY <1>2, AllowedRest, Zenon
  <2>2. t = FirstTerminal(s, p)
    BY <2>1, MayFirst, Zenon
  <2>3. ~(phase = "pair" /\ ByteIn(s, p, IdStart))
    BY <1>2, AllowedRest, KeyFirst, Zenon
  <2> QED
    BY <2>2, <2>3, Zenon DEF Looked
<1> QED
  BY <1>1, <1>2, Zenon

\* The lexer returns a t that ends at e.
Lexes(s, p, phase, t, e) ==
    /\ Matches(s, p, Expected[phase]) # {}
    /\ Longest(Matches(s, p, Expected[phase])) = [terminal |-> t, end |-> e]

\* Nothing matches.
LexesNothing(s, p, phase) == Matches(s, p, Expected[phase]) = {}

\* The lexer's matches.
LEMMA MatchesAre ==
    ASSUME NEW s, NEW p, NEW phase
    PROVE  \A m : m \in Matches(s, p, Expected[phase]) <=>
               \E t \in Allowed(phase) : \E e \in TerminalEnds(t, s, p) :
                   m = [terminal |-> t, end |-> e] /\ e > p
BY SMT DEF Matches, Allowed

\* If it has a match, the longest one is the token.
LEMMA LexOne ==
    ASSUME NEW s \in Seq(Byte), NEW p \in 0..Len(s), NEW phase \in Phases,
           NEW t \in Allowed(phase), t = Looked(s, p, phase),
           NEW ends \in SUBSET Nat, ends = TerminalEnds(t, s, p),
           NEW e \in ends, p < e, \A x \in ends : x <= e
    PROVE  Lexes(s, p, phase, t, e)
<1>1. PICK M : M = Matches(s, p, Expected[phase])
  OBVIOUS
<1>2. \A m : m \in M <=>
               \E u \in Allowed(phase) : \E x \in TerminalEnds(u, s, p) :
                   m = [terminal |-> u, end |-> x] /\ x > p
  BY <1>1, MatchesAre, Zenon
<1>3. PICK top : top = [terminal |-> t, end |-> e]
  OBVIOUS
<1>4. top \in M
  <2>1. e > p
    OBVIOUS
  <2>2. e \in TerminalEnds(t, s, p)
    OBVIOUS
  <2> QED
    BY <1>2, <1>3, <2>1, <2>2, Zenon
<1>5. ASSUME NEW m \in M PROVE \E x \in ends : m = [terminal |-> t, end |-> x]
  <2>1. PICK u \in Allowed(phase) : \E x \in TerminalEnds(u, s, p) :
                                       m = [terminal |-> u, end |-> x] /\ x > p
    BY <1>2
  <2>2. PICK x \in TerminalEnds(u, s, p) : m = [terminal |-> u, end |-> x] /\ x > p
    BY <2>1
  <2>3. May(s, p, u)
    BY <2>2 DEF May, Beyond
  <2>4. u = t
    BY <2>3, MayLooked, Zenon
  <2> QED
    BY <2>2, <2>4
<1>6. \A m \in M : m.end <= top.end
  <2>1. top.end = e
    BY <1>3
  <2>2. \A m \in M : m.end \in ends
    BY <1>5
  <2> QED
    BY <2>1, <2>2
<1>7. ASSUME NEW m \in M, \A n \in M : n.end <= m.end PROVE m = top
  <2>1. PICK x \in ends : m = [terminal |-> t, end |-> x]
    BY <1>5
  <2>2. m.end = x /\ top.end = e
    BY <1>3, <2>1
  <2>3. e <= x /\ x <= e
    BY <1>4, <1>7, <2>2
  <2>4. x = e
    BY <2>3
  <2> QED
    BY <1>3, <2>1, <2>4
<1>8. Longest(M) = top
  BY <1>4, <1>6, <1>7 DEF Longest
<1> QED
  BY <1>1, <1>3, <1>4, <1>8 DEF Lexes

\* If it has none, or is not allowed, there is no token.
LEMMA LexNone ==
    ASSUME NEW s \in Seq(Byte), NEW p \in 0..Len(s), NEW phase \in Phases,
           NEW t, t = Looked(s, p, phase), t \notin Allowed(phase) \/ ~May(s, p, t)
    PROVE  LexesNothing(s, p, phase)
<1>1. ASSUME NEW m \in Matches(s, p, Expected[phase]) PROVE FALSE
  <2>1. PICK u \in Allowed(phase) : \E x \in TerminalEnds(u, s, p) :
                                       m = [terminal |-> u, end |-> x] /\ x > p
    BY <1>1, MatchesAre, Zenon
  <2>2. May(s, p, u)
    BY <2>1 DEF May, Beyond
  <2>3. u = t
    BY <2>2, MayLooked, Zenon
  <2> QED
    BY <2>2, <2>3
<1> QED
  BY <1>1 DEF LexesNothing

-----------------------------------------------------------------------------
(***************************************************************************)
(* The run of the rules over the tokens.                                   *)
(***************************************************************************)
RunRound(s, st) == IF st.status = "reading" THEN Step(s, st) ELSE st

\* The states of the run.
RunOf(s) ==
    CHOOSE run : run = [n \in 0..(Len(s) + 1) |->
                           IF n = 0 THEN Start ELSE RunRound(s, run[n - 1])]

\* The rounds of the run.
LEMMA RunFacts ==
    ASSUME NEW s, NEW N \in Nat, N = Len(s) + 1
    PROVE  /\ RunOf(s)[0] = Start
           /\ \A n \in 1..N : RunOf(s)[n] = RunRound(s, RunOf(s)[n - 1])
           /\ Reference(s) = RunOf(s)[N]
<1> DEFINE Good(f, n) == /\ f[0] = Start
                         /\ \A m \in 1..n : f[m] = RunRound(s, f[m - 1])
           T == {n \in 0..N : \E f : Good(f, n)}
           Computes(f) == f = [n \in 0..N |-> IF n = 0 THEN Start
                                              ELSE RunRound(s, f[n - 1])]
<1>1. 0 \in T
  <2>1. PICK f : f = [m \in 0..N |-> Start]
    OBVIOUS
  <2>2. f[0] = Start /\ \A m \in 1..0 : f[m] = RunRound(s, f[m - 1])
    BY <2>1
  <2> QED
    BY <2>2
<1>2. ASSUME NEW n \in 1..N, n - 1 \in T PROVE n \in T
  <2>1. PICK f : Good(f, n - 1)
    BY <1>2
  <2>2. PICK g : g = [m \in 0..N |-> IF m = n THEN RunRound(s, f[n - 1]) ELSE f[m]]
    OBVIOUS
  <2>3. g[0] = Start
    BY <2>1, <2>2
  <2>4. ASSUME NEW m \in 1..n PROVE g[m] = RunRound(s, g[m - 1])
    <3>1. m - 1 \in 0..N /\ m - 1 # n /\ m \in 0..N
      OBVIOUS
    <3>2. g[m - 1] = f[m - 1]
      BY <2>2, <3>1
    <3>3. CASE m = n
      BY <2>2, <3>1, <3>2, <3>3
    <3>4. CASE m # n
      <4>1. m \in 1..(n - 1)
        BY <3>4
      <4>2. f[m] = RunRound(s, f[m - 1])
        BY <2>1, <4>1
      <4>3. g[m] = f[m]
        BY <2>2, <3>1, <3>4
      <4> QED
        BY <3>2, <4>2, <4>3
    <3> QED
      BY <3>3, <3>4
  <2>5. Good(g, n)
    BY <2>3, <2>4
  <2> QED
    BY <2>5
<1>3. 0..N \subseteq T
  <2> HIDE DEF T
  <2> QED
    BY <1>1, <1>2, BoundedInduction
<1>4. PICK f : Good(f, N)
  <2>1. N \in T
    <3>1. N \in 0..N
      OBVIOUS
    <3> HIDE DEF T
    <3> QED
      BY <1>3, <3>1
  <2> QED
    BY <2>1
<1>5. PICK h : h = [m \in 0..N |-> f[m]]
  OBVIOUS
<1>6. Computes(h)
  <2>1. ASSUME NEW n \in 0..N
        PROVE  h[n] = IF n = 0 THEN Start ELSE RunRound(s, h[n - 1])
    <3>1. CASE n = 0
      BY <1>4, <1>5, <3>1
    <3>2. CASE n # 0
      <4>1. n \in 1..N /\ n - 1 \in 0..N
        BY <3>2
      <4> QED
        BY <1>4, <1>5, <3>2, <4>1
    <3> QED
      BY <3>1, <3>2
  <2>2. h = [n \in 0..N |-> h[n]]
    BY <1>5
  <2> HIDE DEF Good
  <2> QED
    BY <2>1, <2>2
<1>7. Computes(RunOf(s))
  <2> HIDE DEF Good
  <2> QED
    BY <1>6 DEF RunOf
<1>8. Reference(s) = RunOf(s)[N]
  BY DEF Reference, RunOf, RunRound
<1> HIDE DEF Good, T
<1>9. \A n \in 1..N : RunOf(s)[n] = RunRound(s, RunOf(s)[n - 1])
  <2>1. \A n \in 1..N : n \in 0..N /\ n # 0
    OBVIOUS
  <2> QED
    BY <1>7, <2>1
<1>10. RunOf(s)[0] = Start
  <2>1. 0 \in 0..N
    OBVIOUS
  <2> QED
    BY <1>7, <2>1
<1> QED
  BY <1>8, <1>9, <1>10

\* The run comes to a state that still reads.
Reached(s, st) ==
    /\ st.status = "reading"
    /\ \E n \in Nat : n <= st.pos /\ n <= Len(s) /\ RunOf(s)[n] = st

\* The state of a run that reads at p and has found nothing wrong.
St(p, phase, open, done, d) ==
    [status |-> "reading", pos |-> p, phase |-> phase, open |-> open,
     out |-> done, bound |-> TRUE, deepest |-> d]

\* The fields of a state of the run before a decoding has failed.
LEMMA StFields ==
    ASSUME NEW p, NEW phase, NEW open, NEW done, NEW d, NEW st, st = St(p, phase, open, done, d)
    PROVE  /\ st.status = "reading" /\ st.pos = p /\ st.phase = phase /\ st.open = open
           /\ st.out = done /\ st.bound = TRUE /\ st.deepest = d
BY DEF St

\* The run reaches its start,
LEMMA ReachedStart ==
    ASSUME NEW s \in Seq(Byte)
    PROVE  Reached(s, St(0, "value", <<>>, <<>>, 0))
<1>1. PICK N \in Nat : N = Len(s) + 1
  OBVIOUS
<1>2. RunOf(s)[0] = Start
  BY <1>1, RunFacts
<1>3. Start = St(0, "value", <<>>, <<>>, 0)
  BY DEF Start, St
<1>4. Start.status = "reading" /\ Start.pos = 0
  BY DEF Start
<1>5. 0 \in Nat /\ 0 <= 0 /\ 0 <= Len(s)
  OBVIOUS
<1> QED
  BY <1>2, <1>3, <1>4, <1>5, Zenon DEF Reached

\* and whatever a step makes of a state it has reached.
LEMMA ReachedOn ==
    ASSUME NEW s \in Seq(Byte), NEW a, Reached(s, a), NEW b, b = Step(s, a), b.status = "reading",
           NEW p \in Nat, p = a.pos, NEW e \in Nat, e = b.pos, p < e, p < Len(s)
    PROVE  Reached(s, b)
<1>1. PICK n \in Nat : n <= p /\ n <= Len(s) /\ RunOf(s)[n] = a
  BY DEF Reached
<1>2. PICK N \in Nat : N = Len(s) + 1
  OBVIOUS
<1>2a. PICK l \in Nat : l = Len(s) /\ p < l
  OBVIOUS
<1>3. PICK m \in 1..N : m - 1 = n /\ m \in Nat /\ m <= e /\ m <= Len(s)
  <2>1. PICK m : m = n + 1
    OBVIOUS
  <2>2. m \in 1..N /\ m - 1 = n /\ m \in Nat /\ m <= e /\ m <= l
    BY <1>1, <1>2, <1>2a, <2>1
  <2> QED
    BY <1>2a, <2>2
<1>4. RunOf(s)[m] = RunRound(s, a)
  BY <1>1, <1>2, <1>3, RunFacts
<1>5. a.status = "reading"
  BY DEF Reached
<1>6. RunOf(s)[m] = b
  BY <1>4, <1>5, Zenon DEF RunRound
<1> QED
  BY <1>3, <1>6 DEF Reached

\* The verdict is the last state of the run.
LEMMA ReachedLast ==
    ASSUME NEW s \in Seq(Byte), NEW a, Reached(s, a), NEW b, b = Step(s, a), b.status # "reading"
    PROVE  Reference(s) = b
<1>1. PICK n \in Nat : n <= Len(s) /\ RunOf(s)[n] = a
  BY DEF Reached
<1>2. PICK N \in Nat : N = Len(s) + 1
  OBVIOUS
<1>3. PICK m \in 1..N : m - 1 = n
  BY <1>1, <1>2
<1>4. RunOf(s)[m] = RunRound(s, a)
  BY <1>1, <1>2, <1>3, RunFacts
<1>5. a.status = "reading"
  BY DEF Reached
<1>6. RunOf(s)[m] = b
  BY <1>4, <1>5, Zenon DEF RunRound
<1>7. RunRound(s, b) = b
  BY Zenon DEF RunRound
<1> DEFINE T == {k \in 0..N : k >= m => RunOf(s)[k] = b}
<1>8. 0 \in T
  BY <1>3
<1>9. ASSUME NEW k \in 1..N, k - 1 \in T PROVE k \in T
  <2>1. CASE k < m
    BY <2>1
  <2>2. CASE k = m
    BY <1>6, <2>2
  <2>3. CASE k > m
    <3>1. RunOf(s)[k - 1] = b
      BY <1>9, <2>3
    <3>2. RunOf(s)[k] = RunRound(s, RunOf(s)[k - 1])
      BY <1>2, RunFacts
    <3> QED
      BY <1>7, <3>1, <3>2
  <2> QED
    BY <2>1, <2>2, <2>3
<1>10. 0..N \subseteq T
  <2> HIDE DEF T
  <2> QED
    BY <1>8, <1>9, BoundedInduction
<1>11. RunOf(s)[N] = b
  <2>1. N \in 0..N /\ N >= m
    OBVIOUS
  <2> QED
    BY <1>10, <2>1
<1> QED
  BY <1>2, <1>11, RunFacts

\* The same with the outcome of decoding as bd.
State(p, phase, open, done, bd, d) ==
    [status |-> "reading", pos |-> p, phase |-> phase, open |-> open,
     out |-> done, bound |-> bd, deepest |-> d]

\* What a token makes of a state.
After(a, t, e, raw) ==
    State(e, PhaseAfter(a, t), OpenAfter(a, t), OutAfter(a, t, raw), BoundAfter(a, t, raw),
          DeepestAfter(a, t))

\* The fields of a state of the run.
LEMMA StateFields ==
    ASSUME NEW p, NEW phase, NEW open, NEW done, NEW bd, NEW d, NEW st,
           st = State(p, phase, open, done, bd, d)
    PROVE  /\ st.status = "reading" /\ st.pos = p /\ st.phase = phase /\ st.open = open
           /\ st.out = done /\ st.deepest = d
           /\ st.bound = bd
BY DEF State

\* Phases allow terminals only.
LEMMA AllowedTerminals ==
    ASSUME NEW phase \in Phases
    PROVE  Allowed(phase) \subseteq Terminals
<1>1. DOMAIN Expected = Phases
  BY ExpectedIs, Zenon
<1>2. ASSUME NEW t \in Expected[phase] PROVE t \in UNION {Expected[f] : f \in DOMAIN Expected}
  <2>1. PICK E : E = Expected
    OBVIOUS
  <2>2. phase \in DOMAIN E /\ t \in E[phase]
    BY <1>1, <1>2, <2>1
  <2>3. t \in UNION {E[f] : f \in DOMAIN E}
    BY <2>2
  <2> QED
    BY <2>1, <2>3, Zenon
<1>3. ASSUME NEW t \in Allowed(phase) PROVE t \in Terminals
  <2>1. t \in Expected[phase] \/ t \in Ignored
    BY Zenon DEF Allowed
  <2>2. CASE t \in Expected[phase]
    BY <1>2, <2>2, Zenon DEF Terminals
  <2>3. CASE t \in Ignored
    BY <2>3, Zenon DEF Terminals
  <2> QED
    BY <2>1, <2>2, <2>3, Zenon
<1> QED
  BY <1>3, Zenon

\* A step takes its token,
LEMMA StepShifts ==
    ASSUME NEW s \in Seq(Byte), NEW p \in 0..Len(s), p # Len(s), NEW phase \in Phases,
           NEW t \in Allowed(phase), NEW e \in 0..Len(s), Lexes(s, p, phase, t, e),
           NEW open, NEW done, NEW bd, NEW d, NEW a, a = State(p, phase, open, done, bd, d)
    PROVE  /\ t \in Ignored => Step(s, a) = State(e, phase, open, done, bd, d)
           /\ t \notin Ignored => Step(s, a) = After(a, t, e, Slice(s, p, e))
<1>1. a.status = "reading" /\ a.pos = p /\ a.phase = phase
  BY StateFields
<1>2. PICK token : token = [terminal |-> t, end |-> e]
  OBVIOUS
<1>3. t \in Terminals
  BY AllowedTerminals
<1>4. token \in [terminal : Terminals, end : 0..Len(s)] /\ token.terminal = t /\ token.end = e
  BY <1>2, <1>3
<1>5. Step(s, a) = Shift(s, a)[token]
  <2>1. /\ Matches(s, a.pos, Expected[a.phase]) # {}
        /\ Longest(Matches(s, a.pos, Expected[a.phase])) = token
    BY <1>1, <1>2 DEF Lexes
  <2> QED
    BY <1>1, <2>1, Zenon DEF Step
<1>6. PICK raw : raw = Slice(s, p, e)
  OBVIOUS
<1>7. Shift(s, a)[token] =
        IF t \in Ignored THEN [a EXCEPT !.pos = e]
        ELSE [a EXCEPT !.pos     = e,
                       !.open    = OpenAfter(a, t),
                       !.phase   = PhaseAfter(a, t),
                       !.out     = OutAfter(a, t, raw),
                       !.bound   = BoundAfter(a, t, raw),
                       !.deepest = DeepestAfter(a, t)]
  BY <1>1, <1>4, <1>6 DEF Shift
<1>8. [a EXCEPT !.pos = e] = State(e, phase, open, done, bd, d)
  BY DEF State
<1>9. [a EXCEPT !.pos     = e,
                !.open    = OpenAfter(a, t),
                !.phase   = PhaseAfter(a, t),
                !.out     = OutAfter(a, t, raw),
                !.bound   = BoundAfter(a, t, raw),
                !.deepest = DeepestAfter(a, t)] = After(a, t, e, raw)
  <2>1. PICK ph, op, ou, de : ph = PhaseAfter(a, t) /\ op = OpenAfter(a, t)
                              /\ ou = OutAfter(a, t, raw) /\ de = DeepestAfter(a, t)
    OBVIOUS
  <2>2. PICK bo : bo = BoundAfter(a, t, raw)
    OBVIOUS
  <2>3. [a EXCEPT !.pos = e, !.open = op, !.phase = ph, !.out = ou, !.bound = bo, !.deepest = de]
          = State(e, ph, op, ou, bo, de)
    <3>1. PICK a1 : a1 = [a EXCEPT !.pos = e, !.open = op]
      OBVIOUS
    <3>2. a1 = State(e, phase, op, done, bd, d)
      BY <3>1 DEF State
    <3>3. PICK a2 : a2 = [a1 EXCEPT !.phase = ph, !.out = ou]
      OBVIOUS
    <3>4. a2 = State(e, ph, op, ou, bd, d)
      BY <3>2, <3>3 DEF State
    <3>5. PICK a3 : a3 = [a2 EXCEPT !.bound = bo, !.deepest = de]
      OBVIOUS
    <3>6. a3 = State(e, ph, op, ou, bo, de)
      BY <3>4, <3>5 DEF State
    <3>7. a3 = [a EXCEPT !.pos = e, !.open = op, !.phase = ph, !.out = ou, !.bound = bo, !.deepest = de]
      BY <3>1, <3>3, <3>5, Zenon
    <3> QED
      BY <3>6, <3>7
  <2> QED
    BY <2>1, <2>2, <2>3, Zenon DEF After
<1> QED
  BY <1>5, <1>6, <1>7, <1>8, <1>9, Zenon

\* or stops where there is none,
LEMMA StepStops ==
    ASSUME NEW s \in Seq(Byte), NEW p \in 0..Len(s), p # Len(s), NEW phase,
           LexesNothing(s, p, phase),
           NEW open, NEW done, NEW bd, NEW d, NEW a, a = State(p, phase, open, done, bd, d)
    PROVE  Step(s, a).status = "invalid"
<1>1. a.status = "reading" /\ a.pos = p /\ a.phase = phase
  BY StateFields
<1>2. Step(s, a) = [a EXCEPT !.status = "invalid"]
  BY <1>1, Zenon DEF Step, LexesNothing
<1>3. [a EXCEPT !.status = "invalid"].status = "invalid"
  BY DEF State
<1> QED
  BY <1>2, <1>3

\* or is at the end of the text.
LEMMA StepEnds ==
    ASSUME NEW s \in Seq(Byte), NEW p, p = Len(s), NEW phase,
           NEW open, NEW done, NEW bd, NEW d, NEW a, a = State(p, phase, open, done, bd, d),
           NEW b, b = Step(s, a)
    PROVE  /\ phase = "nothing" => b.status = "valid"
           /\ phase # "nothing" => b.status = "invalid"
           /\ b.out = done /\ b.deepest = d
           /\ b.bound = bd
<1>1. a.status = "reading" /\ a.pos = p /\ a.phase = phase
  BY StateFields
<1>2. PICK v : v = IF phase = "nothing" THEN "valid" ELSE "invalid"
  OBVIOUS
<1>3. b = [a EXCEPT !.status = v]
  BY <1>1, <1>2, Zenon DEF Step
<1>4. b.status = v /\ b.out = done /\ b.deepest = d
  BY <1>3 DEF State
<1>5. b.bound = bd
  BY <1>3 DEF State
<1> QED
  BY <1>2, <1>4, <1>5, Zenon

\* What each token makes of the open containers, of the phase, of the events
\* and of the depth.
LEMMA OpenAfterIs ==
    ASSUME NEW st
    PROVE  /\ OpenAfter(st, "{") = Append(st.open, "object")
           /\ OpenAfter(st, "[") = Append(st.open, "array")
           /\ OpenAfter(st, "}") = SubSeq(st.open, 1, Len(st.open) - 1)
           /\ OpenAfter(st, "]") = SubSeq(st.open, 1, Len(st.open) - 1)
           /\ \A t \in {"STRING", "NUMBER", "IDENT", "true", "false", "null", ",", ":"} :
                 OpenAfter(st, t) = st.open
<1>1. OpenAfter(st, "{") = Append(st.open, "object")
  BY Zenon DEF OpenAfter
<1>2. OpenAfter(st, "[") = Append(st.open, "array")
  BY Zenon DEF OpenAfter
<1>3. OpenAfter(st, "}") = SubSeq(st.open, 1, Len(st.open) - 1)
  BY Zenon DEF OpenAfter
<1>4. OpenAfter(st, "]") = SubSeq(st.open, 1, Len(st.open) - 1)
  BY Zenon DEF OpenAfter
<1>5. \A t \in {"STRING", "NUMBER", "IDENT", "true", "false", "null", ",", ":"} :
                 OpenAfter(st, t) = st.open
  BY Zenon DEF OpenAfter
<1> QED
  BY <1>1, <1>2, <1>3, <1>4, <1>5, Zenon

\* The phase,
LEMMA PhaseAfterIs ==
    ASSUME NEW st
    PROVE  /\ PhaseAfter(st, "{") = "pair"
           /\ PhaseAfter(st, "[") = "item"
           /\ PhaseAfter(st, ":") = "value"
           /\ st.phase = "object" => PhaseAfter(st, ",") = "pair"
           /\ st.phase = "array" => PhaseAfter(st, ",") = "item"
           /\ PhaseAfter(st, "}") = Follow(OpenAfter(st, "}"))
           /\ PhaseAfter(st, "]") = Follow(OpenAfter(st, "]"))
           /\ st.phase = "pair" => \A t \in {"STRING", "IDENT"} : PhaseAfter(st, t) = "colon"
           /\ st.phase # "pair" => \A t \in {"STRING", "NUMBER", "true", "false", "null"} :
                                      PhaseAfter(st, t) = Follow(st.open)
<1>1. PhaseAfter(st, "{") = "pair"
  BY Zenon DEF PhaseAfter
<1>2. PhaseAfter(st, "[") = "item"
  BY Zenon DEF PhaseAfter
<1>3. PhaseAfter(st, ":") = "value"
  BY Zenon DEF PhaseAfter
<1>4. st.phase = "object" => PhaseAfter(st, ",") = "pair"
  BY Zenon DEF PhaseAfter
<1>5. st.phase = "array" => PhaseAfter(st, ",") = "item"
  BY Zenon DEF PhaseAfter
<1>6. PhaseAfter(st, "}") = Follow(OpenAfter(st, "}"))
  BY Zenon DEF PhaseAfter
<1>7. PhaseAfter(st, "]") = Follow(OpenAfter(st, "]"))
  BY Zenon DEF PhaseAfter
<1>8. st.phase = "pair" => \A t \in {"STRING", "IDENT"} : PhaseAfter(st, t) = "colon"
  BY Zenon DEF PhaseAfter
<1>9. st.phase # "pair" => \A t \in {"STRING", "NUMBER", "true", "false", "null"} :
                              PhaseAfter(st, t) = Follow(st.open)
  <2>1. \A t \in {"STRING", "NUMBER", "true", "false", "null"} : OpenAfter(st, t) = st.open
    BY OpenAfterIs, Zenon
  <2>2. st.phase # "pair" => \A t \in {"STRING", "NUMBER", "true", "false", "null"} :
                                PhaseAfter(st, t) = Follow(OpenAfter(st, t))
    BY Zenon DEF PhaseAfter
  <2> QED
    BY <2>1, <2>2, Zenon
<1> QED
  BY <1>1, <1>2, <1>3, <1>4, <1>5, <1>6, <1>7, <1>8, <1>9, Zenon

\* the events,
LEMMA OutAfterIs ==
    ASSUME NEW st, NEW raw
    PROVE  /\ OutAfter(st, ",", raw) = st.out
           /\ OutAfter(st, ":", raw) = st.out
           /\ \A t \in {"{", "}", "[", "]", "true", "false", "null"} :
                 OutAfter(st, t, raw) = Append(st.out, Ev(t, <<>>))
           /\ OutAfter(st, "NUMBER", raw) = Append(st.out, Ev("number", raw))
           /\ OutAfter(st, "IDENT", raw) = Append(st.out, Ev("key", raw))
           /\ st.phase = "pair" =>
                 OutAfter(st, "STRING", raw) = Append(st.out, Ev("key", DecodeString(raw).bytes))
           /\ st.phase # "pair" =>
                 OutAfter(st, "STRING", raw) = Append(st.out, Ev("string", DecodeString(raw).bytes))
<1>1. OutAfter(st, ",", raw) = st.out
  BY Zenon DEF OutAfter
<1>2. OutAfter(st, ":", raw) = st.out
  BY Zenon DEF OutAfter
<1>3. ASSUME NEW t \in {"{", "}", "[", "]", "true", "false", "null"}
      PROVE  OutAfter(st, t, raw) = Append(st.out, Ev(t, <<>>))
  <2>1. TokenEvent(t, raw, st.phase) = Ev(t, <<>>)
    BY Zenon DEF TokenEvent
  <2>2. OutAfter(st, t, raw) = Append(st.out, TokenEvent(t, raw, st.phase))
    BY Zenon DEF OutAfter
  <2> QED
    BY <2>1, <2>2, Zenon
<1>4. OutAfter(st, "NUMBER", raw) = Append(st.out, Ev("number", raw))
  BY Zenon DEF OutAfter, TokenEvent
<1>5. OutAfter(st, "IDENT", raw) = Append(st.out, Ev("key", raw))
  BY Zenon DEF OutAfter, TokenEvent
<1>6. OutAfter(st, "STRING", raw) = Append(st.out, TokenEvent("STRING", raw, st.phase))
  BY Zenon DEF OutAfter
<1>7. st.phase = "pair" => TokenEvent("STRING", raw, st.phase) = Ev("key", DecodeString(raw).bytes)
  BY Zenon DEF TokenEvent
<1>8. st.phase # "pair" => TokenEvent("STRING", raw, st.phase) = Ev("string", DecodeString(raw).bytes)
  BY Zenon DEF TokenEvent
<1> QED
  BY <1>1, <1>2, <1>3, <1>4, <1>5, <1>6, <1>7, <1>8, Zenon

\* The greater of two numbers.
LEMMA GreatestOfTwo ==
    ASSUME NEW m \in Nat, NEW n \in Nat
    PROVE  /\ Greatest({m, n}) \in Nat
           /\ Greatest({m, n}) = IF m < n THEN n ELSE m
<1>1. PICK k \in Nat : k = IF m < n THEN n ELSE m
  OBVIOUS
<1>2. k \in {m, n} /\ \A y \in {m, n} : y <= k
  BY <1>1
<1>3. \A x \in {m, n} : (\A y \in {m, n} : y <= x) => x = k
  BY <1>1
<1>4. Greatest({m, n}) = k
  BY <1>2, <1>3 DEF Greatest
<1> QED
  BY <1>1, <1>4

\* the depth of the deepest value,
LEMMA DeepestAfterIs ==
    ASSUME NEW st, NEW d \in Nat, st.deepest = d, NEW n \in Nat, Len(st.open) = n
    PROVE  /\ st.phase # "pair" => \A t \in ValueTerminals :
                 DeepestAfter(st, t) = IF d < n THEN n ELSE d
           /\ \A t : t \notin ValueTerminals => DeepestAfter(st, t) = d
           /\ st.phase = "pair" => \A t : DeepestAfter(st, t) = d
<1>1. PICK g \in Nat : g = IF d < n THEN n ELSE d
  OBVIOUS
<1>2. Greatest({d, n}) = g
  BY <1>1, GreatestOfTwo
<1>3. ASSUME NEW t, st.phase # "pair", t \in ValueTerminals
      PROVE  DeepestAfter(st, t) = g
  BY <1>2, <1>3, Zenon DEF DeepestAfter
<1>4. ASSUME NEW t, t \notin ValueTerminals
      PROVE  DeepestAfter(st, t) = d
  BY <1>4, Zenon DEF DeepestAfter
<1>5. ASSUME NEW t, st.phase = "pair"
      PROVE  DeepestAfter(st, t) = d
  BY <1>5, Zenon DEF DeepestAfter
<1> QED
  BY <1>1, <1>3, <1>4, <1>5, Zenon

\* and whether every string was decoded.
LEMMA BoundAfterIs ==
    ASSUME NEW st, NEW t, NEW raw
    PROVE  /\ st.bound = TRUE /\ (t # "STRING" \/ DecodeString(raw).ok) => BoundAfter(st, t, raw) = TRUE
           /\ ~st.bound => ~BoundAfter(st, t, raw)
           /\ t = "STRING" /\ ~DecodeString(raw).ok => ~BoundAfter(st, t, raw)
<1>1. ASSUME st.bound = TRUE, t # "STRING" \/ DecodeString(raw).ok
      PROVE  BoundAfter(st, t, raw) = TRUE
  BY <1>1 DEF BoundAfter
<1>2. ~st.bound => ~BoundAfter(st, t, raw)
  BY Zenon DEF BoundAfter
<1>3. t = "STRING" /\ ~DecodeString(raw).ok => ~BoundAfter(st, t, raw)
  BY Zenon DEF BoundAfter
<1> QED
  BY <1>1, <1>2, <1>3, Zenon

-----------------------------------------------------------------------------
(***************************************************************************)
(* Where the run is, and how it goes on.                                   *)
(***************************************************************************)

\* The kinds of containers.
Nest == {"object", "array"}

\* Before a decoding has failed, bound is TRUE.
LEMMA StIsState ==
    ASSUME NEW p, NEW phase, NEW open, NEW done, NEW d, NEW bd, bd = TRUE
    PROVE  St(p, phase, open, done, d) = State(p, phase, open, done, bd, d)
BY DEF St, State

\* Where the run is.
LEMMA StPlace ==
    ASSUME NEW p, NEW phase, NEW open, NEW done, NEW d, NEW st, st = St(p, phase, open, done, d)
    PROVE  st.status = "reading" /\ st.pos = p
BY DEF St

\* The grammar's run on s stands before offset p in phase, within the containers
\* open; it has written the events done, and no value deeper than M.
Where(s, M, p, phase, open, done) ==
    /\ p \in 0..Len(s)
    /\ phase \in Phases
    /\ open \in Seq(Nest)
    /\ \E d \in Nat : d <= M /\ Reached(s, St(p, phase, open, done, d))

\* The run is at its start.
LEMMA WhereStart ==
    ASSUME NEW s \in Seq(Byte), NEW M \in Nat
    PROVE  Where(s, M, 0, "value", <<>>, <<>>)
<1>1. Reached(s, St(0, "value", <<>>, <<>>, 0))
  BY ReachedStart
<1>2. \E d \in Nat : d <= M /\ Reached(s, St(0, "value", <<>>, <<>>, d))
  BY <1>1
<1>3. 0 \in 0..Len(s) /\ "value" \in Phases /\ <<>> \in Seq(Nest)
  BY DEF Phases
<1> QED
  BY <1>2, <1>3 DEF Where

\* Whatever the depth so far, a token t spelled raw makes this of the state.
Makes(M, p, phase, open, done, t, raw, phase2, open2, done2) ==
    \A d \in Nat : \A a : a = St(p, phase, open, done, d) =>
        /\ PhaseAfter(a, t) = phase2
        /\ OpenAfter(a, t) = open2
        /\ OutAfter(a, t, raw) = done2
        /\ BoundAfter(a, t, raw) = TRUE
        /\ DeepestAfter(a, t) = d \/ (DeepestAfter(a, t) = Len(open) /\ Len(open) <= M)

\* A token, if it is decoded and not too deep.
LEMMA WhereOn ==
    ASSUME NEW s \in Seq(Byte), NEW M \in Nat, NEW p, NEW phase, NEW open, NEW done,
           Where(s, M, p, phase, open, done), p # Len(s),
           NEW t \in Allowed(phase), t \notin Ignored, NEW e \in 0..Len(s), p < e,
           Lexes(s, p, phase, t, e), NEW raw, raw = Slice(s, p, e),
           NEW phase2 \in Phases, NEW open2 \in Seq(Nest), NEW done2,
           Makes(M, p, phase, open, done, t, raw, phase2, open2, done2)
    PROVE  Where(s, M, e, phase2, open2, done2)
<1>1. p \in 0..Len(s) /\ phase \in Phases /\ open \in Seq(Nest)
  BY DEF Where
<1>2. PICK d \in Nat : d <= M /\ Reached(s, St(p, phase, open, done, d))
  BY DEF Where
<1>3. PICK a : a = St(p, phase, open, done, d)
  OBVIOUS
<1>4. PICK d2 : d2 = DeepestAfter(a, t)
  OBVIOUS
<1>5. /\ PhaseAfter(a, t) = phase2
      /\ OpenAfter(a, t) = open2
      /\ OutAfter(a, t, raw) = done2
      /\ BoundAfter(a, t, raw) = TRUE
      /\ DeepestAfter(a, t) = d \/ (DeepestAfter(a, t) = Len(open) /\ Len(open) <= M)
  BY <1>3, Zenon DEF Makes
<1>6. d2 \in Nat /\ d2 <= M
  <2>1. Len(open) \in Nat
    BY <1>1
  <2>2. d2 = d \/ (d2 = Len(open) /\ Len(open) <= M)
    BY <1>4, <1>5, Zenon
  <2> QED
    BY <1>2, <2>1, <2>2
<1>7. PICK yes : yes = TRUE
  OBVIOUS
<1>8. After(a, t, e, raw) = St(e, phase2, open2, done2, d2)
  <2>1. After(a, t, e, raw) = State(e, phase2, open2, done2, yes, d2)
    BY <1>4, <1>5, <1>7, Zenon DEF After
  <2> QED
    BY <1>7, <2>1, StIsState
<1>9. PICK b : b = Step(s, a)
  OBVIOUS
<1>10. b = St(e, phase2, open2, done2, d2)
  <2>1. a = State(p, phase, open, done, yes, d)
    BY <1>3, <1>7, StIsState
  <2>2. Step(s, a) = After(a, t, e, raw)
    BY <1>1, <2>1, StepShifts
  <2> QED
    BY <1>8, <1>9, <2>2, Zenon
<1>11. b.status = "reading" /\ b.pos = e
  BY <1>10, StPlace
<1>12. a.pos = p /\ p \in Nat /\ p < Len(s) /\ e \in Nat /\ Reached(s, a)
  BY <1>1, <1>2, <1>3, StPlace
<1>13. Reached(s, b)
  BY <1>9, <1>11, <1>12, ReachedOn
<1>14. \E n \in Nat : n <= M /\ Reached(s, St(e, phase2, open2, done2, n))
  BY <1>6, <1>10, <1>13
<1> QED
  BY <1>14 DEF Where

\* White space and comments change nothing but the offset.
LEMMA WhereIgnored ==
    ASSUME NEW s \in Seq(Byte), NEW M \in Nat, NEW p, NEW phase, NEW open, NEW done,
           Where(s, M, p, phase, open, done), p # Len(s),
           NEW t \in Ignored, NEW e \in 0..Len(s), p < e, Lexes(s, p, phase, t, e)
    PROVE  Where(s, M, e, phase, open, done)
<1>1. p \in 0..Len(s) /\ phase \in Phases /\ open \in Seq(Nest)
  BY DEF Where
<1>2. PICK d \in Nat : d <= M /\ Reached(s, St(p, phase, open, done, d))
  BY DEF Where
<1>3. PICK a : a = St(p, phase, open, done, d)
  OBVIOUS
<1>4. t \in Allowed(phase)
  BY DEF Allowed
<1>5. PICK b : b = Step(s, a)
  OBVIOUS
<1>6. b = St(e, phase, open, done, d)
  <2>1. PICK yes : yes = TRUE
    OBVIOUS
  <2>2. a = State(p, phase, open, done, yes, d)
    BY <1>3, <2>1, StIsState
  <2>3. Step(s, a) = State(e, phase, open, done, yes, d)
    BY <1>1, <1>4, <2>2, StepShifts
  <2>4. St(e, phase, open, done, d) = State(e, phase, open, done, yes, d)
    BY <2>1, StIsState
  <2> QED
    BY <1>5, <2>3, <2>4
<1>7. b.status = "reading" /\ b.pos = e
  BY <1>6, StPlace
<1>8. a.pos = p /\ p \in Nat /\ p < Len(s) /\ e \in Nat /\ Reached(s, a)
  BY <1>1, <1>2, <1>3, StPlace
<1>9. Reached(s, b)
  BY <1>5, <1>7, <1>8, ReachedOn
<1>10. \E n \in Nat : n <= M /\ Reached(s, St(e, phase, open, done, n))
  BY <1>2, <1>6, <1>9
<1> QED
  BY <1>1, <1>10 DEF Where

\* The grammar's verdict on s is a document nested at most M deep; and it is not.
Takes(s, M) == Accepts(Reference(s)) /\ Reference(s).deepest <= M

\* Where the run cannot go on, the text is not taken:
LEMMA WhereStops ==
    ASSUME NEW s \in Seq(Byte), NEW M \in Nat, NEW p, NEW phase, NEW open, NEW done,
           Where(s, M, p, phase, open, done),
           IF p = Len(s) THEN phase # "nothing" ELSE LexesNothing(s, p, phase)
    PROVE  ~Takes(s, M)
<1>1. p \in 0..Len(s) /\ phase \in Phases /\ open \in Seq(Nest)
  BY DEF Where
<1>2. PICK d \in Nat : d <= M /\ Reached(s, St(p, phase, open, done, d))
  BY DEF Where
<1>3. PICK a : a = St(p, phase, open, done, d)
  OBVIOUS
<1>4. PICK b : b = Step(s, a)
  OBVIOUS
<1>5. b.status = "invalid"
  <2>0. PICK yes : yes = TRUE
    OBVIOUS
  <2>a. a = State(p, phase, open, done, yes, d)
    BY <1>3, <2>0, StIsState
  <2>1. CASE p = Len(s)
    <3>1. phase # "nothing"
      BY <2>1
    <3> QED
      BY <1>4, <2>a, <2>1, <3>1, StepEnds
  <2>2. CASE p # Len(s)
    <3>1. LexesNothing(s, p, phase)
      BY <2>2
    <3>2. Step(s, a).status = "invalid"
      BY <1>1, <2>a, <2>2, <3>1, StepStops
    <3> QED
      BY <1>4, <3>2
  <2> QED
    BY <2>1, <2>2
<1>6. Reference(s) = b
  BY <1>2, <1>3, <1>4, <1>5, ReachedLast
<1> QED
  BY <1>5, <1>6 DEF Takes, Accepts

\* there is no token,
LEMMA WhereStuck ==
    ASSUME NEW s \in Seq(Byte), NEW M \in Nat, NEW p, NEW phase, NEW open, NEW done,
           Where(s, M, p, phase, open, done), p # Len(s), LexesNothing(s, p, phase)
    PROVE  ~Takes(s, M)
<1>1. IF p = Len(s) THEN phase # "nothing" ELSE LexesNothing(s, p, phase)
  OBVIOUS
<1> QED
  BY <1>1, WhereStops, Zenon

\* or the text ends too early.
LEMMA WhereShort ==
    ASSUME NEW s \in Seq(Byte), NEW M \in Nat, NEW p, NEW phase, NEW open, NEW done,
           Where(s, M, p, phase, open, done), p = Len(s), phase # "nothing"
    PROVE  ~Takes(s, M)
<1>1. IF p = Len(s) THEN phase # "nothing" ELSE LexesNothing(s, p, phase)
  OBVIOUS
<1> QED
  BY <1>1, WhereStops, Zenon

\* Where it has ended, the text is taken and the document is complete.
LEMMA WhereEnds ==
    ASSUME NEW s \in Seq(Byte), NEW M \in Nat, NEW p, p = Len(s), NEW open, NEW done,
           Where(s, M, p, "nothing", open, done)
    PROVE  Takes(s, M) /\ Reference(s).out = done
<1>1. PICK d \in Nat : d <= M /\ Reached(s, St(p, "nothing", open, done, d))
  BY DEF Where
<1>2. PICK a : a = St(p, "nothing", open, done, d)
  OBVIOUS
<1>3. PICK b : b = Step(s, a)
  OBVIOUS
<1>4. b.status = "valid" /\ b.out = done /\ b.deepest = d /\ b.bound = TRUE
  <2>1. PICK yes : yes = TRUE
    OBVIOUS
  <2>2. a = State(p, "nothing", open, done, yes, d)
    BY <1>2, <2>1, StIsState
  <2>3. b.status = "valid" /\ b.out = done /\ b.deepest = d
    BY <1>3, <2>2, StepEnds
  <2>4. b.bound = yes
    BY <1>3, <2>2, StepEnds
  <2> QED
    BY <2>1, <2>3, <2>4
<1>5. Reference(s) = b
  BY <1>1, <1>2, <1>3, <1>4, ReachedLast
<1> QED
  BY <1>1, <1>4, <1>5 DEF Takes, Accepts

-----------------------------------------------------------------------------
(***************************************************************************)
(* Delimiters.                                                             *)
(***************************************************************************)

\* The bytes, the tokens and the events at both ends of a container.
OpenByte(c)   == IF c = "object" THEN LBrace ELSE LBracket
CloseByte(c)  == IF c = "object" THEN RBrace ELSE RBracket
OpenToken(c)  == IF c = "object" THEN "{" ELSE "["
CloseToken(c) == IF c = "object" THEN "}" ELSE "]"
OpenEvent(c)  == Ev(OpenToken(c), <<>>)
CloseEvent(c) == Ev(CloseToken(c), <<>>)
FirstPhase(c) == IF c = "object" THEN "pair" ELSE "item"

ValuePhases == {"value", "item"}

\* A token of one byte.
LEMMA LexByte ==
    ASSUME NEW s \in Seq(Byte), NEW p \in 0..Len(s), NEW phase \in Phases,
           NEW t \in Allowed(phase), NEW b, TerminalEnds(t, s, p) = ByteEnds(s, p, b),
           ByteIn(s, p, {b}), b \notin IdStart, t = FirstTerminal(s, p), NEW e, e = p + 1
    PROVE  /\ e \in 0..Len(s) /\ p < e /\ p # Len(s)
           /\ Lexes(s, p, phase, t, e)
<1>1. ~ByteIn(s, p, IdStart) /\ p < Len(s)
  BY DEF ByteIn
<1>2. t = Looked(s, p, phase)
  BY <1>1, Zenon DEF Looked
<1>3. PICK ends \in SUBSET Nat : ends = {e}
  <2>1. e \in Nat
    OBVIOUS
  <2>2. {e} \in SUBSET Nat
    BY <2>1, Zenon
  <2> QED
    BY <2>2, Zenon
<1>4. ends = TerminalEnds(t, s, p)
  BY <1>3, ByteEndsFacts
<1>5. e \in ends /\ p < e /\ \A x \in ends : x <= e
  BY <1>3
<1>6. Lexes(s, p, phase, t, e)
  BY <1>2, <1>4, <1>5, LexOne
<1> QED
  BY <1>1, <1>6

\* What is to know where a container opens, and where it closes.
OpenFacts(s, p, c, t) ==
    /\ t \in ValueTerminals /\ t \notin Ignored /\ t # "STRING"
    /\ TerminalEnds(t, s, p) = ByteEnds(s, p, OpenByte(c))
    /\ ByteIn(s, p, {OpenByte(c)}) => FirstTerminal(s, p) = t
    /\ \A st : OpenAfter(st, t) = Append(st.open, c)
    /\ \A st : PhaseAfter(st, t) = FirstPhase(c)
    /\ \A st, raw : OutAfter(st, t, raw) = Append(st.out, OpenEvent(c))

\* The token that opens a container,
LEMMA OpenTokenFacts ==
    ASSUME NEW s \in Seq(Byte), NEW p \in 0..Len(s), NEW c \in Nest
    PROVE  OpenFacts(s, p, c, OpenToken(c))
<1>1. CASE c = "object"
  <2>1. OpenToken(c) = "{" /\ OpenByte(c) = LBrace /\ FirstPhase(c) = "pair"
    BY <1>1, Zenon DEF OpenToken, OpenByte, FirstPhase
  <2>2. "{" \in ValueTerminals /\ "{" \notin Ignored /\ "{" # "STRING"
    BY Zenon DEF ValueTerminals, Ignored
  <2>3. TerminalEnds("{", s, p) = ByteEnds(s, p, LBrace)
    BY EndsOf, Zenon
  <2>4. ByteIn(s, p, {LBrace}) => FirstTerminal(s, p) = "{"
    BY FirstTerminalIs, ZenonT(60)
  <2>5. \A st : OpenAfter(st, "{") = Append(st.open, c)
    BY <1>1, OpenAfterIs, Zenon
  <2>6. \A st : PhaseAfter(st, "{") = "pair"
    BY PhaseAfterIs, Zenon
  <2>7. \A st, raw : OutAfter(st, "{", raw) = Append(st.out, OpenEvent(c))
    BY <2>1, OutAfterIs, Zenon DEF OpenEvent
  <2> QED
    BY <2>1, <2>2, <2>3, <2>4, <2>5, <2>6, <2>7, Zenon DEF OpenFacts
<1>2. CASE c = "array"
  <2>1. OpenToken(c) = "[" /\ OpenByte(c) = LBracket /\ FirstPhase(c) = "item"
    BY <1>2, Zenon DEF OpenToken, OpenByte, FirstPhase
  <2>2. "[" \in ValueTerminals /\ "[" \notin Ignored /\ "[" # "STRING"
    BY Zenon DEF ValueTerminals, Ignored
  <2>3. TerminalEnds("[", s, p) = ByteEnds(s, p, LBracket)
    BY EndsOf, Zenon
  <2>4. ByteIn(s, p, {LBracket}) => FirstTerminal(s, p) = "["
    BY FirstTerminalIs, ZenonT(60)
  <2>5. \A st : OpenAfter(st, "[") = Append(st.open, c)
    BY <1>2, OpenAfterIs, Zenon
  <2>6. \A st : PhaseAfter(st, "[") = "item"
    BY PhaseAfterIs, Zenon
  <2>7. \A st, raw : OutAfter(st, "[", raw) = Append(st.out, OpenEvent(c))
    BY <2>1, OutAfterIs, Zenon DEF OpenEvent
  <2> QED
    BY <2>1, <2>2, <2>3, <2>4, <2>5, <2>6, <2>7, Zenon DEF OpenFacts
<1> QED
  BY <1>1, <1>2, Zenon DEF Nest

CloseFacts(s, p, c, t) ==
    /\ t \notin ValueTerminals /\ t \notin Ignored /\ t # "STRING"
    /\ t \in Expected[c] /\ t \in Expected[FirstPhase(c)]
    /\ TerminalEnds(t, s, p) = ByteEnds(s, p, CloseByte(c))
    /\ ByteIn(s, p, {CloseByte(c)}) => FirstTerminal(s, p) = t
    /\ \A st : OpenAfter(st, t) = SubSeq(st.open, 1, Len(st.open) - 1)
    /\ \A st : PhaseAfter(st, t) = Follow(OpenAfter(st, t))
    /\ \A st, raw : OutAfter(st, t, raw) = Append(st.out, CloseEvent(c))

\* and the one that closes it.
LEMMA CloseTokenFacts ==
    ASSUME NEW s \in Seq(Byte), NEW p \in 0..Len(s), NEW c \in Nest
    PROVE  CloseFacts(s, p, c, CloseToken(c))
<1>1. CASE c = "object"
  <2>1. CloseToken(c) = "}" /\ CloseByte(c) = RBrace /\ FirstPhase(c) = "pair"
    BY <1>1, Zenon DEF CloseToken, CloseByte, FirstPhase
  <2>2. "}" \notin ValueTerminals /\ "}" \notin Ignored /\ "}" # "STRING"
    BY Zenon DEF ValueTerminals, Ignored
  <2>a. "}" \in Expected["object"] /\ "}" \in Expected["pair"]
    BY ExpectedIs, Zenon
  <2>3. TerminalEnds("}", s, p) = ByteEnds(s, p, RBrace)
    BY EndsOf, Zenon
  <2>4. ByteIn(s, p, {RBrace}) => FirstTerminal(s, p) = "}"
    BY FirstTerminalIs, ZenonT(60)
  <2>5. \A st : OpenAfter(st, "}") = SubSeq(st.open, 1, Len(st.open) - 1)
    BY OpenAfterIs, Zenon
  <2>6. \A st : PhaseAfter(st, "}") = Follow(OpenAfter(st, "}"))
    BY PhaseAfterIs, Zenon
  <2>7. \A st, raw : OutAfter(st, "}", raw) = Append(st.out, CloseEvent(c))
    BY <2>1, OutAfterIs, Zenon DEF CloseEvent
  <2> QED
    BY <1>1, <2>1, <2>2, <2>a, <2>3, <2>4, <2>5, <2>6, <2>7, Zenon DEF CloseFacts
<1>2. CASE c = "array"
  <2>1. CloseToken(c) = "]" /\ CloseByte(c) = RBracket /\ FirstPhase(c) = "item"
    BY <1>2, Zenon DEF CloseToken, CloseByte, FirstPhase
  <2>2. "]" \notin ValueTerminals /\ "]" \notin Ignored /\ "]" # "STRING"
    BY Zenon DEF ValueTerminals, Ignored
  <2>a. "]" \in Expected["array"] /\ "]" \in Expected["item"]
    BY ExpectedIs, Zenon
  <2>3. TerminalEnds("]", s, p) = ByteEnds(s, p, RBracket)
    BY EndsOf, Zenon
  <2>4. ByteIn(s, p, {RBracket}) => FirstTerminal(s, p) = "]"
    BY FirstTerminalIs, ZenonT(60)
  <2>5. \A st : OpenAfter(st, "]") = SubSeq(st.open, 1, Len(st.open) - 1)
    BY OpenAfterIs, Zenon
  <2>6. \A st : PhaseAfter(st, "]") = Follow(OpenAfter(st, "]"))
    BY PhaseAfterIs, Zenon
  <2>7. \A st, raw : OutAfter(st, "]", raw) = Append(st.out, CloseEvent(c))
    BY <2>1, OutAfterIs, Zenon DEF CloseEvent
  <2> QED
    BY <1>2, <2>1, <2>2, <2>a, <2>3, <2>4, <2>5, <2>6, <2>7, Zenon DEF CloseFacts
<1> QED
  BY <1>1, <1>2, Zenon DEF Nest

\* The phase behind a value is that of the innermost container.
LEMMA FollowFacts ==
    ASSUME NEW open \in Seq(Nest)
    PROVE  /\ Follow(open) \in Phases
           /\ open = <<>> => Follow(open) = "nothing"
           /\ open # <<>> => Follow(open) = open[Len(open)] /\ Follow(open) \in Nest
<1>1. CASE open = <<>>
  BY <1>1 DEF Follow, Phases
<1>2. CASE open # <<>>
  <2>1. open[Len(open)] \in Nest
    BY <1>2
  <2> QED
    BY <1>2, <2>1 DEF Follow, Phases, Nest
<1> QED
  BY <1>1, <1>2

\* Where a value is expected, every one is.
LEMMA ValuesAllowed ==
    ASSUME NEW phase \in ValuePhases, NEW t \in ValueTerminals
    PROVE  phase \in Phases /\ phase # "pair" /\ t \in Allowed(phase)
<1>1. t \in Expected[phase]
  BY ExpectedIs, Zenon DEF ValuePhases
<1>2. t \in Allowed(phase)
  BY <1>1, Zenon DEF Allowed
<1>3. phase \in Phases /\ phase # "pair"
  BY DEF ValuePhases, Phases
<1> QED
  BY <1>2, <1>3, Zenon

\* No name begins with a delimiter.
LEMMA PunctuationBytes ==
    ASSUME NEW c \in Nest
    PROVE  /\ OpenByte(c) \notin IdStart /\ CloseByte(c) \notin IdStart
           /\ Comma \notin IdStart /\ Colon \notin IdStart
BY DEF Nest, OpenByte, CloseByte, IdStart, LBrace, LBracket, RBrace, RBracket, Comma, Colon

\* It is enough to say what the token makes of the parts that it looks at.
LEMMA MakesOf ==
    ASSUME NEW M \in Nat, NEW p, NEW phase, NEW open \in Seq(Nest), NEW done, NEW t, NEW raw,
           NEW phase2, NEW open2, NEW done2,
           t # "STRING" \/ DecodeString(raw).ok,
           \A st : st.phase = phase /\ st.open = open /\ st.out = done =>
               PhaseAfter(st, t) = phase2 /\ OpenAfter(st, t) = open2 /\ OutAfter(st, t, raw) = done2,
           phase = "pair" \/ t \notin ValueTerminals \/ Len(open) <= M
    PROVE  Makes(M, p, phase, open, done, t, raw, phase2, open2, done2)
<1>1. ASSUME NEW d \in Nat, NEW a, a = St(p, phase, open, done, d)
      PROVE  /\ PhaseAfter(a, t) = phase2
             /\ OpenAfter(a, t) = open2
             /\ OutAfter(a, t, raw) = done2
             /\ BoundAfter(a, t, raw) = TRUE
             /\ DeepestAfter(a, t) = d \/ (DeepestAfter(a, t) = Len(open) /\ Len(open) <= M)
  <2>1. a.phase = phase /\ a.open = open /\ a.out = done /\ a.deepest = d
    BY <1>1 DEF St
  <2>2. a.bound = TRUE
    BY <1>1 DEF St
  <2>3. PhaseAfter(a, t) = phase2 /\ OpenAfter(a, t) = open2 /\ OutAfter(a, t, raw) = done2
    BY <2>1, Zenon
  <2>4. BoundAfter(a, t, raw) = TRUE
    BY <2>2, BoundAfterIs, Zenon
  <2>5. DeepestAfter(a, t) = d \/ (DeepestAfter(a, t) = Len(open) /\ Len(open) <= M)
    <3>1. PICK n \in Nat : n = Len(open) /\ Len(a.open) = n
      BY <2>1
    <3>2. CASE phase = "pair" \/ t \notin ValueTerminals
      BY <2>1, <3>1, <3>2, DeepestAfterIs, Zenon
    <3>3. CASE phase # "pair" /\ t \in ValueTerminals
      <4>1. DeepestAfter(a, t) = IF d < n THEN n ELSE d
        BY <2>1, <3>1, <3>3, DeepestAfterIs, Zenon
      <4> QED
        BY <3>1, <3>3, <4>1
    <3> QED
      BY <3>2, <3>3
  <2> QED
    BY <2>3, <2>4, <2>5, Zenon
<1> QED
  BY <1>1, Zenon DEF Makes

\* The run enters a container.
LEMMA WhereOpens ==
    ASSUME NEW s \in Seq(Byte), NEW M \in Nat, NEW p, NEW phase \in ValuePhases, NEW open, NEW done,
           Where(s, M, p, phase, open, done), NEW c \in Nest, ByteIn(s, p, {OpenByte(c)}),
           Len(open) <= M, NEW e, e = p + 1
    PROVE  Where(s, M, e, FirstPhase(c), Append(open, c), Append(done, OpenEvent(c)))
<1>1. p \in 0..Len(s) /\ open \in Seq(Nest)
  BY DEF Where
<1>2. PICK t : t = OpenToken(c)
  OBVIOUS
<1>3. OpenFacts(s, p, c, t)
  BY <1>1, <1>2, OpenTokenFacts
<1>4. /\ t \in ValueTerminals /\ t \notin Ignored /\ t # "STRING"
      /\ TerminalEnds(t, s, p) = ByteEnds(s, p, OpenByte(c))
      /\ FirstTerminal(s, p) = t
  BY <1>3, Zenon DEF OpenFacts
<1>5. t \in Allowed(phase) /\ phase \in Phases /\ phase # "pair"
  BY <1>4, ValuesAllowed
<1>6. /\ e \in 0..Len(s) /\ p < e /\ p # Len(s)
      /\ Lexes(s, p, phase, t, e)
  BY <1>1, <1>4, <1>5, LexByte, PunctuationBytes
<1>7. PICK raw : raw = Slice(s, p, e)
  OBVIOUS
<1>8. PICK open2 \in Seq(Nest) : open2 = Append(open, c)
  <2>1. Append(open, c) \in Seq(Nest)
    BY <1>1
  <2> QED
    BY <2>1
<1>9. PICK done2 : done2 = Append(done, OpenEvent(c))
  OBVIOUS
<1>10. PICK phase2 \in Phases : phase2 = FirstPhase(c)
  BY DEF FirstPhase, Phases
<1>11. \A st : st.phase = phase /\ st.open = open /\ st.out = done =>
           PhaseAfter(st, t) = phase2 /\ OpenAfter(st, t) = open2 /\ OutAfter(st, t, raw) = done2
  BY <1>3, <1>8, <1>9, <1>10, Zenon DEF OpenFacts
<1>12. Makes(M, p, phase, open, done, t, raw, phase2, open2, done2)
  BY <1>1, <1>4, <1>11, MakesOf
<1>13. Where(s, M, e, phase2, open2, done2)
  BY <1>4, <1>5, <1>6, <1>7, <1>12, WhereOn
<1> QED
  BY <1>8, <1>9, <1>10, <1>13, Zenon

\* A token, given what it makes of the phase, the containers and the events.
LEMMA WhereToken ==
    ASSUME NEW s \in Seq(Byte), NEW M \in Nat, NEW p, NEW phase, NEW open, NEW done,
           Where(s, M, p, phase, open, done), p # Len(s),
           NEW t \in Allowed(phase), t \notin Ignored, NEW e \in 0..Len(s), p < e,
           Lexes(s, p, phase, t, e), NEW raw, raw = Slice(s, p, e),
           NEW phase2 \in Phases, NEW open2 \in Seq(Nest), NEW done2,
           t # "STRING" \/ DecodeString(raw).ok,
           \A st : st.phase = phase /\ st.open = open /\ st.out = done =>
               PhaseAfter(st, t) = phase2 /\ OpenAfter(st, t) = open2 /\ OutAfter(st, t, raw) = done2,
           phase = "pair" \/ t \notin ValueTerminals \/ Len(open) <= M
    PROVE  Where(s, M, e, phase2, open2, done2)
<1>1. open \in Seq(Nest)
  BY DEF Where
<1>2. Makes(M, p, phase, open, done, t, raw, phase2, open2, done2)
  BY <1>1, MakesOf
<1> QED
  BY <1>2, WhereOn

\* The run leaves a container.
LEMMA WhereCloses ==
    ASSUME NEW s \in Seq(Byte), NEW M \in Nat, NEW p, NEW c \in Nest, NEW phase \in {c, FirstPhase(c)},
           NEW open, open # <<>>, NEW done, Where(s, M, p, phase, open, done),
           ByteIn(s, p, {CloseByte(c)}), NEW e, e = p + 1,
           NEW open2, open2 = SubSeq(open, 1, Len(open) - 1)
    PROVE  Where(s, M, e, Follow(open2), open2, Append(done, CloseEvent(c)))
<1>1. p \in 0..Len(s) /\ open \in Seq(Nest) /\ phase \in Phases
  BY DEF Where
<1>2. PICK t : t = CloseToken(c)
  OBVIOUS
<1>3. CloseFacts(s, p, c, t)
  BY <1>1, <1>2, CloseTokenFacts
<1>4. /\ t \notin ValueTerminals /\ t \notin Ignored /\ t # "STRING"
      /\ t \in Expected[c] /\ t \in Expected[FirstPhase(c)]
      /\ TerminalEnds(t, s, p) = ByteEnds(s, p, CloseByte(c))
      /\ FirstTerminal(s, p) = t
  BY <1>3, Zenon DEF CloseFacts
<1>5. t \in Allowed(phase)
  BY <1>4, Zenon DEF Allowed
<1>6. /\ e \in 0..Len(s) /\ p < e /\ p # Len(s)
      /\ Lexes(s, p, phase, t, e)
  BY <1>1, <1>4, <1>5, LexByte, PunctuationBytes
<1>7. PICK raw : raw = Slice(s, p, e)
  OBVIOUS
<1>8. open2 \in Seq(Nest)
  <2>1. Len(open) \in Nat /\ Len(open) > 0
    BY <1>1
  <2> QED
    BY <1>1, <2>1
<1>9. PICK done2 : done2 = Append(done, CloseEvent(c))
  OBVIOUS
<1>10. PICK phase2 \in Phases : phase2 = Follow(open2)
  BY <1>8, FollowFacts
<1>11. \A st : st.phase = phase /\ st.open = open /\ st.out = done =>
           PhaseAfter(st, t) = phase2 /\ OpenAfter(st, t) = open2 /\ OutAfter(st, t, raw) = done2
  BY <1>3, <1>9, <1>10, Zenon DEF CloseFacts
<1>12. Where(s, M, e, phase2, open2, done2)
  <2>1. Makes(M, p, phase, open, done, t, raw, phase2, open2, done2)
    BY <1>1, <1>4, <1>11, MakesOf, Zenon
  <2> QED
    BY <1>4, <1>5, <1>6, <1>7, <1>8, <2>1, WhereOn
<1> QED
  BY <1>9, <1>10, <1>12, Zenon

\* The run takes a comma,
LEMMA WhereComma ==
    ASSUME NEW s \in Seq(Byte), NEW M \in Nat, NEW p, NEW c \in Nest, NEW open, NEW done,
           Where(s, M, p, c, open, done), ByteIn(s, p, {Comma}), NEW e, e = p + 1
    PROVE  Where(s, M, e, FirstPhase(c), open, done)
<1>1. p \in 0..Len(s) /\ open \in Seq(Nest) /\ c \in Phases
  BY DEF Where
<1>2. PICK t : t = ","
  OBVIOUS
<1>3. t \in Allowed(c) /\ t \notin Ignored /\ t # "STRING" /\ t \notin ValueTerminals
  <2>1. t \in Expected[c]
    BY <1>2, ExpectedIs, Zenon DEF Nest
  <2> QED
    BY <1>2, <2>1, Zenon DEF Allowed, Ignored, ValueTerminals
<1>4. TerminalEnds(t, s, p) = ByteEnds(s, p, Comma) /\ t = FirstTerminal(s, p)
  BY <1>1, <1>2, EndsOf, FirstTerminalIs, ZenonT(60)
<1>6. /\ e \in 0..Len(s) /\ p < e /\ p # Len(s)
      /\ Lexes(s, p, c, t, e)
  BY <1>1, <1>3, <1>4, LexByte, PunctuationBytes
<1>7. PICK raw : raw = Slice(s, p, e)
  OBVIOUS
<1>10. PICK phase2 \in Phases : phase2 = FirstPhase(c)
  BY DEF FirstPhase, Phases
<1>11. \A st : st.phase = c /\ st.open = open /\ st.out = done =>
           PhaseAfter(st, t) = phase2 /\ OpenAfter(st, t) = open /\ OutAfter(st, t, raw) = done
  <2>1. \A st : OpenAfter(st, t) = st.open /\ OutAfter(st, t, raw) = st.out
    BY <1>2, OpenAfterIs, OutAfterIs, Zenon
  <2>2. \A st : st.phase = c => PhaseAfter(st, t) = FirstPhase(c)
    BY <1>2, PhaseAfterIs, Zenon DEF Nest, FirstPhase
  <2> QED
    BY <1>10, <2>1, <2>2, Zenon
<1>12. Where(s, M, e, phase2, open, done)
  BY <1>1, <1>3, <1>6, <1>7, <1>11, WhereToken
<1> QED
  BY <1>10, <1>12, Zenon

\* and a colon.
LEMMA WhereColon ==
    ASSUME NEW s \in Seq(Byte), NEW M \in Nat, NEW p, NEW open, NEW done,
           Where(s, M, p, "colon", open, done), ByteIn(s, p, {Colon}), NEW e, e = p + 1
    PROVE  Where(s, M, e, "value", open, done)
<1>1. p \in 0..Len(s) /\ open \in Seq(Nest)
  BY DEF Where
<1>2. PICK t : t = ":"
  OBVIOUS
<1>a. PICK c : c = "colon"
  OBVIOUS
<1>3. t \in Allowed(c) /\ t \notin Ignored /\ t # "STRING" /\ t \notin ValueTerminals
  <2>1. t \in Expected[c]
    BY <1>2, <1>a, ExpectedIs, Zenon
  <2> QED
    BY <1>2, <2>1, Zenon DEF Allowed, Ignored, ValueTerminals
<1>4. TerminalEnds(t, s, p) = ByteEnds(s, p, Colon) /\ t = FirstTerminal(s, p)
  BY <1>1, <1>2, EndsOf, FirstTerminalIs, ZenonT(60)
<1>5. c \in Phases /\ "value" \in Phases /\ Where(s, M, p, c, open, done)
  BY <1>a DEF Phases
<1>6. /\ e \in 0..Len(s) /\ p < e /\ p # Len(s)
      /\ Lexes(s, p, c, t, e)
  <2>1. Colon \notin IdStart
    BY DEF IdStart, Colon
  <2>2. p \in 0..Len(s) /\ c \in Phases
    BY <1>1, <1>5
  <2> QED
    BY <1>3, <1>4, <2>1, <2>2, LexByte
<1>7. PICK raw : raw = Slice(s, p, e)
  OBVIOUS
<1>11. \A st : st.phase = c /\ st.open = open /\ st.out = done =>
           PhaseAfter(st, t) = "value" /\ OpenAfter(st, t) = open /\ OutAfter(st, t, raw) = done
  <2>1. \A st : OpenAfter(st, t) = st.open /\ OutAfter(st, t, raw) = st.out
    BY <1>2, OpenAfterIs, OutAfterIs, Zenon
  <2>2. \A st : PhaseAfter(st, t) = "value"
    BY <1>2, PhaseAfterIs, Zenon
  <2> QED
    BY <2>1, <2>2, Zenon
<1>12. PICK phase2 \in Phases : phase2 = "value"
  BY <1>5
<1>13. Where(s, M, e, phase2, open, done)
  BY <1>1, <1>3, <1>5, <1>6, <1>7, <1>11, <1>12, WhereToken
<1> QED
  BY <1>12, <1>13

-----------------------------------------------------------------------------
(***************************************************************************)
(* Keys, strings, numbers and literals.                                    *)
(***************************************************************************)

\* Where a string may be.
StringPhases == {"value", "item", "pair"}

\* A quote where a string is expected starts one.
LEMMA StringPlace ==
    ASSUME NEW s \in Seq(Byte), NEW p \in 0..Len(s), NEW q \in Quotes, ByteIn(s, p, {q}),
           NEW phase \in StringPhases, NEW t, t = "STRING"
    PROVE  /\ t \in Allowed(phase) /\ t \notin Ignored
           /\ phase \in Phases /\ p < Len(s)
           /\ t = Looked(s, p, phase)
<1>1. t \in Expected[phase]
  BY ExpectedIs, Zenon DEF StringPhases, ValueTerminals
<1>2. ByteIn(s, p, Quotes) /\ p < Len(s)
  BY DEF ByteIn
<1>3. ~ByteIn(s, p, IdStart)
  <2>1. s[p + 1] = q
    BY DEF ByteIn
  <2>2. q \notin IdStart
    BY DEF Quotes, Quote, Apostrophe, IdStart
  <2> QED
    BY <2>1, <2>2 DEF ByteIn
<1>4. FirstTerminal(s, p) = "STRING"
  BY <1>2, FirstTerminalIs, ZenonT(60)
<1>5. t = Looked(s, p, phase)
  BY <1>3, <1>4, Zenon DEF Looked
<1>6. t \in Allowed(phase) /\ t \notin Ignored
  BY <1>1, Zenon DEF Allowed, Ignored
<1> QED
  BY <1>2, <1>5, <1>6 DEF StringPhases, Phases

\* The matches of STRING are those of the quote that stands there.
LEMMA OneQuote ==
    ASSUME NEW s \in Seq(Byte), NEW p \in 0..Len(s), NEW q \in Quotes, ByteIn(s, p, {q})
    PROVE  TerminalEnds("STRING", s, p) = QuotedEnds(s, p, q)
<1>1. TerminalEnds("STRING", s, p) = StringEnds(s, p)
  BY EndsOf, Zenon
<1>2. ASSUME NEW r \in Quotes, r # q
      PROVE  QuotedEnds(s, p, r) = {}
  <2>1. ~ByteIn(s, p, {r})
    BY <1>2 DEF ByteIn
  <2> QED
    BY <2>1, QuotedEndsFacts
<1>3. StringEnds(s, p) = QuotedEnds(s, p, q)
  <2>1. Quote \in Quotes /\ Apostrophe \in Quotes
    BY DEF Quotes
  <2>2. CASE q = Quote
    <3>1. Apostrophe # q
      BY <2>2 DEF Quote, Apostrophe
    <3>2. QuotedEnds(s, p, Apostrophe) = {}
      BY <1>2, <2>1, <3>1
    <3> QED
      BY <2>2, <3>2 DEF StringEnds
  <2>3. CASE q = Apostrophe
    <3>1. Quote # q
      BY <2>3 DEF Quote, Apostrophe
    <3>2. QuotedEnds(s, p, Quote) = {}
      BY <1>2, <2>1, <3>1
    <3> QED
      BY <2>3, <3>2 DEF StringEnds
  <2> QED
    BY <2>2, <2>3 DEF Quotes
<1> QED
  BY <1>1, <1>3, Zenon

\* The string that the reader has read, up to the quote at x, is the token.
LEMMA LexString ==
    ASSUME NEW s \in Seq(Byte), NEW p \in 0..Len(s), NEW q \in Quotes, NEW x, NEW bytes,
           StringSoFar(s, q, p, x, bytes), ByteIn(s, x, {q}), NEW e, e = x + 1,
           NEW phase \in StringPhases, NEW t, t = "STRING", NEW raw, raw = Slice(s, p, e)
    PROVE  /\ e \in 0..Len(s) /\ p < e /\ p # Len(s)
           /\ t \in Allowed(phase) /\ t \notin Ignored
           /\ Lexes(s, p, phase, t, e)
           /\ DecodesTo(raw, bytes)
<1>1. ByteIn(s, p, {q}) /\ p + 1 \in 0..Len(s) /\ Carries(s, q, p + 1, x)
  BY DEF StringSoFar
<1>2. x \in (p + 1)..Len(s) /\ x \in 0..Len(s)
  <2>1. PICK b \in 0..Len(s) : b = p + 1
    BY <1>1
  <2>2. Carries(s, q, b, x)
    BY <1>1, <2>1
  <2>3. x \in b..Len(s) /\ x \in 0..Len(s)
    BY <2>2, CarriesRange
  <2> QED
    BY <2>1, <2>3
<1>3. e \in 0..Len(s) /\ p < e
  BY <1>2 DEF ByteIn
<1>4. raw = Slice(s, p, x + 1) /\ p \in Nat
  OBVIOUS
<1>5. QuotedEnds(s, p, q) = {x + 1} /\ DecodesTo(raw, bytes)
  BY <1>4, StringClosed
<1>6. /\ t \in Allowed(phase) /\ t \notin Ignored
      /\ phase \in Phases /\ p < Len(s)
      /\ t = Looked(s, p, phase)
  BY <1>1, StringPlace
<1>7. PICK ends \in SUBSET Nat : ends = {e}
  <2>1. {e} \in SUBSET Nat
    BY <1>3
  <2> QED
    BY <2>1, Zenon
<1>8. ends = TerminalEnds(t, s, p)
  <2>1. TerminalEnds("STRING", s, p) = QuotedEnds(s, p, q)
    BY <1>1, OneQuote
  <2> QED
    BY <1>5, <1>7, <2>1
<1>9. e \in ends /\ \A y \in ends : y <= e
  BY <1>3, <1>7
<1>10. Lexes(s, p, phase, t, e)
  BY <1>3, <1>6, <1>8, <1>9, LexOne
<1> QED
  BY <1>3, <1>5, <1>6, <1>10

\* A key that is a string.
LEMMA WhereKey ==
    ASSUME NEW s \in Seq(Byte), NEW M \in Nat, NEW p, NEW open, NEW done,
           Where(s, M, p, "pair", open, done), NEW q \in Quotes, NEW x, NEW bytes,
           StringSoFar(s, q, p, x, bytes), ByteIn(s, x, {q}), NEW e, e = x + 1
    PROVE  Where(s, M, e, "colon", open, Append(done, Ev("key", bytes)))
<1>1. p \in 0..Len(s) /\ open \in Seq(Nest)
  BY DEF Where
<1>2. PICK t : t = "STRING"
  OBVIOUS
<1>3. PICK phase \in StringPhases : phase = "pair"
  BY DEF StringPhases
<1>4. PICK raw : raw = Slice(s, p, e)
  OBVIOUS
<1>5. /\ e \in 0..Len(s) /\ p < e /\ p # Len(s)
      /\ t \in Allowed(phase) /\ t \notin Ignored
      /\ Lexes(s, p, phase, t, e)
  BY <1>1, <1>2, <1>4, LexString
<1>d. DecodesTo(raw, bytes)
  BY <1>1, <1>2, <1>4, LexString
<1>6. DecodeString(raw).ok
  BY <1>d DEF DecodesTo
<1>7. DecodeString(raw).bytes = bytes
  BY <1>d DEF DecodesTo
<1>8. PICK done2 : done2 = Append(done, Ev("key", bytes))
  OBVIOUS
<1>9. PICK phase2 \in Phases : phase2 = "colon"
  BY DEF Phases
<1>10. \A st : st.phase = phase /\ st.open = open /\ st.out = done =>
           PhaseAfter(st, t) = phase2 /\ OpenAfter(st, t) = open /\ OutAfter(st, t, raw) = done2
  <2>1. \A st : OpenAfter(st, t) = st.open
    BY <1>2, OpenAfterIs, Zenon
  <2>2. \A st : st.phase = phase => PhaseAfter(st, t) = "colon"
    BY <1>2, <1>3, PhaseAfterIs, Zenon
  <2>3. \A st : st.phase = phase => OutAfter(st, t, raw) = Append(st.out, Ev("key", bytes))
    BY <1>2, <1>3, <1>7, OutAfterIs, Zenon
  <2> QED
    BY <1>8, <1>9, <2>1, <2>2, <2>3, Zenon
<1>11. Where(s, M, p, phase, open, done)
  BY <1>3
<1>12. Where(s, M, e, phase2, open, done2)
  BY <1>1, <1>3, <1>4, <1>5, <1>6, <1>10, <1>11, WhereToken
<1> QED
  BY <1>8, <1>9, <1>12, Zenon

\* A value that is a string.
LEMMA WhereString ==
    ASSUME NEW s \in Seq(Byte), NEW M \in Nat, NEW p, NEW phase \in ValuePhases, NEW open, NEW done,
           Where(s, M, p, phase, open, done), NEW q \in Quotes, NEW x, NEW bytes,
           StringSoFar(s, q, p, x, bytes), ByteIn(s, x, {q}), NEW e, e = x + 1, Len(open) <= M
    PROVE  Where(s, M, e, Follow(open), open, Append(done, Ev("string", bytes)))
<1>1. p \in 0..Len(s) /\ open \in Seq(Nest)
  BY DEF Where
<1>2. PICK t : t = "STRING"
  OBVIOUS
<1>3. phase \in StringPhases /\ phase # "pair"
  BY DEF StringPhases, ValuePhases
<1>4. PICK raw : raw = Slice(s, p, e)
  OBVIOUS
<1>5. /\ e \in 0..Len(s) /\ p < e /\ p # Len(s)
      /\ t \in Allowed(phase) /\ t \notin Ignored
      /\ Lexes(s, p, phase, t, e)
  BY <1>1, <1>2, <1>3, <1>4, LexString
<1>d. DecodesTo(raw, bytes)
  BY <1>1, <1>2, <1>3, <1>4, LexString
<1>6. DecodeString(raw).ok
  BY <1>d DEF DecodesTo
<1>7. DecodeString(raw).bytes = bytes
  BY <1>d DEF DecodesTo
<1>8. PICK done2 : done2 = Append(done, Ev("string", bytes))
  OBVIOUS
<1>9. PICK phase2 \in Phases : phase2 = Follow(open)
  BY <1>1, FollowFacts
<1>10. \A st : st.phase = phase /\ st.open = open /\ st.out = done =>
           PhaseAfter(st, t) = phase2 /\ OpenAfter(st, t) = open /\ OutAfter(st, t, raw) = done2
  <2>1. \A st : OpenAfter(st, t) = st.open
    BY <1>2, OpenAfterIs, Zenon
  <2>2. \A st : st.phase = phase => PhaseAfter(st, t) = Follow(st.open)
    BY <1>2, <1>3, PhaseAfterIs, Zenon
  <2>3. \A st : st.phase = phase => OutAfter(st, t, raw) = Append(st.out, Ev("string", bytes))
    BY <1>2, <1>3, <1>7, OutAfterIs, Zenon
  <2> QED
    BY <1>8, <1>9, <2>1, <2>2, <2>3, Zenon
<1>12. Where(s, M, e, phase2, open, done2)
  BY <1>1, <1>4, <1>5, <1>6, <1>10, WhereToken
<1> QED
  BY <1>8, <1>9, <1>12, Zenon

\* A key that is a name.
LEMMA WhereName ==
    ASSUME NEW s \in Seq(Byte), NEW M \in Nat, NEW p, NEW open, NEW done,
           Where(s, M, p, "pair", open, done), ByteIn(s, p, IdStart),
           NEW e, e = RunEnd(s, p, IdContinue), NEW raw, raw = Slice(s, p, e)
    PROVE  Where(s, M, e, "colon", open, Append(done, Ev("key", raw)))
<1>1. p \in 0..Len(s) /\ open \in Seq(Nest)
  BY DEF Where
<1>2. PICK t : t = "IDENT"
  OBVIOUS
<1>3. PICK phase \in Phases : phase = "pair"
  BY DEF Phases
<1>4. t \in Allowed(phase) /\ t \notin Ignored /\ t # "STRING"
  <2>1. t \in Expected[phase]
    BY <1>2, <1>3, ExpectedIs, Zenon
  <2> QED
    BY <1>2, <2>1, Zenon DEF Allowed, Ignored
<1>5. p < Len(s) /\ p < e /\ e \in 0..Len(s)
  <2>1. p < Len(s) /\ ByteIn(s, p, IdContinue)
    BY DEF ByteIn, IdContinue
  <2>2. e \in Nat /\ p < e /\ e <= Len(s)
    BY <1>1, <2>1, RunEndRange
  <2> QED
    BY <2>1, <2>2
<1>6. t = Looked(s, p, phase)
  BY <1>2, <1>3, Zenon DEF Looked
<1>7. PICK ends \in SUBSET Nat : ends = (p + 1)..e
  <2>1. (p + 1)..e \in SUBSET Nat
    BY <1>1, <1>5
  <2> QED
    BY <2>1, Zenon
<1>8. ends = TerminalEnds(t, s, p)
  <2>1. TerminalEnds(t, s, p) = NameEnds(s, p)
    BY <1>2, EndsOf, Zenon
  <2>2. \A n : n \in NameEnds(s, p) <=> n \in (p + 1)..e
    BY <1>1, NameEndsFacts
  <2> QED
    BY <1>7, <2>1, <2>2
<1>9. e \in ends /\ \A n \in ends : n <= e
  BY <1>1, <1>5, <1>7
<1>10. Lexes(s, p, phase, t, e)
  BY <1>1, <1>4, <1>5, <1>6, <1>8, <1>9, LexOne
<1>11. PICK done2 : done2 = Append(done, Ev("key", raw))
  OBVIOUS
<1>12. PICK phase2 \in Phases : phase2 = "colon"
  BY DEF Phases
<1>13. \A st : st.phase = phase /\ st.open = open /\ st.out = done =>
           PhaseAfter(st, t) = phase2 /\ OpenAfter(st, t) = open /\ OutAfter(st, t, raw) = done2
  <2>1. \A st : OpenAfter(st, t) = st.open
    BY <1>2, OpenAfterIs, Zenon
  <2>2. \A st : st.phase = phase => PhaseAfter(st, t) = "colon"
    BY <1>2, <1>3, PhaseAfterIs, Zenon
  <2>3. \A st : OutAfter(st, t, raw) = Append(st.out, Ev("key", raw))
    BY <1>2, OutAfterIs, Zenon
  <2> QED
    BY <1>11, <1>12, <2>1, <2>2, <2>3, Zenon
<1>14. Where(s, M, p, phase, open, done) /\ p # Len(s)
  BY <1>3, <1>5
<1>15. Where(s, M, e, phase2, open, done2)
  BY <1>1, <1>3, <1>4, <1>5, <1>10, <1>13, <1>14, WhereToken
<1> QED
  BY <1>11, <1>12, <1>15, Zenon

\* What is to know where a number starts.
NumberPlace(s, p, phase, t) ==
    /\ t \in ValueTerminals /\ t \notin Ignored /\ t # "STRING"
    /\ t \in Allowed(phase) /\ phase \in Phases /\ phase # "pair"
    /\ p < Len(s)
    /\ t = Looked(s, p, phase)
    /\ TerminalEnds(t, s, p) = NumberEnds(s, p)

\* Where a value is expected, a number's first byte starts a number.
LEMMA NumberPlaceFacts ==
    ASSUME NEW s \in Seq(Byte), NEW p \in 0..Len(s), NEW phase \in ValuePhases,
           ByteIn(s, p, NumberFirst), NEW t, t = "NUMBER"
    PROVE  NumberPlace(s, p, phase, t)
<1>1. t \in ValueTerminals /\ t \notin Ignored /\ t # "STRING"
  BY Zenon DEF ValueTerminals, Ignored
<1>2. t \in Allowed(phase) /\ phase \in Phases /\ phase # "pair"
  BY <1>1, ValuesAllowed
<1>3. FirstTerminal(s, p) = t
  BY FirstTerminalIs, ZenonT(60)
<1>4. t = Looked(s, p, phase)
  BY <1>2, <1>3, Zenon DEF Looked
<1>5. TerminalEnds(t, s, p) = NumberEnds(s, p)
  BY EndsOf, Zenon
<1>6. p < Len(s)
  BY DEF ByteIn
<1> QED
  BY <1>1, <1>2, <1>4, <1>5, <1>6, Zenon DEF NumberPlace

\* The greatest match of a number, whatever follows it.
LEMMA WhereDigits ==
    ASSUME NEW s \in Seq(Byte), NEW M \in Nat, NEW p, NEW phase \in ValuePhases, NEW open, NEW done,
           Where(s, M, p, phase, open, done), ByteIn(s, p, NumberFirst), Len(open) <= M,
           NEW ends, ends = NumberEnds(s, p), NEW e \in ends, \A n \in ends : n <= e,
           NEW raw, raw = Slice(s, p, e)
    PROVE  /\ e \in 0..Len(s)
           /\ Where(s, M, e, Follow(open), open, Append(done, Ev("number", raw)))
<1>1. p \in 0..Len(s) /\ open \in Seq(Nest)
  BY DEF Where
<1>2. PICK t : t = "NUMBER"
  OBVIOUS
<1>3. NumberPlace(s, p, phase, t)
  BY <1>1, <1>2, NumberPlaceFacts
<1>4. /\ t \in ValueTerminals /\ t \notin Ignored /\ t # "STRING"
      /\ t \in Allowed(phase) /\ phase \in Phases /\ phase # "pair"
      /\ p # Len(s)
      /\ t = Looked(s, p, phase)
      /\ TerminalEnds(t, s, p) = ends
  BY <1>1, <1>3 DEF NumberPlace
<1>5. ends \in SUBSET ((p + 1)..Len(s))
  <2>1. PICK scan : scan = ScanNumber(s, p)
    OBVIOUS
  <2> QED
    BY <1>1, <2>1, NumberFacts
<1>6. ends \in SUBSET Nat /\ p < e /\ e \in 0..Len(s)
  BY <1>1, <1>5
<1>7. Lexes(s, p, phase, t, e)
  BY <1>1, <1>4, <1>6, LexOne
<1>8. PICK done2 : done2 = Append(done, Ev("number", raw))
  OBVIOUS
<1>9. PICK phase2 \in Phases : phase2 = Follow(open)
  BY <1>1, FollowFacts
<1>10. \A st : st.phase = phase /\ st.open = open /\ st.out = done =>
           PhaseAfter(st, t) = phase2 /\ OpenAfter(st, t) = open /\ OutAfter(st, t, raw) = done2
  <2>1. \A st : OpenAfter(st, t) = st.open
    BY <1>2, OpenAfterIs, Zenon
  <2>2. \A st : st.phase = phase => PhaseAfter(st, t) = Follow(st.open)
    BY <1>2, <1>4, PhaseAfterIs, Zenon
  <2>3. \A st : OutAfter(st, t, raw) = Append(st.out, Ev("number", raw))
    BY <1>2, OutAfterIs, Zenon
  <2> QED
    BY <1>8, <1>9, <2>1, <2>2, <2>3, Zenon
<1>11. Where(s, M, e, phase2, open, done2)
  BY <1>1, <1>4, <1>6, <1>7, <1>10, WhereToken
<1>12. Where(s, M, e, Follow(open), open, Append(done, Ev("number", raw)))
  BY <1>8, <1>9, <1>11, Zenon
<1> QED
  BY <1>6, <1>12

\* A literal.
Words == {"true", "false", "null"}
\* The spelling of a literal.
WordOf(t) == IF t = "true" THEN WordTrue ELSE IF t = "false" THEN WordFalse ELSE WordNull

\* The run takes a literal.
LEMMA WhereWord ==
    ASSUME NEW s \in Seq(Byte), NEW M \in Nat, NEW p, NEW phase \in ValuePhases, NEW open, NEW done,
           Where(s, M, p, phase, open, done), NEW t \in Words, Len(open) <= M,
           NEW w, w = WordOf(t), OccursAt(s, p, w), NEW e, e = p + Len(w)
    PROVE  Where(s, M, e, Follow(open), open, Append(done, Ev(t, <<>>)))
<1>1. p \in 0..Len(s) /\ open \in Seq(Nest)
  BY DEF Where
<1>2. t \in ValueTerminals /\ t \notin Ignored /\ t # "STRING"
  BY Zenon DEF ValueTerminals, Ignored, Words
<1>3. t \in Allowed(phase) /\ phase \in Phases /\ phase # "pair"
  BY <1>2, ValuesAllowed
<1>4. /\ w \in Seq(Byte) /\ Len(w) > 0
      /\ w[1] = IF t = "true" THEN 116 ELSE IF t = "false" THEN 102 ELSE 110
  BY LiteralWords DEF Literal3, WordOf, Words
<1>5. ByteIn(s, p, {w[1]}) /\ p < Len(s)
  <2>1. p + 1 <= Len(s) /\ 1 \in 1..Len(w)
    BY <1>1, <1>4 DEF OccursAt
  <2>2. s[p + 1] = w[1]
    BY <2>1 DEF OccursAt
  <2> QED
    BY <1>1, <2>1, <2>2 DEF ByteIn
<1>6. FirstTerminal(s, p) = t
  <2>1. /\ t = "true" => ByteIn(s, p, {116})
        /\ t = "false" => ByteIn(s, p, {102})
        /\ t = "null" => ByteIn(s, p, {110})
    BY <1>4, <1>5
  <2>2. CASE t = "true"
    <3>1. FirstTerminal(s, p) = "true"
      BY <1>1, <2>1, <2>2, FirstTerminalIs, ZenonT(60)
    <3> QED
      BY <2>2, <3>1
  <2>3. CASE t = "false"
    <3>1. FirstTerminal(s, p) = "false"
      BY <1>1, <2>1, <2>3, FirstTerminalIs, ZenonT(60)
    <3> QED
      BY <2>3, <3>1
  <2>4. CASE t = "null"
    <3>1. FirstTerminal(s, p) = "null"
      BY <1>1, <2>1, <2>4, FirstTerminalIs, ZenonT(60)
    <3> QED
      BY <2>4, <3>1
  <2> QED
    BY <2>2, <2>3, <2>4 DEF Words
<1>7. t = Looked(s, p, phase)
  BY <1>3, <1>6, Zenon DEF Looked
<1>8. TerminalEnds(t, s, p) = WordEnds(s, p, w)
  BY EndsOf, Zenon DEF Words, WordOf
<1>9. \A n : n \in WordEnds(s, p, w) <=> n = e
  BY <1>1, <1>4, WordEndsFacts
<1>10. e \in 0..Len(s) /\ p < e
  BY <1>1, <1>4 DEF OccursAt
<1>11. PICK ends \in SUBSET Nat : ends = {e}
  <2>1. {e} \in SUBSET Nat
    BY <1>10
  <2> QED
    BY <2>1, Zenon
<1>12. ends = TerminalEnds(t, s, p)
  BY <1>8, <1>9, <1>11
<1>13. e \in ends /\ \A n \in ends : n <= e
  BY <1>10, <1>11
<1>14. Lexes(s, p, phase, t, e)
  BY <1>1, <1>3, <1>7, <1>10, <1>12, <1>13, LexOne
<1>15. PICK done2 : done2 = Append(done, Ev(t, <<>>))
  OBVIOUS
<1>16. PICK phase2 \in Phases : phase2 = Follow(open)
  BY <1>1, FollowFacts
<1>17. PICK raw : raw = Slice(s, p, e)
  OBVIOUS
<1>18. \A st : st.phase = phase /\ st.open = open /\ st.out = done =>
           PhaseAfter(st, t) = phase2 /\ OpenAfter(st, t) = open /\ OutAfter(st, t, raw) = done2
  <2>1. \A st : OpenAfter(st, t) = st.open
    BY OpenAfterIs, Zenon DEF Words
  <2>2. \A st : st.phase = phase => PhaseAfter(st, t) = Follow(st.open)
    BY <1>3, PhaseAfterIs, Zenon DEF Words
  <2>3. \A st : OutAfter(st, t, raw) = Append(st.out, Ev(t, <<>>))
    <3>1. t \in {"{", "}", "[", "]", "true", "false", "null"}
      BY Zenon DEF Words
    <3> QED
      BY <3>1, OutAfterIs, Zenon
  <2> QED
    BY <1>15, <1>16, <2>1, <2>2, <2>3, Zenon
<1>19. p # Len(s)
  BY <1>5
<1>20. Where(s, M, e, phase2, open, done2)
  BY <1>1, <1>2, <1>3, <1>10, <1>14, <1>17, <1>18, <1>19, WhereToken
<1> QED
  BY <1>15, <1>16, <1>20, Zenon

-----------------------------------------------------------------------------
(***************************************************************************)
(* White space and comments.                                               *)
(***************************************************************************)

\* No phase allows what is no terminal.
LEMMA NoneAllowed ==
    ASSUME NEW phase \in Phases
    PROVE  "none" \notin Allowed(phase)
<1>1. "none" \notin Rest
  BY Zenon DEF Rest, ValueTerminals, Ignored
<1>2. ASSUME NEW t \in Allowed(phase), t = "none" PROVE FALSE
  <2>1. t \in Rest
    BY <1>2, AllowedRest
  <2> QED
    BY <1>1, <1>2, <2>1, Zenon
<1> QED
  BY <1>2, Zenon

\* White space and comments are allowed in every phase.
LEMMA IgnoredPlace ==
    ASSUME NEW s \in Seq(Byte), NEW p \in 0..Len(s), NEW phase \in Phases,
           NEW t \in Ignored, t = FirstTerminal(s, p),
           ByteIn(s, p, SpaceFirst) \/ OccursAt(s, p, LineOpen) \/ OccursAt(s, p, CommentOpen)
    PROVE  t \in Allowed(phase) /\ t = Looked(s, p, phase)
<1>1. ~ByteIn(s, p, IdStart)
  BY NameByte
<1> QED
  BY <1>1, Zenon DEF Looked, Allowed

\* The run takes white space up to its end.
LEMMA WhereSpace ==
    ASSUME NEW s \in Seq(Byte), NEW M \in Nat, NEW p, NEW phase, NEW open, NEW done,
           Where(s, M, p, phase, open, done), NEW x \in SpaceEnds(s, p), \A y : ~SpacePiece(s, x, y)
    PROVE  Where(s, M, x, phase, open, done)
<1>1. p \in 0..Len(s) /\ phase \in Phases
  BY DEF Where
<1>2. CASE x = p
  BY <1>2
<1>3. CASE x # p
  <2>1. PICK ends : ends = SpaceEnds(s, p)
    OBVIOUS
  <2>2. ends \in SUBSET (p..Len(s)) /\ x \in ends
    BY <1>1, <2>1, SpaceFacts
  <2>3. \A e \in ends : e <= x
    BY <1>1, <2>1, SpaceFacts
  <2>4. ends \in SUBSET Nat /\ x \in 0..Len(s) /\ p < x /\ p # Len(s)
    BY <1>1, <1>3, <2>2
  <2>5. ByteIn(s, p, SpaceFirst)
    <3>1. Beyond(SpaceEnds(s, p), p)
      BY <2>1, <2>2, <2>4 DEF Beyond
    <3> QED
      BY <1>1, <3>1, Starts
  <2>6. PICK t \in Ignored : t = "space"
    BY DEF Ignored
  <2>7. t = FirstTerminal(s, p) /\ TerminalEnds(t, s, p) = ends
    BY <1>1, <2>1, <2>5, <2>6, FirstTerminalIs, EndsOf, Zenon
  <2>8. t \in Allowed(phase) /\ t = Looked(s, p, phase)
    BY <1>1, <2>5, <2>7, IgnoredPlace
  <2>9. Lexes(s, p, phase, t, x)
    BY <1>1, <2>2, <2>3, <2>4, <2>7, <2>8, LexOne
  <2> QED
    BY <2>4, <2>9, WhereIgnored
<1> QED
  BY <1>2, <1>3

\* The run takes a comment that ends with its line.
LEMMA WhereLine ==
    ASSUME NEW s \in Seq(Byte), NEW M \in Nat, NEW p, NEW phase, NEW open, NEW done,
           Where(s, M, p, phase, open, done), OccursAt(s, p, LineOpen),
           NEW S, S = Byte \ LineEnd, NEW u \in Nat, u = p + 2, NEW e, e = RunEnd(s, u, S)
    PROVE  Where(s, M, e, phase, open, done)
<1>1. p \in 0..Len(s) /\ phase \in Phases
  BY DEF Where
<1>2. p + 2 \in 0..Len(s)
  BY <1>1, LineEndsFacts
<1>3. e \in Nat /\ u <= e /\ e <= Len(s)
  BY <1>2, RunEndRange
<1>4. e \in 0..Len(s) /\ p < e /\ p # Len(s)
  BY <1>1, <1>2, <1>3
<1>5. PICK ends \in SUBSET Nat : ends = u..e
  <2>1. u..e \in SUBSET Nat
    BY <1>3
  <2> QED
    BY <2>1, Zenon
<1>6. PICK t \in Ignored : t = "line comment"
  BY DEF Ignored
<1>7. t = FirstTerminal(s, p) /\ TerminalEnds(t, s, p) = LineEnds(s, p)
  BY <1>1, <1>6, FirstTerminalIs, EndsOf, Zenon
<1>8. LineEnds(s, p) = ends
  <2>1. \A n : n \in LineEnds(s, p) <=> n \in (p + 2)..RunEnd(s, p + 2, S)
    BY <1>1, LineEndsFacts
  <2> QED
    BY <1>5, <2>1
<1>9. t \in Allowed(phase) /\ t = Looked(s, p, phase)
  BY <1>1, <1>7, IgnoredPlace
<1>10. e \in ends /\ ends = TerminalEnds(t, s, p) /\ \A n \in ends : n <= e
  BY <1>3, <1>5, <1>7, <1>8
<1>11. Lexes(s, p, phase, t, e)
  BY <1>1, <1>4, <1>9, <1>10, LexOne
<1> QED
  BY <1>4, <1>11, WhereIgnored

\* The run takes a comment that is closed at c.
LEMMA WhereBlock ==
    ASSUME NEW s \in Seq(Byte), NEW M \in Nat, NEW p, NEW phase, NEW open, NEW done,
           Where(s, M, p, phase, open, done), OccursAt(s, p, CommentOpen),
           NEW c \in (p + 2)..Len(s), OccursAt(s, c, CommentClose), NoCloseBefore(s, p + 2, c),
           NEW e, e = c + 2
    PROVE  Where(s, M, e, phase, open, done)
<1>1. p \in 0..Len(s) /\ phase \in Phases
  BY DEF Where
<1>2. c \in Nat /\ p + 2 <= c
  BY <1>1
<1>4. e \in 0..Len(s) /\ p < e /\ p # Len(s)
  <2>1. c + Len(CommentClose) <= Len(s) /\ Len(CommentClose) = 2
    BY CommentMarks DEF OccursAt
  <2> QED
    BY <1>1, <1>2, <2>1
<1>5. PICK ends : ends = BlockCommentEnds(s, p)
  OBVIOUS
<1>6. e \in ends
  BY <1>1, <1>5, BlockCommentFacts
<1>7. ASSUME NEW n \in ends PROVE n = e
  <2>1. PICK k \in (p + 2)..Len(s) : /\ n = k + 2 /\ OccursAt(s, k, CommentClose)
                                     /\ NoCloseBefore(s, p + 2, k)
    BY <1>1, <1>5, BlockCommentFacts
  <2>2. k \in Nat /\ p + 2 <= k
    BY <1>1, <2>1
  <2>3. ~(k < c)
    <3>1. k < c => k \in (p + 2)..(c - 1)
      BY <1>1, <1>2, <2>2
    <3> QED
      BY <2>1, <3>1 DEF NoCloseBefore
  <2>4. ~(c < k)
    <3>1. c < k => c \in (p + 2)..(k - 1)
      BY <1>1, <1>2, <2>2
    <3> QED
      BY <2>1, <3>1 DEF NoCloseBefore
  <2> QED
    BY <1>2, <2>1, <2>2, <2>3, <2>4
<1>8. PICK t \in Ignored : t = "block comment"
  BY DEF Ignored
<1>9. t = FirstTerminal(s, p) /\ TerminalEnds(t, s, p) = ends
  BY <1>1, <1>5, <1>8, FirstTerminalIs, EndsOf, Zenon
<1>10. t \in Allowed(phase) /\ t = Looked(s, p, phase)
  BY <1>1, <1>9, IgnoredPlace
<1>11. ends \in SUBSET Nat /\ \A n \in ends : n <= e
  BY <1>4, <1>7
<1>12. Lexes(s, p, phase, t, e)
  BY <1>1, <1>4, <1>6, <1>9, <1>10, <1>11, LexOne
<1> QED
  BY <1>4, <1>12, WhereIgnored

\* A slash that opens no comment with an end is no token.
LEMMA NoComment ==
    ASSUME NEW s \in Seq(Byte), NEW p \in 0..Len(s), NEW phase \in Phases, ByteIn(s, p, {Slash}),
           ~OccursAt(s, p, LineOpen),
           OccursAt(s, p, CommentOpen) => \A c \in (p + 2)..Len(s) : ~OccursAt(s, c, CommentClose)
    PROVE  LexesNothing(s, p, phase)
<1>1. CASE OccursAt(s, p, CommentOpen)
  <2>1. PICK t \in Ignored : t = "block comment"
    BY DEF Ignored
  <2>2. t = FirstTerminal(s, p) /\ TerminalEnds(t, s, p) = BlockCommentEnds(s, p)
    BY <1>1, <2>1, FirstTerminalIs, EndsOf, Zenon
  <2>3. t = Looked(s, p, phase)
    BY <1>1, <2>2, IgnoredPlace
  <2>4. \A e : e \notin BlockCommentEnds(s, p)
    BY <1>1, BlockCommentFacts
  <2>5. ~May(s, p, t)
    BY <2>2, <2>4 DEF May, Beyond
  <2> QED
    BY <2>3, <2>5, LexNone
<1>2. CASE ~OccursAt(s, p, CommentOpen)
  <2>1. s[p + 1] = 47
    BY DEF ByteIn, Slash
  <2>2. ~ByteIn(s, p, NumberFirst \cup SpaceFirst \cup
                 {Quote, Apostrophe, 116, 102, 110, LBrace, RBrace, LBracket, RBracket, Comma, Colon})
    <3>1. 47 \notin NumberFirst \cup SpaceFirst \cup
                 {Quote, Apostrophe, 116, 102, 110, LBrace, RBrace, LBracket, RBracket, Comma, Colon}
      BY DEF NumberFirst, SpaceFirst, Digit, Plus, Minus, Dot, Space, Quote, Apostrophe, LBrace,
             RBrace, LBracket, RBracket, Comma, Colon
    <3> QED
      BY <2>1, <3>1 DEF ByteIn
  <2>3. ~ByteIn(s, p, IdStart)
    BY <2>1 DEF ByteIn, IdStart
  <2>4. FirstTerminal(s, p) = "none"
    BY <1>2, <2>2, FirstTerminalIs, ZenonT(60)
  <2>5. Looked(s, p, phase) = "none"
    BY <2>3, <2>4, Zenon DEF Looked
  <2>6. PICK t : t = "none"
    OBVIOUS
  <2>7. t \notin Allowed(phase)
    BY <2>6, NoneAllowed
  <2> QED
    BY <2>5, <2>6, <2>7, LexNone
<1> QED
  BY <1>1, <1>2

-----------------------------------------------------------------------------
(***************************************************************************)
(* Where no token is.                                                      *)
(***************************************************************************)

\* There is neither white space at p nor a slash.
Settled(s, p) == /\ ~ByteIn(s, p, Space \cup {Slash})
                 /\ \A w \in SpaceWords : ~OccursAt(s, p, w)

\* The first bytes of the terminals that may match.
LEMMA MayStarts ==
    ASSUME NEW s \in Seq(Byte), NEW p \in 0..Len(s)
    PROVE  /\ May(s, p, "STRING") => ByteIn(s, p, Quotes)
           /\ May(s, p, "NUMBER") => ByteIn(s, p, NumberFirst)
           /\ May(s, p, "true") => ByteIn(s, p, {116})
           /\ May(s, p, "false") => ByteIn(s, p, {102})
           /\ May(s, p, "null") => ByteIn(s, p, {110})
           /\ May(s, p, "{") => ByteIn(s, p, {LBrace})
           /\ May(s, p, "}") => ByteIn(s, p, {RBrace})
           /\ May(s, p, "[") => ByteIn(s, p, {LBracket})
           /\ May(s, p, "]") => ByteIn(s, p, {RBracket})
           /\ May(s, p, ",") => ByteIn(s, p, {Comma})
           /\ May(s, p, ":") => ByteIn(s, p, {Colon})
           /\ May(s, p, "IDENT") => ByteIn(s, p, IdStart)
<1>1. May(s, p, "STRING") => ByteIn(s, p, Quotes)
  BY EndsOf, Starts, Zenon DEF May
<1>2. May(s, p, "NUMBER") => ByteIn(s, p, NumberFirst)
  BY EndsOf, Starts, Zenon DEF May
<1>3. May(s, p, "true") => ByteIn(s, p, {116})
  <2>1. TerminalEnds("true", s, p) = WordEnds(s, p, WordTrue)
    BY EndsOf, Zenon
  <2>2. Beyond(WordEnds(s, p, WordTrue), p) => ByteIn(s, p, {116})
    BY Starts, Zenon
  <2> QED
    BY <2>1, <2>2, Zenon DEF May
<1>4. May(s, p, "false") => ByteIn(s, p, {102})
  <2>1. TerminalEnds("false", s, p) = WordEnds(s, p, WordFalse)
    BY EndsOf, Zenon
  <2>2. Beyond(WordEnds(s, p, WordFalse), p) => ByteIn(s, p, {102})
    BY Starts, Zenon
  <2> QED
    BY <2>1, <2>2, Zenon DEF May
<1>5. May(s, p, "null") => ByteIn(s, p, {110})
  BY EndsOf, Starts, Zenon DEF May
<1>6. May(s, p, "{") => ByteIn(s, p, {LBrace})
  BY EndsOf, Starts, Zenon DEF May
<1>7. May(s, p, "}") => ByteIn(s, p, {RBrace})
  BY EndsOf, Starts, Zenon DEF May
<1>8. May(s, p, "[") => ByteIn(s, p, {LBracket})
  BY EndsOf, Starts, Zenon DEF May
<1>9. May(s, p, "]") => ByteIn(s, p, {RBracket})
  BY EndsOf, Starts, Zenon DEF May
<1>10. May(s, p, ",") => ByteIn(s, p, {Comma})
  BY EndsOf, Starts, Zenon DEF May
<1>11. May(s, p, ":") => ByteIn(s, p, {Colon})
  BY EndsOf, Starts, Zenon DEF May
<1>12. May(s, p, "IDENT") => ByteIn(s, p, IdStart)
  BY EndsOf, Starts, Zenon DEF May
<1> QED
  BY <1>1, <1>2, <1>3, <1>4, <1>5, <1>6, <1>7, <1>8, <1>9, <1>10, <1>11, <1>12, Zenon

\* When white space and comments are skipped, none of them matches.
LEMMA SettledIgnores ==
    ASSUME NEW s \in Seq(Byte), NEW p \in 0..Len(s), Settled(s, p), NEW t \in Ignored
    PROVE  ~May(s, p, t)
<1>1. \A y : ~SpacePiece(s, p, y)
  <2>1. ~ByteIn(s, p, Space)
    BY DEF Settled, ByteIn
  <2> QED
    BY <2>1 DEF Settled, SpacePiece
<1>2. SpaceEnds(s, p) = {p}
  BY <1>1, SpaceFacts
<1>3. ~Beyond(SpaceEnds(s, p), p)
  BY <1>2 DEF Beyond
<1>4. ~ByteIn(s, p, {Slash})
  BY DEF Settled, ByteIn
<1>5. ~OccursAt(s, p, LineOpen)
  BY <1>4 DEF OccursAt, ByteIn, LineOpen
<1>6. ~OccursAt(s, p, CommentOpen)
  BY <1>4 DEF OccursAt, ByteIn, CommentOpen
<1>7. t = "space" => ~May(s, p, t)
  BY <1>3, EndsOf, Zenon DEF May
<1>8. t = "line comment" => ~May(s, p, t)
  BY <1>5, Starts, EndsOf, Zenon DEF May
<1>9. t = "block comment" => ~May(s, p, t)
  BY <1>6, Starts, EndsOf, Zenon DEF May
<1> QED
  BY <1>7, <1>8, <1>9, Zenon DEF Ignored

\* No match of an expected terminal: no token.
LEMMA Unexpected ==
    ASSUME NEW s \in Seq(Byte), NEW p \in 0..Len(s), Settled(s, p), NEW phase \in Phases,
           \A t \in Expected[phase] : ~May(s, p, t)
    PROVE  LexesNothing(s, p, phase)
<1>1. ASSUME NEW m \in Matches(s, p, Expected[phase]) PROVE FALSE
  <2>1. PICK t \in Allowed(phase) : \E e \in TerminalEnds(t, s, p) :
                   m = [terminal |-> t, end |-> e] /\ e > p
    BY <1>1, MatchesAre, Zenon
  <2>2. May(s, p, t)
    BY <2>1, Zenon DEF May, Beyond
  <2>3. t \in Expected[phase] \/ t \in Ignored
    BY Zenon DEF Allowed
  <2>4. t \in Ignored => ~May(s, p, t)
    BY SettledIgnores
  <2> QED
    BY <2>2, <2>3, <2>4, Zenon
<1> QED
  BY <1>1, Zenon DEF LexesNothing

\* The first bytes of a value.
ValueFirst == {LBrace, LBracket, Quote, Apostrophe} \cup NumberFirst \cup {116, 102, 110}

\* A byte that is in no set is in no part of it.
LEMMA ByteInOne ==
    ASSUME NEW s, NEW p, NEW S, NEW T, T \subseteq S, ~ByteIn(s, p, S)
    PROVE  ~ByteIn(s, p, T)
BY DEF ByteIn

\* No value starts with this byte.
LEMMA NoValueToken ==
    ASSUME NEW s \in Seq(Byte), NEW p \in 0..Len(s), ~ByteIn(s, p, ValueFirst),
           NEW t \in ValueTerminals
    PROVE  ~May(s, p, t)
<1>1. /\ ~ByteIn(s, p, Quotes) /\ ~ByteIn(s, p, NumberFirst)
      /\ ~ByteIn(s, p, {116}) /\ ~ByteIn(s, p, {102}) /\ ~ByteIn(s, p, {110})
      /\ ~ByteIn(s, p, {LBrace}) /\ ~ByteIn(s, p, {LBracket})
  <2>1. /\ Quotes \subseteq ValueFirst /\ NumberFirst \subseteq ValueFirst
        /\ {116} \subseteq ValueFirst /\ {102} \subseteq ValueFirst /\ {110} \subseteq ValueFirst
        /\ {LBrace} \subseteq ValueFirst /\ {LBracket} \subseteq ValueFirst
    BY DEF ValueFirst, Quotes
  <2> QED
    BY <2>1, ByteInOne, Zenon
<1>2. t = "{" \/ t = "[" \/ t = "STRING" \/ t = "NUMBER" \/ t = "true" \/ t = "false" \/ t = "null"
  BY Zenon DEF ValueTerminals
<1>3. ASSUME t = "{" PROVE ~May(s, p, t)
  BY <1>1, <1>3, MayStarts, Zenon
<1>4. ASSUME t = "[" PROVE ~May(s, p, t)
  BY <1>1, <1>4, MayStarts, Zenon
<1>5. ASSUME t = "STRING" PROVE ~May(s, p, t)
  BY <1>1, <1>5, MayStarts, Zenon
<1>6. ASSUME t = "NUMBER" PROVE ~May(s, p, t)
  BY <1>1, <1>6, MayStarts, Zenon
<1>7. ASSUME t = "true" PROVE ~May(s, p, t)
  BY <1>1, <1>7, MayStarts, Zenon
<1>8. ASSUME t = "false" PROVE ~May(s, p, t)
  BY <1>1, <1>8, MayStarts, Zenon
<1>9. ASSUME t = "null" PROVE ~May(s, p, t)
  BY <1>1, <1>9, MayStarts, Zenon
<1> QED
  BY <1>2, <1>3, <1>4, <1>5, <1>6, <1>7, <1>8, <1>9, Zenon

\* Where the parser finds no value, the grammar has no token;
LEMMA NoValueHere ==
    ASSUME NEW s \in Seq(Byte), NEW p \in 0..Len(s), Settled(s, p), NEW phase \in ValuePhases,
           phase = "item" => ~ByteIn(s, p, {RBracket}), ~ByteIn(s, p, ValueFirst)
    PROVE  LexesNothing(s, p, phase)
<1>1. \A t \in ValueTerminals : ~May(s, p, t)
  BY NoValueToken
<1>2. CASE phase = "value"
  <2>1. \A t \in Expected[phase] : ~May(s, p, t)
    BY <1>1, <1>2, ExpectedIs, Zenon
  <2> QED
    BY <1>2, <2>1, Unexpected DEF Phases
<1>3. CASE phase = "item"
  <2>1. ~May(s, p, "]")
    BY <1>3, MayStarts, Zenon
  <2>2. \A t \in Expected[phase] : ~May(s, p, t)
    BY <1>1, <1>3, <2>1, ExpectedIs, Zenon
  <2> QED
    BY <1>3, <2>2, Unexpected DEF Phases
<1> QED
  BY <1>2, <1>3 DEF ValuePhases

\* The first bytes of a key, or the end of the object.
KeyFirstBytes == {RBrace, Quote, Apostrophe} \cup IdStart

\* nor where it finds no key,
LEMMA NoKeyHere ==
    ASSUME NEW s \in Seq(Byte), NEW p \in 0..Len(s), Settled(s, p), NEW phase, phase = "pair",
           ~ByteIn(s, p, KeyFirstBytes)
    PROVE  LexesNothing(s, p, phase)
<1>1. ~ByteIn(s, p, Quotes) /\ ~ByteIn(s, p, IdStart) /\ ~ByteIn(s, p, {RBrace})
  <2>1. Quotes \subseteq KeyFirstBytes /\ IdStart \subseteq KeyFirstBytes /\ {RBrace} \subseteq KeyFirstBytes
    BY DEF KeyFirstBytes, Quotes
  <2> QED
    BY <2>1, ByteInOne, Zenon
<1>2. ~May(s, p, "STRING") /\ ~May(s, p, "IDENT") /\ ~May(s, p, "}")
  BY <1>1, MayStarts, Zenon
<1>3. \A t \in Expected[phase] : ~May(s, p, t)
  BY <1>2, ExpectedIs, Zenon
<1> QED
  BY <1>3, Unexpected DEF Phases

\* no delimiter,
LEMMA NoDelimiterHere ==
    ASSUME NEW s \in Seq(Byte), NEW p \in 0..Len(s), Settled(s, p), NEW c \in Nest,
           ~ByteIn(s, p, {Comma, CloseByte(c)})
    PROVE  LexesNothing(s, p, c)
<1>1. ~ByteIn(s, p, {Comma}) /\ ~ByteIn(s, p, {CloseByte(c)})
  BY DEF ByteIn
<1>2. ~May(s, p, ",")
  BY <1>1, MayStarts, Zenon
<1>3. c \in Phases
  BY DEF Nest, Phases
<1>4. CASE c = "object"
  <2>1. ~May(s, p, "}")
    BY <1>1, <1>4, MayStarts, Zenon DEF CloseByte
  <2>2. \A t \in Expected[c] : ~May(s, p, t)
    BY <1>2, <1>4, <2>1, ExpectedIs, Zenon
  <2> QED
    BY <1>3, <2>2, Unexpected
<1>5. CASE c = "array"
  <2>1. ~May(s, p, "]")
    BY <1>1, <1>5, MayStarts, Zenon DEF CloseByte
  <2>2. \A t \in Expected[c] : ~May(s, p, t)
    BY <1>2, <1>5, <2>1, ExpectedIs, Zenon
  <2> QED
    BY <1>3, <2>2, Unexpected
<1> QED
  BY <1>4, <1>5 DEF Nest

\* no colon,
LEMMA NoColonHere ==
    ASSUME NEW s \in Seq(Byte), NEW p \in 0..Len(s), Settled(s, p), NEW phase, phase = "colon",
           ~ByteIn(s, p, {Colon})
    PROVE  LexesNothing(s, p, phase)
<1>1. ~May(s, p, ":")
  BY MayStarts, Zenon
<1>2. \A t \in Expected[phase] : ~May(s, p, t)
  BY <1>1, ExpectedIs, Zenon
<1> QED
  BY <1>2, Unexpected DEF Phases

\* or anything at all behind the document.
LEMMA NoMoreHere ==
    ASSUME NEW s \in Seq(Byte), NEW p \in 0..Len(s), Settled(s, p), NEW phase, phase = "nothing"
    PROVE  LexesNothing(s, p, phase)
<1>1. \A t \in Expected[phase] : ~May(s, p, t)
  BY ExpectedIs, Zenon
<1> QED
  BY <1>1, Unexpected DEF Phases

\* A letter that starts a literal which is not there.
LEMMA NoWordHere ==
    ASSUME NEW s \in Seq(Byte), NEW p \in 0..Len(s), NEW phase \in ValuePhases, NEW t \in Words,
           NEW w, w = WordOf(t), ByteIn(s, p, {w[1]}), ~OccursAt(s, p, w)
    PROVE  LexesNothing(s, p, phase)
<1>1. /\ w \in Seq(Byte) /\ Len(w) > 0
      /\ w[1] = IF t = "true" THEN 116 ELSE IF t = "false" THEN 102 ELSE 110
  BY LiteralWords DEF Literal3, WordOf, Words
<1>2. phase \in Phases /\ phase # "pair"
  BY DEF Phases, ValuePhases
<1>3. /\ t = "true" => ByteIn(s, p, {116})
      /\ t = "false" => ByteIn(s, p, {102})
      /\ t = "null" => ByteIn(s, p, {110})
  BY <1>1
<1>4. FirstTerminal(s, p) = t
  <2>2. CASE t = "true"
    <3>1. FirstTerminal(s, p) = "true"
      BY <1>3, <2>2, FirstTerminalIs, ZenonT(60)
    <3> QED
      BY <2>2, <3>1
  <2>3. CASE t = "false"
    <3>1. FirstTerminal(s, p) = "false"
      BY <1>3, <2>3, FirstTerminalIs, ZenonT(60)
    <3> QED
      BY <2>3, <3>1
  <2>4. CASE t = "null"
    <3>1. FirstTerminal(s, p) = "null"
      BY <1>3, <2>4, FirstTerminalIs, ZenonT(60)
    <3> QED
      BY <2>4, <3>1
  <2> QED
    BY <2>2, <2>3, <2>4 DEF Words
<1>5. t = Looked(s, p, phase)
  BY <1>2, <1>4, Zenon DEF Looked
<1>6. TerminalEnds(t, s, p) = WordEnds(s, p, w)
  BY EndsOf, Zenon DEF Words, WordOf
<1>7. \A n : n \notin WordEnds(s, p, w)
  BY <1>1, WordEndsFacts
<1>8. ~May(s, p, t)
  BY <1>6, <1>7 DEF May, Beyond
<1> QED
  BY <1>2, <1>5, <1>8, LexNone

\* A set of numbers up to N that is not empty has a greatest one.
LEMMA GreatestOfSome ==
    ASSUME NEW N \in Nat, NEW T \in SUBSET (0..N), T # {}
    PROVE  \E x \in T : \A y \in T : y <= x
<1>1. PICK U \in SUBSET Nat : U = {N - x : x \in T}
  <2>1. {N - x : x \in T} \in SUBSET Nat
    OBVIOUS
  <2> QED
    BY <2>1
<1>2. U # {}
  BY <1>1
<1>3. PICK u \in U : \A v \in U : u <= v
  BY <1>2, LeastNatural
<1>4. PICK x \in T : u = N - x
  BY <1>1
<1>5. ASSUME NEW y \in T PROVE y <= x
  <2>1. N - y \in U
    BY <1>1
  <2>2. N - x <= N - y
    BY <1>3, <1>4, <2>1
  <2> QED
    BY <2>2
<1> QED
  BY <1>5

\* A number the run time rejects: the grammar stops before it or within it.
LEMMA NoNumberHere ==
    ASSUME NEW s \in Seq(Byte), NEW M \in Nat, NEW p, NEW phase \in ValuePhases, NEW open, NEW done,
           Where(s, M, p, phase, open, done), ByteIn(s, p, NumberFirst), Len(open) <= M,
           NEW ends, ends = NumberEnds(s, p), NumberCut(s, ends)
    PROVE  ~Takes(s, M)
<1>1. p \in 0..Len(s) /\ open \in Seq(Nest) /\ p < Len(s)
  BY DEF Where, ByteIn
<1>3. ends \in SUBSET ((p + 1)..Len(s))
  <2>1. PICK scan : scan = ScanNumber(s, p)
    OBVIOUS
  <2> QED
    BY <1>1, <2>1, NumberFacts
<1>4. CASE ends = {}
  <2>1. PICK t : t = "NUMBER"
    OBVIOUS
  <2>2. NumberPlace(s, p, phase, t)
    BY <1>1, <2>1, NumberPlaceFacts
  <2>3. phase \in Phases /\ t = Looked(s, p, phase) /\ TerminalEnds(t, s, p) = {}
    BY <1>4, <2>2 DEF NumberPlace
  <2>4. ~May(s, p, t)
    BY <2>3 DEF May, Beyond
  <2>5. LexesNothing(s, p, phase)
    BY <1>1, <2>3, <2>4, LexNone
  <2> QED
    BY <1>1, <2>5, WhereStuck
<1>5. CASE ends # {}
  <2>1. ends \in SUBSET (0..Len(s))
    <3>1. \A n \in ends : n \in (p + 1)..Len(s)
      BY <1>3
    <3>2. \A n \in (p + 1)..Len(s) : n \in 0..Len(s)
      BY <1>1
    <3>3. \A n \in ends : n \in 0..Len(s)
      BY <3>1, <3>2, Zenon
    <3> QED
      BY <3>3, Zenon
  <2>2. PICK e \in ends : \A n \in ends : n <= e
    <3>1. PICK N \in Nat : N = Len(s)
      OBVIOUS
    <3>2. ends \in SUBSET (0..N)
      BY <2>1, <3>1
    <3> QED
      BY <1>5, <3>2, GreatestOfSome
  <2>3. PICK raw : raw = Slice(s, p, e)
    OBVIOUS
  <2>4. PICK done2 : done2 = Append(done, Ev("number", raw))
    OBVIOUS
  <2>5. e \in 0..Len(s) /\ Where(s, M, e, Follow(open), open, done2)
    BY <2>2, <2>3, <2>4, WhereDigits
  <2>6. ByteIn(s, e, NumberMarks)
    BY <2>2 DEF NumberCut
  <2>7. e < Len(s) /\ s[e + 1] \in {69, 101, 88, 120}
    BY <2>6 DEF ByteIn, NumberMarks
  <2>b. PICK b : b = s[e + 1]
    OBVIOUS
  <2>c. b \in {69, 101, 88, 120}
    BY <2>7, <2>b
  <2>8. Settled(s, e)
    <3>1. ~ByteIn(s, e, Space \cup {Slash})
      <4>1. b \notin Space \cup {Slash}
        BY <2>c DEF Space, Slash
      <4> QED
        BY <2>b, <4>1 DEF ByteIn
    <3>2. \A w \in SpaceWords : ~OccursAt(s, e, w)
      <4>1. ASSUME NEW y, SpacePiece(s, e, y) PROVE FALSE
        <5>1. ByteIn(s, e, SpaceFirst)
          BY <2>5, <4>1, SpaceStarts
        <5>2. b \notin SpaceFirst
          BY <2>c DEF SpaceFirst, Space
        <5> QED
          BY <2>b, <5>1, <5>2 DEF ByteIn
      <4> QED
        BY <4>1 DEF SpacePiece
    <3> QED
      BY <3>1, <3>2 DEF Settled
  <2>9. CASE open = <<>>
    <3>1. PICK phase2 : phase2 = Follow(open) /\ phase2 = "nothing"
      BY <1>1, <2>9, FollowFacts
    <3>2. LexesNothing(s, e, phase2)
      BY <2>5, <2>8, <3>1, NoMoreHere
    <3> QED
      BY <2>5, <2>7, <3>1, <3>2, WhereStuck
  <2>10. CASE open # <<>>
    <3>1. PICK c \in Nest : c = Follow(open)
      BY <1>1, <2>10, FollowFacts
    <3>2. ~ByteIn(s, e, {Comma, CloseByte(c)})
      <4>1. b # Comma /\ b # CloseByte(c)
        BY <2>c DEF Comma, CloseByte, RBrace, RBracket
      <4> QED
        BY <2>b, <4>1 DEF ByteIn
    <3>3. LexesNothing(s, e, c)
      BY <2>5, <2>8, <3>2, NoDelimiterHere
    <3> QED
      BY <2>5, <2>7, <3>1, <3>3, WhereStuck
  <2> QED
    BY <2>9, <2>10
<1> QED
  BY <1>4, <1>5

-----------------------------------------------------------------------------
(***************************************************************************)
(* What cannot be made good: a string that is not decoded, a value that is *)
(* too deep.                                                               *)
(***************************************************************************)

\* A token ends in the text.
LEMMA TerminalRange ==
    ASSUME NEW s \in Seq(Byte), NEW p \in 0..Len(s), NEW t \in Terminals,
           NEW e \in TerminalEnds(t, s, p)
    PROVE  e \in 0..Len(s)
<1>1. ASSUME NEW q, NEW n \in QuotedEnds(s, p, q) PROVE n \in 0..Len(s)
  <2>1. ByteIn(s, p, {q}) /\ \E x \in InString(s, q, p + 1) : ByteIn(s, x, {q}) /\ n = x + 1
    <3>1. \A m : m \in QuotedEnds(s, p, q) <=>
                 ByteIn(s, p, {q}) /\ \E x \in InString(s, q, p + 1) : ByteIn(s, x, {q}) /\ m = x + 1
      BY QuotedEndsFacts
    <3> QED
      BY <1>1, <3>1
  <2>2. PICK b \in 0..Len(s) : b = p + 1
    BY <2>1 DEF ByteIn
  <2>3. PICK x \in InString(s, q, b) : ByteIn(s, x, {q}) /\ n = x + 1
    BY <2>1, <2>2
  <2>4. x \in b..Len(s)
    BY InStringFacts
  <2> QED
    BY <2>2, <2>3, <2>4 DEF ByteIn
<1>2. ASSUME NEW n \in NumberEnds(s, p) PROVE n \in 0..Len(s)
  <2>1. PICK scan, ends : scan = ScanNumber(s, p) /\ ends = NumberEnds(s, p)
    OBVIOUS
  <2>2. ends \in SUBSET ((p + 1)..Len(s))
    BY <2>1, NumberFacts
  <2>3. n \in (p + 1)..Len(s)
    BY <1>2, <2>1, <2>2, Zenon
  <2> QED
    BY <2>3
<1>3. ASSUME NEW n \in NameEnds(s, p) PROVE n \in 0..Len(s)
  <2>1. PICK u : u = RunEnd(s, p, IdContinue)
    OBVIOUS
  <2>2. n \in (p + 1)..u
    BY <1>3, <2>1, NameEndsFacts
  <2>3. u \in Nat /\ u <= Len(s)
    BY <2>1, RunEndRange
  <2> QED
    BY <2>2, <2>3
<1>4. ASSUME NEW w \in Seq(Byte), NEW n \in WordEnds(s, p, w) PROVE n \in 0..Len(s)
  <2>1. n = p + Len(w) /\ OccursAt(s, p, w)
    BY <1>4, WordEndsFacts
  <2> QED
    BY <2>1 DEF OccursAt
<1>5. ASSUME NEW b, NEW n \in ByteEnds(s, p, b) PROVE n \in 0..Len(s)
  <2>1. ByteIn(s, p, {b}) /\ n = p + 1
    <3>1. ByteEnds(s, p, b) = IF ByteIn(s, p, {b}) THEN {p + 1} ELSE {}
      BY ByteEndsFacts
    <3> QED
      BY <1>5, <3>1
  <2> QED
    BY <2>1 DEF ByteIn
<1>6. ASSUME NEW n \in SpaceEnds(s, p) PROVE n \in 0..Len(s)
  <2>1. SpaceEnds(s, p) \in SUBSET (p..Len(s))
    BY SpaceFacts
  <2>2. n \in p..Len(s)
    BY <1>6, <2>1, Zenon
  <2> QED
    BY <2>2
<1>7. ASSUME NEW n \in LineEnds(s, p) PROVE n \in 0..Len(s)
  <2>1. PICK S : S = Byte \ LineEnd
    OBVIOUS
  <2>2. OccursAt(s, p, LineOpen) /\ n \in (p + 2)..RunEnd(s, p + 2, S) /\ p + 2 \in 0..Len(s)
    BY <1>7, <2>1, LineEndsFacts
  <2>3. PICK k \in Nat : k = p + 2 /\ k <= Len(s)
    BY <2>2
  <2>4. RunEnd(s, k, S) \in Nat /\ RunEnd(s, k, S) <= Len(s)
    BY <2>3, RunEndRange
  <2> QED
    BY <2>2, <2>3, <2>4
<1>8. ASSUME NEW n \in BlockCommentEnds(s, p) PROVE n \in 0..Len(s)
  <2>1. PICK c \in (p + 2)..Len(s) : n = c + 2 /\ OccursAt(s, c, CommentClose)
    BY <1>8, BlockCommentFacts
  <2>2. c + 2 <= Len(s)
    BY <2>1, CommentMarks DEF OccursAt
  <2> QED
    BY <2>1, <2>2
<1>9. t \in Ignored \/ t \in {"{", "[", "STRING", "NUMBER", "true", "false", "null", "]", "IDENT", "}", ":", ","}
  <2>1. t \in Ignored \/ \E f \in Phases : t \in Expected[f]
    <3>1. t \in Ignored \/ t \in UNION {Expected[f] : f \in DOMAIN Expected}
      BY Zenon DEF Terminals
    <3>2. DOMAIN Expected = Phases
      BY ExpectedIs, Zenon
    <3> QED
      BY <3>1, <3>2, Zenon
  <2>2. ASSUME NEW f \in Phases, t \in Expected[f]
        PROVE  t \in {"{", "[", "STRING", "NUMBER", "true", "false", "null", "]", "IDENT", "}", ":", ","}
    BY <2>2, ExpectedIs, Zenon DEF Phases, ValueTerminals
  <2> QED
    BY <2>1, <2>2, Zenon
<1>10. WordTrue \in Seq(Byte) /\ WordFalse \in Seq(Byte) /\ WordNull \in Seq(Byte)
  BY LiteralWords DEF Literal3
<1>11. CASE t \in Ignored
  BY <1>6, <1>7, <1>8, <1>11, EndsOf, Zenon DEF Ignored
<1>12. CASE t = "STRING"
  BY <1>1, <1>12, EndsOf, Zenon DEF StringEnds
<1>13. CASE t = "NUMBER" \/ t = "IDENT"
  BY <1>2, <1>3, <1>13, EndsOf, Zenon
<1>14. CASE t = "true" \/ t = "false" \/ t = "null"
  BY <1>4, <1>10, <1>14, EndsOf, Zenon
<1>15. CASE t = "{" \/ t = "}" \/ t = "[" \/ t = "]"
  <2>1. \E b : TerminalEnds(t, s, p) = ByteEnds(s, p, b)
    <3>1. /\ TerminalEnds("{", s, p) = ByteEnds(s, p, LBrace)
          /\ TerminalEnds("}", s, p) = ByteEnds(s, p, RBrace)
          /\ TerminalEnds("[", s, p) = ByteEnds(s, p, LBracket)
          /\ TerminalEnds("]", s, p) = ByteEnds(s, p, RBracket)
      BY EndsOf, Zenon
    <3> QED
      BY <1>15, <3>1, Zenon
  <2>2. PICK b : e \in ByteEnds(s, p, b)
    BY <2>1, Zenon
  <2> QED
    BY <1>5, <2>2, Zenon
<1>16. CASE t = ":" \/ t = ","
  BY <1>5, <1>16, EndsOf, Zenon
<1> QED
  BY <1>9, <1>11, <1>12, <1>13, <1>14, <1>15, <1>16, Zenon

\* The lexer finds nothing, or a token that is expected or ignored.
LEMMA SomeToken ==
    ASSUME NEW s \in Seq(Byte), NEW p \in 0..Len(s), NEW phase \in Phases, ~LexesNothing(s, p, phase)
    PROVE  \E t \in Allowed(phase) : \E e \in 0..Len(s) :
               p < e /\ e \in TerminalEnds(t, s, p) /\ Lexes(s, p, phase, t, e)
<1>1. PICK matches : matches = Matches(s, p, Expected[phase])
  OBVIOUS
<1>2. matches # {}
  BY <1>1, Zenon DEF LexesNothing
<1>3. ASSUME NEW m \in matches
      PROVE  \E t \in Allowed(phase) : \E e \in 0..Len(s) :
                 p < e /\ e \in TerminalEnds(t, s, p) /\ m = [terminal |-> t, end |-> e]
  <2>1. PICK t \in Allowed(phase) : \E e \in TerminalEnds(t, s, p) :
                   m = [terminal |-> t, end |-> e] /\ e > p
    BY <1>1, <1>3, MatchesAre, Zenon
  <2>2. PICK e \in TerminalEnds(t, s, p) : m = [terminal |-> t, end |-> e] /\ e > p
    BY <2>1
  <2>3. t \in Terminals
    BY AllowedTerminals
  <2>4. e \in 0..Len(s)
    BY <2>3, TerminalRange
  <2> QED
    BY <2>2, <2>4
<1>4. PICK T \in SUBSET (0..Len(s)) : T = {m.end : m \in matches}
  <2>1. ASSUME NEW m \in matches PROVE m.end \in 0..Len(s)
    BY <1>3
  <2>2. {m.end : m \in matches} \in SUBSET (0..Len(s))
    BY <2>1
  <2> QED
    BY <2>2, Zenon
<1>5. T # {}
  BY <1>2, <1>4
<1>6. PICK x \in T : \A y \in T : y <= x
  <2>1. PICK N \in Nat : N = Len(s)
    OBVIOUS
  <2>2. T \in SUBSET (0..N)
    BY <2>1
  <2> QED
    BY <1>5, <2>2, GreatestOfSome
<1>7. \E m \in matches : \A n \in matches : n.end <= m.end
  BY <1>4, <1>6
<1>8. Longest(matches) \in matches
  BY <1>7, Zenon DEF Longest
<1>9. PICK t \in Allowed(phase), e \in 0..Len(s) :
          p < e /\ e \in TerminalEnds(t, s, p) /\ Longest(matches) = [terminal |-> t, end |-> e]
  BY <1>3, <1>8
<1>10. Lexes(s, p, phase, t, e)
  BY <1>1, <1>2, <1>9, Zenon DEF Lexes
<1> QED
  BY <1>9, <1>10

\* A state of a run that goes on.
Going(s, st) ==
    \E p \in 0..Len(s) : \E phase \in Phases : \E open \in Seq(Nest) : \E d \in Nat :
        \E done, bd : st = State(p, phase, open, done, bd, d)

\* A string that is not decoded or a value too deep is behind state st.
Bad(st, M) == ~(st.bound /\ st.deepest <= M)

\* What the run keeps behind a token.
AfterFacts(s, phase, open, d, bd, t, e, raw, b) ==
    /\ Going(s, b) /\ b.status = "reading" /\ b.pos = e
    /\ b.deepest \in Nat /\ d <= b.deepest
    /\ ~bd => ~b.bound
    /\ t = "STRING" /\ ~DecodeString(raw).ok => ~b.bound
    /\ phase # "pair" /\ t \in ValueTerminals => Len(open) <= b.deepest

\* After a token the run goes on.
LEMMA AfterIsGoing ==
    ASSUME NEW s \in Seq(Byte), NEW phase \in Phases, NEW open \in Seq(Nest), NEW d \in Nat,
           NEW p, NEW done, NEW bd, NEW a, a = State(p, phase, open, done, bd, d),
           NEW t, NEW e \in 0..Len(s), NEW raw, NEW b, b = After(a, t, e, raw)
    PROVE  AfterFacts(s, phase, open, d, bd, t, e, raw, b)
<1>1. a.phase = phase /\ a.open = open /\ a.deepest = d
  BY StateFields
<1>2. a.bound = bd
  BY StateFields
<1>3. PICK ph, op, ou, de : ph = PhaseAfter(a, t) /\ op = OpenAfter(a, t)
                              /\ ou = OutAfter(a, t, raw) /\ de = DeepestAfter(a, t)
  OBVIOUS
<1>4. PICK bo : bo = BoundAfter(a, t, raw)
  OBVIOUS
<1>5. b = State(e, ph, op, ou, bo, de)
  BY <1>3, <1>4, Zenon DEF After
<1>6. op \in Seq(Nest)
  <2>1. \/ op = Append(open, "object") \/ op = Append(open, "array")
        \/ op = SubSeq(open, 1, Len(open) - 1) \/ op = open
    BY <1>1, <1>3, Zenon DEF OpenAfter
  <2>2. Append(open, "object") \in Seq(Nest) /\ Append(open, "array") \in Seq(Nest)
    BY DEF Nest
  <2>3. SubSeq(open, 1, Len(open) - 1) \in Seq(Nest)
    <3>1. Len(open) \in Nat
      OBVIOUS
    <3>2. Len(open) - 1 \in Int /\ Len(open) - 1 <= Len(open)
      BY <3>1
    <3>3. PICK n \in Int : n = Len(open) - 1 /\ n <= Len(open)
      BY <3>2
    <3>4. \A i \in 1..n : open[i] \in Nest
      BY <3>3
    <3> QED
      BY <3>3, <3>4
  <2> QED
    BY <2>1, <2>2, <2>3
<1>7. ph \in Phases
  <2>1. \/ ph = "pair" \/ ph = "item" \/ ph = "value" \/ ph = "colon" \/ ph = Follow(op)
    BY <1>3, Zenon DEF PhaseAfter
  <2>2. Follow(op) \in Phases
    BY <1>6, FollowFacts
  <2> QED
    BY <2>1, <2>2 DEF Phases
<1>8. de \in Nat /\ d <= de /\ (phase # "pair" /\ t \in ValueTerminals => Len(open) <= de)
  <2>1. PICK n \in Nat : n = Len(open) /\ Len(a.open) = n
    BY <1>1
  <2>2. CASE phase = "pair" \/ t \notin ValueTerminals
    <3>1. de = d
      BY <1>1, <1>3, <2>1, <2>2, DeepestAfterIs, Zenon
    <3> QED
      BY <2>2, <3>1
  <2>3. CASE phase # "pair" /\ t \in ValueTerminals
    <3>1. de = IF d < n THEN n ELSE d
      BY <1>1, <1>3, <2>1, <2>3, DeepestAfterIs, Zenon
    <3> QED
      BY <2>1, <3>1
  <2> QED
    BY <2>2, <2>3
<1>9. b.status = "reading" /\ b.pos = e /\ b.deepest = de
  BY <1>5, StateFields
<1>10. b.bound = bo
  BY <1>5, StateFields
<1>11. Going(s, b)
  <2>1. \E done2, bd2 : b = State(e, ph, op, done2, bd2, de)
    BY <1>5, Zenon
  <2> QED
    BY <1>6, <1>7, <1>8, <2>1, Zenon DEF Going
<1>12. ~bd => ~b.bound
  BY <1>2, <1>4, <1>10, BoundAfterIs, Zenon
<1>13. t = "STRING" /\ ~DecodeString(raw).ok => ~b.bound
  BY <1>4, <1>10, BoundAfterIs, Zenon
<1>14. b.deepest \in Nat /\ d <= b.deepest
       /\ (phase # "pair" /\ t \in ValueTerminals => Len(open) <= b.deepest)
  BY <1>8, <1>9
<1> QED
  BY <1>9, <1>11, <1>12, <1>13, <1>14, Zenon DEF AfterFacts

\* Bad stays bad: a step changes neither field for the better.
LEMMA StepKeeps ==
    ASSUME NEW s \in Seq(Byte), NEW M \in Nat, NEW a, Going(s, a), NEW b, b = Step(s, a)
    PROVE  /\ b.status = "reading" => Going(s, b)
           /\ Bad(a, M) => Bad(b, M)
<1>1. PICK p \in 0..Len(s), phase \in Phases, open \in Seq(Nest), d \in Nat :
          \E done, bd : a = State(p, phase, open, done, bd, d)
  BY DEF Going
<1>2. PICK done, bd : a = State(p, phase, open, done, bd, d)
  BY <1>1
<1>3. a.status = "reading" /\ a.pos = p /\ a.phase = phase /\ a.deepest = d
  BY <1>2, StateFields
<1>4. a.bound = bd
  BY <1>2, StateFields
<1>5. CASE p = Len(s)
  <2>1. b.status = "valid" \/ b.status = "invalid"
    BY <1>2, <1>5, StepEnds
  <2>2. b.deepest = d
    BY <1>2, <1>5, StepEnds
  <2>3. b.bound = bd
    BY <1>2, <1>5, StepEnds
  <2>4. Bad(a, M) => Bad(b, M)
    BY <1>3, <1>4, <2>2, <2>3, Zenon DEF Bad
  <2> QED
    BY <2>1, <2>4
<1>6. CASE p # Len(s) /\ LexesNothing(s, p, phase)
  <2>1. b = [a EXCEPT !.status = "invalid"]
    BY <1>3, <1>6, Zenon DEF Step, LexesNothing
  <2>2. b.status = "invalid" /\ b.deepest = d
    BY <1>2, <2>1 DEF State
  <2>3. b.bound = bd
    BY <1>2, <2>1 DEF State
  <2>4. Bad(a, M) => Bad(b, M)
    BY <1>3, <1>4, <2>2, <2>3, Zenon DEF Bad
  <2> QED
    BY <2>2, <2>4
<1>7. CASE p # Len(s) /\ ~LexesNothing(s, p, phase)
  <2>1. PICK t \in Allowed(phase), e \in 0..Len(s) : p < e /\ Lexes(s, p, phase, t, e)
    BY <1>7, SomeToken
  <2>2. CASE t \in Ignored
    <3>1. b = State(e, phase, open, done, bd, d)
      BY <1>2, <1>7, <2>1, <2>2, StepShifts
    <3>2. b.deepest = d
      BY <3>1, StateFields
    <3>3. b.bound = bd
      BY <3>1, StateFields
    <3>4. Bad(a, M) => Bad(b, M)
      BY <1>3, <1>4, <3>2, <3>3, Zenon DEF Bad
    <3>5. Going(s, b)
      <4>1. \E done2, bd2 : b = State(e, phase, open, done2, bd2, d)
        BY <3>1, Zenon
      <4> QED
        BY <4>1, Zenon DEF Going
    <3> QED
      BY <3>4, <3>5
  <2>3. CASE t \notin Ignored
    <3>1. PICK raw : raw = Slice(s, p, e)
      OBVIOUS
    <3>2. b = After(a, t, e, raw)
      BY <1>2, <1>7, <2>1, <2>3, <3>1, StepShifts
    <3>a. AfterFacts(s, phase, open, d, bd, t, e, raw, b)
      BY <1>2, <3>2, AfterIsGoing
    <3>3. Going(s, b) /\ b.deepest \in Nat /\ d <= b.deepest
      BY <3>a, Zenon DEF AfterFacts
    <3>4. ~bd => ~b.bound
      BY <3>a, Zenon DEF AfterFacts
    <3>5. ~(d <= M) => ~(b.deepest <= M)
      BY <3>3
    <3>6. Bad(a, M) => Bad(b, M)
      BY <1>3, <1>4, <3>4, <3>5, Zenon DEF Bad
    <3> QED
      BY <3>3, <3>6
  <2> QED
    BY <2>2, <2>3
<1> QED
  BY <1>5, <1>6, <1>7

\* Once bad, the verdict is not a document within the limit.
LEMMA BadStays ==
    ASSUME NEW s \in Seq(Byte), NEW M \in Nat, NEW a, Reached(s, a), Going(s, a), Bad(a, M)
    PROVE  ~Takes(s, M)
<1>1. PICK N \in Nat : N = Len(s) + 1
  OBVIOUS
<1>2. PICK n \in Nat : n <= Len(s) /\ RunOf(s)[n] = a
  BY DEF Reached
<1>3. PICK run : run = RunOf(s)
  OBVIOUS
<1>4. /\ \A k \in 1..N : run[k] = RunRound(s, run[k - 1])
      /\ Reference(s) = run[N]
  BY <1>1, <1>3, RunFacts
<1> DEFINE Lost(st) == Bad(st, M) /\ (st.status = "reading" => Going(s, st))
           S == {k \in 0..N : n <= k => Lost(run[k])}
<1>5. Lost(a)
  OBVIOUS
<1>6. 0 \in S
  <2>1. n <= 0 => run[0] = a
    BY <1>2, <1>3
  <2> QED
    BY <1>5, <2>1
<1>7. ASSUME NEW k \in 1..N, k - 1 \in S PROVE k \in S
  <2>1. CASE n <= k - 1
    <3>1. Lost(run[k - 1])
      BY <1>7, <2>1
    <3>2. Lost(RunRound(s, run[k - 1]))
      <4>1. CASE run[k - 1].status = "reading"
        <5>1. PICK b : b = Step(s, run[k - 1])
          OBVIOUS
        <5>2. Going(s, run[k - 1]) /\ Bad(run[k - 1], M)
          BY <3>1, <4>1
        <5>3. Bad(b, M) /\ (b.status = "reading" => Going(s, b))
          BY <5>1, <5>2, StepKeeps
        <5>4. RunRound(s, run[k - 1]) = b
          BY <4>1, <5>1 DEF RunRound
        <5> QED
          BY <5>3, <5>4
      <4>2. CASE run[k - 1].status # "reading"
        <5>1. RunRound(s, run[k - 1]) = run[k - 1]
          BY <4>2 DEF RunRound
        <5> QED
          BY <3>1, <5>1
      <4> QED
        BY <4>1, <4>2
    <3>3. run[k] = RunRound(s, run[k - 1])
      BY <1>4
    <3>4. Lost(run[k])
      BY <3>2, <3>3
    <3> QED
      BY <3>4
  <2>2. CASE n = k
    <3>1. run[k] = a
      BY <1>2, <1>3, <2>2
    <3> QED
      BY <1>5, <3>1
  <2>3. CASE k < n
    BY <2>3
  <2> QED
    BY <2>1, <2>2, <2>3
<1>8. N \in S
  <2> HIDE DEF S
  <2>1. 0..N \subseteq S
    BY <1>6, <1>7, BoundedInduction
  <2> QED
    BY <2>1
<1>9. Bad(Reference(s), M)
  BY <1>1, <1>2, <1>4, <1>8
<1> QED
  BY <1>9, Zenon DEF Bad, Takes, Accepts

\* Token t with text raw is a string that decoding rejects or a value too deep.
Fault(M, phase, open, t, raw) ==
    \/ t = "STRING" /\ ~DecodeString(raw).ok
    \/ phase # "pair" /\ t \in ValueTerminals /\ M < Len(open)

\* A token that leaves a string undecoded, or a value too deep, decides.
LEMMA BadToken ==
    ASSUME NEW s \in Seq(Byte), NEW M \in Nat, NEW p, NEW phase, NEW open, NEW done,
           Where(s, M, p, phase, open, done), p # Len(s),
           NEW t \in Allowed(phase), t \notin Ignored, NEW e \in 0..Len(s), p < e,
           Lexes(s, p, phase, t, e), NEW raw, raw = Slice(s, p, e),
           Fault(M, phase, open, t, raw)
    PROVE  ~Takes(s, M)
<1>1. p \in 0..Len(s) /\ phase \in Phases /\ open \in Seq(Nest)
  BY DEF Where
<1>2. PICK d \in Nat : d <= M /\ Reached(s, St(p, phase, open, done, d))
  BY DEF Where
<1>3. PICK a : a = St(p, phase, open, done, d)
  OBVIOUS
<1>4. PICK yes : yes = TRUE
  OBVIOUS
<1>5. a = State(p, phase, open, done, yes, d)
  BY <1>3, <1>4, StIsState
<1>6. PICK b : b = Step(s, a)
  OBVIOUS
<1>7. b = After(a, t, e, raw)
  <2>1. Step(s, a) = After(a, t, e, raw)
    BY <1>1, <1>5, StepShifts
  <2> QED
    BY <1>6, <2>1
<1>8. AfterFacts(s, phase, open, d, yes, t, e, raw, b)
  BY <1>1, <1>5, <1>7, AfterIsGoing
<1>9. Going(s, b) /\ b.status = "reading" /\ b.pos = e /\ b.deepest \in Nat
  BY <1>8, Zenon DEF AfterFacts
<1>10. Bad(b, M)
  <2>1. CASE t = "STRING" /\ ~DecodeString(raw).ok
    BY <1>8, <2>1, Zenon DEF AfterFacts, Bad
  <2>2. CASE phase # "pair" /\ t \in ValueTerminals /\ M < Len(open)
    <3>1. Len(open) <= b.deepest
      BY <1>8, <2>2, Zenon DEF AfterFacts
    <3>2. Len(open) \in Nat
      BY <1>1
    <3>3. ~(b.deepest <= M)
      BY <1>9, <2>2, <3>1, <3>2
    <3> QED
      BY <3>3, Zenon DEF Bad
  <2> QED
    BY <2>1, <2>2, Zenon DEF Fault
<1>11. a.pos = p /\ Reached(s, a) /\ p \in Nat /\ p < Len(s)
  BY <1>1, <1>2, <1>3, StPlace
<1>12. Reached(s, b)
  BY <1>6, <1>9, <1>11, ReachedOn
<1> QED
  BY <1>9, <1>10, <1>12, BadStays

\* A string that the run time rejects.
LEMMA NoStringHere ==
    ASSUME NEW s \in Seq(Byte), NEW M \in Nat, NEW p, NEW phase \in StringPhases, NEW open, NEW done,
           Where(s, M, p, phase, open, done), NEW q \in Quotes, ByteIn(s, p, {q}), NoString(s, p, q)
    PROVE  ~Takes(s, M)
<1>1. p \in 0..Len(s)
  BY DEF Where
<1>2. PICK t : t = "STRING"
  OBVIOUS
<1>3. /\ t \in Allowed(phase) /\ t \notin Ignored
      /\ phase \in Phases /\ p < Len(s)
      /\ t = Looked(s, p, phase)
  BY <1>1, <1>2, StringPlace
<1>4. PICK ends : ends = QuotedEnds(s, p, q)
  OBVIOUS
<1>5. TerminalEnds(t, s, p) = ends
  BY <1>1, <1>2, <1>4, OneQuote
<1>6. ends \in SUBSET ((p + 1)..Len(s))
  <2>1. ASSUME NEW e \in ends PROVE e \in (p + 1)..Len(s)
    <3>1. \A m : m \in QuotedEnds(s, p, q) <=>
                 ByteIn(s, p, {q}) /\ \E x \in InString(s, q, p + 1) : ByteIn(s, x, {q}) /\ m = x + 1
      BY <1>1, QuotedEndsFacts
    <3>2. PICK n \in 0..Len(s) : n = p + 1
      BY <1>1, <1>3
    <3>3. PICK x \in InString(s, q, n) : ByteIn(s, x, {q}) /\ e = x + 1
      BY <1>4, <2>1, <3>1, <3>2
    <3>4. x \in n..Len(s)
      BY InStringFacts
    <3> QED
      BY <1>1, <3>2, <3>3, <3>4 DEF ByteIn
  <2> QED
    BY <2>1
<1>7. CASE ends = {}
  <2>1. ~May(s, p, t)
    BY <1>5, <1>7 DEF May, Beyond
  <2>2. LexesNothing(s, p, phase)
    BY <1>1, <1>3, <2>1, LexNone
  <2> QED
    BY <1>3, <2>2, WhereStuck
<1>8. CASE ends # {}
  <2>1. PICK N \in Nat : N = Len(s)
    OBVIOUS
  <2>2. ends \in SUBSET (0..N) /\ ends \in SUBSET Nat
    BY <1>1, <1>6, <2>1
  <2>3. PICK e \in ends : \A n \in ends : n <= e
    BY <1>8, <2>2, GreatestOfSome
  <2>4. e \in 0..Len(s) /\ p < e
    BY <1>1, <1>6
  <2>5. Lexes(s, p, phase, t, e)
    BY <1>1, <1>3, <1>5, <2>2, <2>3, <2>4, LexOne
  <2>6. PICK raw : raw = Slice(s, p, e)
    OBVIOUS
  <2>7. t = "STRING" /\ ~DecodeString(raw).ok
    BY <1>2, <1>4, <2>6, Zenon DEF NoString
  <2>8. Fault(M, phase, open, t, raw)
    BY <2>7, Zenon DEF Fault
  <2>9. p # Len(s)
    BY <1>3
  <2> QED
    BY <1>3, <2>4, <2>5, <2>6, <2>8, <2>9, BadToken
<1> QED
  BY <1>7, <1>8

\* A value due beyond the limit.
LEMMA TooDeepHere ==
    ASSUME NEW s \in Seq(Byte), NEW M \in Nat, NEW p, NEW phase \in ValuePhases, NEW open, NEW done,
           Where(s, M, p, phase, open, done), Settled(s, p),
           phase = "item" => ~ByteIn(s, p, {RBracket}), M < Len(open)
    PROVE  ~Takes(s, M)
<1>1. p \in 0..Len(s) /\ phase \in Phases /\ phase # "nothing" /\ phase # "pair"
  BY DEF Where, ValuePhases
<1>2. CASE p = Len(s)
  BY <1>1, <1>2, WhereShort
<1>3. CASE p # Len(s) /\ LexesNothing(s, p, phase)
  BY <1>3, WhereStuck
<1>4. CASE p # Len(s) /\ ~LexesNothing(s, p, phase)
  <2>1. PICK t \in Allowed(phase), e \in 0..Len(s) :
               p < e /\ e \in TerminalEnds(t, s, p) /\ Lexes(s, p, phase, t, e)
    BY <1>1, <1>4, SomeToken
  <2>2. May(s, p, t)
    BY <2>1 DEF May, Beyond
  <2>3. t \notin Ignored
    BY <1>1, <2>2, SettledIgnores
  <2>4. t \in ValueTerminals
    <3>1. t \in Expected[phase]
      BY <2>3, Zenon DEF Allowed
    <3>2. CASE phase = "value"
      BY <3>1, <3>2, ExpectedIs, Zenon
    <3>3. CASE phase = "item"
      <4>1. ~May(s, p, "]")
        BY <1>1, <3>3, MayStarts, Zenon
      <4>2. t # "]"
        BY <2>2, <4>1, Zenon
      <4> QED
        BY <3>1, <3>3, <4>2, ExpectedIs, Zenon
    <3> QED
      BY <3>2, <3>3 DEF ValuePhases
  <2>5. PICK raw : raw = Slice(s, p, e)
    OBVIOUS
  <2>6. Fault(M, phase, open, t, raw)
    BY <1>1, <2>4, Zenon DEF Fault
  <2> QED
    BY <1>4, <2>1, <2>3, <2>5, <2>6, BadToken
<1> QED
  BY <1>2, <1>3, <1>4

=============================================================================

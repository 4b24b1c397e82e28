----------------------------- MODULE MCNumbers -----------------------------
(***************************************************************************)
(* Spellings for TLC, to be converted to an integer: decimals of every     *)
(* shape with up to three digits before the point and two behind it and    *)
(* exponents up to 32, hexadecimals of up to three digits, and words.  To  *)
(* be converted to floating point: decimals of up to three digits with the *)
(* point anywhere and exponents from -3 to 3, and the same others.         *)
(***************************************************************************)
EXTENDS Doubles
LOCAL INSTANCE SequencesExt

Signs    == {<<>>, <<Plus>>, <<Minus>>}
NoPlus   == {<<>>, <<Minus>>}

Numbers(decimals) ==
    LET hexadecimals == {sign \o <<48, 120>> \o n :
                sign \in Signs, n \in BoundedSeq({48, 49, 56, 70, 97}, 3)}
        words        == {sign \o word : sign \in Signs, word \in {WordNaN, WordInfinity}}
    IN  {s \in decimals \cup hexadecimals \cup words : ScanNumber(s, 0) = Scanned(Len(s))}

-----------------------------------------------------------------------------
\* The digits 0, 1, 2 and 8; 128 is beyond eight bits with a sign.
Wholes == BoundedSeq({48, 49, 50, 56}, 3)

\* Nothing, ".", ".0", ".8" and ".28".
Fractions == {<<>>, <<Dot>>, <<Dot, 48>>, <<Dot, 56>>, <<Dot, 50, 56>>}

\* "e" with 0, 1, 2, 16 and 32.
Exponents ==
    {<<>>} \cup {<<101>> \o sign \o n : sign \in Signs,
                    n \in {<<48>>, <<49>>, <<50>>, <<49, 54>>, <<51, 50>>}}

IntegerSpellings ==
    Numbers({sign \o whole \o fraction \o exponent :
                sign \in Signs, whole \in Wholes, fraction \in Fractions,
                exponent \in Exponents})

-----------------------------------------------------------------------------
\* The digits 0, 1, 2, 5 and 9.
Figures == {48, 49, 50, 53, 57}

Points == BoundedSeq(Figures, 3)
            \cup {a \o <<Dot>> \o b : a \in BoundedSeq(Figures, 2), b \in BoundedSeq(Figures, 1)}
            \cup {<<Dot>> \o b : b \in BoundedSeq(Figures, 3)}

SmallExponents == {<<>>} \cup {<<101>> \o s \o <<n>> : s \in NoPlus, n \in {48, 49, 50, 51}}

DoubleSpellings ==
    Numbers({s \o p \o e : s \in NoPlus, p \in Points, e \in SmallExponents})

=============================================================================

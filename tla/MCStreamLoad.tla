---------------------------- MODULE MCStreamLoad ----------------------------
(***************************************************************************)
(* Streams for TLC: up to five bytes, each a line feed or a zero, in       *)
(* chunks of two.  Of these texts the documents hold one zero.             *)
(***************************************************************************)
EXTENDS StreamLoad
LOCAL INSTANCE SequencesExt

Texts == BoundedSeq({LF, Zero}, 5)

ZeroDocuments == {t \in Texts : Cardinality({k \in 1..Len(t) : t[k] = Zero}) = 1}

=============================================================================

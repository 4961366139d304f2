------------------------------ MODULE MCRouter ------------------------------
(* Instances of Router for TLC. *)
EXTENDS Router

CONSTANTS g1, g2, t1, t2

\* One guru has both topics; of two gurus the second one has t2.
OneGuru == <<g1>>
BothGurus == <<g1, g2>>
GrowAndShrink == {OneGuru, BothGurus}
SecondMoves(l, t) == IF t = t2 THEN Len(l) ELSE 1
=============================================================================

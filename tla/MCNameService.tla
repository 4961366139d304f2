--------------------------- MODULE MCNameService ---------------------------
(* Instances of NameService for TLC. *)
EXTENDS NameService

CONSTANTS k1, k2

\* The two owners are alike.
KeySymmetry == Permutations({k1, k2})
=============================================================================

----------------------------- MODULE MCService -----------------------------
(* Instances of Service for TLC. *)
EXTENDS Service

CONSTANTS c1, c2
=============================================================================

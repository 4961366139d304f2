----------------------------- MODULE MCCluster -----------------------------
(* Instances of Cluster for TLC. *)
EXTENDS Cluster
CONSTANTS c1, c2, t1, t2, t3
\* The first topic stays, the others go to the last guru.
LastTakes(n, t) == IF t = t1 THEN 1 ELSE n
=============================================================================

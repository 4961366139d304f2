------------------------------ MODULE MCLookup ------------------------------
(* Instances of Lookup for TLC. *)
EXTENDS Lookup

CONSTANTS a1, a2, c1, c2, c3

\* c1 and c2 share an aide, c3 is on the other one.
TwoAidesHome == (c1 :> a1) @@ (c2 :> a1) @@ (c3 :> a2)

\* Exchanging the two clients of one aide changes nothing.
Neighbours == Permutations({c1, c2})

\* One client each.
ApartHome == (c1 :> a1) @@ (c2 :> a2)

\* One client.
AloneHome == c1 :> a1

\* Both on one aide.
TogetherHome == (c1 :> a1) @@ (c2 :> a1)
=============================================================================

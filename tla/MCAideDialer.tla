---------------------------- MODULE MCAideDialer ----------------------------
(* Instances of AideDialer for TLC. *)
EXTENDS AideDialer
CONSTANTS a1, a2
\* An aide, another one behind a guru, none.
AideComesAndGoes == {<<a1>>, <<"guru", a2>>, <<"guru">>}
=============================================================================

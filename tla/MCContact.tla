----------------------------- MODULE MCContact -----------------------------
(* Instances of Contact for TLC. *)
EXTENDS Contact

\* Everything a client of an aide may send, and every kind of delivery.
AllUp   == {"goodConnect", "disconnect", "request", "ping"}
AllDown == {"plain", "error"}

\* A client that only checks in, again and again.
CheckIns == {"goodConnect"}

\* Nothing that makes the contact write an error.
PlainDown == {"plain"}
ErrorDown == {"error"}

\* A client that checks in, or leaves without having checked in.
ComeAndGo == {"goodConnect", "disconnect"}
=============================================================================

-------------------------------- MODULE Rpc --------------------------------
(***************************************************************************)
(* What a service contact promises its callers: a call is answered at most *)
(* once, with the reply to its own request and after somebody served it,   *)
(* or it fails; and one of the two happens.                                *)
(***************************************************************************)
CONSTANTS
    Calls,    \* the calls that are made
    NoReply   \* what a call has that got none

VARIABLES
    call,     \* how far each call is
    served,   \* the calls that somebody has served
    reply     \* what each call returned

vars == <<call, served, reply>>

Init ==
    /\ call = [c \in Calls |-> "idle"]
    /\ served = {}
    /\ reply = [c \in Calls |-> NoReply]

Ask(c) ==
    /\ call[c] = "idle"
    /\ call' = [call EXCEPT ![c] = "asked"]
    /\ UNCHANGED <<served, reply>>

\* The answer may also come when the call has failed.
Serve(c) ==
    /\ call[c] # "idle"
    /\ served' = served \cup {c}
    /\ UNCHANGED <<call, reply>>

Answer(c) ==
    /\ call[c] = "asked" /\ c \in served
    /\ call' = [call EXCEPT ![c] = "answered"]
    /\ reply' = [reply EXCEPT ![c] = c]
    /\ UNCHANGED served

\* One call times out, or all of them end with their process.
Fail(lost) ==
    /\ \A c \in lost : call[c] = "asked"
    /\ call' = [c \in Calls |-> IF c \in lost THEN "failed" ELSE call[c]]
    /\ UNCHANGED <<served, reply>>

Next ==
    \/ \E c \in Calls : Ask(c) \/ Serve(c) \/ Answer(c)
    \/ \E lost \in SUBSET Calls : Fail(lost)

Ends(c) == Answer(c) \/ \E lost \in SUBSET Calls : c \in lost /\ Fail(lost)

Safety == Init /\ [][Next]_vars

Spec == Safety /\ \A c \in Calls : WF_vars(Ends(c))
=============================================================================

------------------------------ MODULE Billing ------------------------------
(***************************************************************************)
(* The accumulator of usage (iot/billing.go): four buckets of ten minutes. *)
(*                                                                         *)
(* The ring of buckets is here the sequence of those in use, the current   *)
(* one first, and the start of a bucket is its age.  Usage is seconds of   *)
(* connection or subscription, an average is in hundredths.                *)
(***************************************************************************)
EXTENDS Naturals, Sequences, SequencesExt

CONSTANTS
    Slots,   \* len(ba.a): 4
    Span,    \* bucketSpanTime: 600 seconds
    Margin   \* what an average may be above its maximum: .1, in hundredths

ASSUME BillingAssumption == Slots \in Nat \ {0} /\ Span \in Nat \ {0} /\ Margin \in Nat

\* An accumulator nobody has used.
Unused == <<>>

\* A mutant: there is always one more.
KeptAll(ba) == ba

\* The buckets that stay when one more is needed.
Kept(ba) == IF Len(ba) = Slots THEN Front(ba) ELSE ba

\* A bucket that is full is followed by a new one, which begins where it ended.
RollForward(ba) == IF ba[1].age <= Span THEN ba ELSE <<[age |-> ba[1].age - Span, sum |-> 0]>> \o Kept(ba)

\* The first usage begins the first bucket, deltat before now.
AddUsage(ba, amount, deltat) ==
    RollForward(IF ba = Unused THEN <<[age |-> deltat, sum |-> amount]>> ELSE [ba EXCEPT ![1].sum = @ + amount])

\* A mutant: one bucket is not looked at.
LooksBackLess(ba) ==
    LET sum == MapThenSumSet(LAMBDA i : ba[i].sum, DOMAIN ba \ {Slots})
    IN IF ba = Unused THEN 0
       ELSE IF Last(ba).age = 0 THEN 100 * sum ELSE (100 * sum) \div Last(ba).age

\* GetStats: all the buckets over the time since the first of them began; in
\* the second it began there is nothing to divide by.
GetStats(ba) ==
    IF ba = Unused THEN 0
    ELSE LET sum == MapThenSumSet(LAMBDA i : ba[i].sum, DOMAIN ba)
         IN IF Last(ba).age = 0 THEN 100 * sum ELSE (100 * sum) \div Last(ba).age

AreUnderMax(ba, max) == GetStats(ba) <= 100 * max + Margin

\* Time passes.
Older(ba, seconds, cap) == [i \in DOMAIN ba |-> [ba[i] EXCEPT !.age = IF @ < cap THEN @ + seconds ELSE @]]
=============================================================================

------------------------------ MODULE Cluster ------------------------------
(***************************************************************************)
(* A cluster that grows and shrinks (iot/executive.go) by what it is       *)
(* billed.                                                                 *)
(*                                                                         *)
(* Clients are contacts of the aides and topics are in the tables of the   *)
(* gurus; both report their usage every minute, the contacts also to the   *)
(* account of their token, which is a topic of their aide.  Heartbeat is   *)
(* one beat of everybody; what it starts in goroutines are actions of      *)
(* their own.                                                              *)
(***************************************************************************)
EXTENDS Billing, FiniteSets

CONSTANTS
    Clients, Topics,
    NoAide,          \* where a client is that lost its connection
    Aides,           \* the number of aides at first
    Beat,            \* 10 seconds
    FirstBill,       \* 30 seconds: until the first report
    BillEvery,       \* 60 seconds: between the others
    MaxConnections,  \* what the token of a client allows
    AideLimit,       \* connections of an aide (TestLimits)
    GuruLimit,       \* subscriptions of a guru
    Place(_, _),     \* the guru of a topic among so many (maglev)
    Buffers,         \* how full the queues are, in hundredths
    MaxNodes,        \* bound of the aides, and of the gurus
    AgeCap,          \* bound of ages
    SteadyCap        \* bound of steady

ASSUME ClusterAssumption ==
    /\ Beat \in Nat \ {0} /\ FirstBill \in Nat /\ MaxConnections \in Nat
    /\ BillEvery \in Nat /\ BillEvery >= Beat
    /\ AideLimit \in Nat \ {0} /\ GuruLimit \in Nat \ {0}
    /\ MaxNodes \in Nat \ {0} /\ Aides \in 1..MaxNodes /\ NoAide \notin Nat

VARIABLES
    aides,     \* ce.Aides: who, and the number of its name
    gurus,     \* ce.Gurus: the numbers of their names
    list,      \* ce.currentGuruList
    upstream,  \* the list each aide and each guru was told
    used,      \* ex.Billing of the aides and the gurus
    at,        \* the aide of each client
    account,   \* the billing topic of the token of each client, on one aide
    due,       \* beats before the next report of a client or topic, and its amount
    pending,   \* goroutines of the last heartbeat
    operated,  \* Operate has run since
    over,      \* Operate has panicked: the process has ended
    steady     \* beats since the nodes and their clients and topics changed

vars == <<aides, gurus, list, upstream, used, at, account, due, pending, operated, over, steady>>

Aide(id) == <<"aide", id>>
Guru(n) == <<"guru", n>>
Nodes == {Aide(id) : id \in 1..MaxNodes} \cup {Guru(n) : n \in 0..(MaxNodes - 1)}

Ids(as) == {as[i].id : i \in DOMAIN as}
GuruOf(t, gs) == gs[Place(Len(gs), t)]

NoAccount == [aide |-> NoAide, ba |-> Unused]
NextBill == [left |-> FirstBill \div Beat, amount |-> FirstBill]

\* MakeSimplestCluster, with clients wherever.
Init ==
    /\ aides = [i \in 1..Aides |-> [id |-> i, name |-> i - 1]]
    /\ gurus = <<0>> /\ list = <<0>>
    /\ upstream = [n \in Nodes |-> IF n = Guru(0) \/ n \in {Aide(id) : id \in 1..Aides} THEN <<0>> ELSE <<>>]
    /\ used = [n \in Nodes |-> Unused]
    /\ at \in [Clients -> 1..Aides]
    /\ account = [c \in Clients |-> [aide |-> at[c], ba |-> Unused]]
    /\ due \in {[p \in Clients \cup Topics |-> [NextBill EXCEPT !.left = first[p]]] :
                 first \in [Clients \cup Topics -> {0, NextBill.left}]}
    /\ pending = {} /\ operated = FALSE /\ over = FALSE /\ steady = 0

Changes == steady' = 0

----------------------------------------------------------------------------
(* Heartbeats *)

Connected(c) == at[c] # NoAide

\* ce.Heartbeat: the tables first, which forget topics without contacts and
\* look at the accounts, then the contacts.  Clients that were disconnected
\* come back before the next one, and the cluster is operated in between.
Heartbeat ==
    /\ ~over /\ pending = {} /\ operated /\ \A c \in Clients : Connected(c)
    /\ used' = [n \in Nodes |-> Older(used[n], Beat, AgeCap)]
    /\ account' = [c \in Clients |-> [account[c] EXCEPT !.ba = Older(@, Beat, AgeCap)]]
    /\ pending' = {<<"check", c>> : c \in Clients} \cup {<<"report", p>> : p \in {q \in Clients \cup Topics : due[q].left = 0}}
    /\ due' = [p \in Clients \cup Topics |-> IF due[p].left = 0 THEN due[p] ELSE [due[p] EXCEPT !.left = @ - 1]]
    /\ operated' = FALSE
    /\ steady' = IF steady < SteadyCap THEN steady + 1 ELSE steady
    /\ UNCHANGED <<aides, gurus, list, upstream, at, over>>

Done(job) == pending' = pending \ {job}

\* The time a report is about is in a variable that another one of the same
\* name hides, which is still zero.
ContactDeltat == 0

\* A mutant: the time of the last report is the time it was made.
EarlyReport == [left |-> (BillEvery \div Beat) - 2, amount |-> BillEvery]

NextReport == [left |-> (BillEvery \div Beat) - 1, amount |-> BillEvery]

\* sendBillingInfo: to the executive, and up to the account.
ContactReports(c) ==
    /\ ~over /\ <<"report", c>> \in pending /\ Done(<<"report", c>>)
    /\ IF ~Connected(c) THEN UNCHANGED <<used, account, due>>
       ELSE LET amount == due[c].amount
            IN /\ used' = [used EXCEPT ![Aide(at[c])] = AddUsage(@, amount, ContactDeltat)]
               /\ account' = [account EXCEPT ![c].ba = AddUsage(@, amount, ContactDeltat)]
               /\ due' = [due EXCEPT ![c] = NextReport]
    /\ UNCHANGED <<aides, gurus, list, upstream, at, operated, over, steady>>

\* heartBeatCallBack: topics are billed where nobody is above.
TopicReports(t) ==
    /\ ~over /\ <<"report", t>> \in pending /\ Done(<<"report", t>>)
    /\ used' = [used EXCEPT ![Guru(GuruOf(t, gurus))] = AddUsage(@, due[t].amount, due[t].amount)]
    /\ due' = [due EXCEPT ![t] = NextReport]
    /\ UNCHANGED <<aides, gurus, list, upstream, at, account, operated, over, steady>>

\* An account over its maximum has an error sent to its contacts, which closes
\* them.
Check(c) ==
    /\ ~over /\ <<"check", c>> \in pending /\ Done(<<"check", c>>)
    /\ IF Connected(c) /\ ~AreUnderMax(account[c].ba, MaxConnections)
       THEN at' = [at EXCEPT ![c] = NoAide] /\ Changes ELSE UNCHANGED <<at, steady>>
    /\ UNCHANGED <<aides, gurus, list, upstream, used, account, due, operated, over>>

\* The account of a client is found again where it was.
AccountAt(c, id) == IF account[c].aide = id THEN account[c] ELSE [aide |-> id, ba |-> Unused]

\* The client connects again, and subscribes to its account.
Reconnect(c) ==
    /\ ~over /\ ~Connected(c) /\ pending = {}
    /\ \E id \in Ids(aides) :
          at' = [at EXCEPT ![c] = id] /\ account' = [account EXCEPT ![c] = AccountAt(c, id)]
    /\ due' = [due EXCEPT ![c] = NextBill]
    /\ Changes
    /\ UNCHANGED <<aides, gurus, list, upstream, used, pending, operated, over>>

----------------------------------------------------------------------------
(* Operate *)

Total(nodes) == MapThenSumSet(LAMBDA n : GetStats(used[n]), nodes)
AideTotal == Total({Aide(id) : id \in Ids(aides)})
GuruTotal == Total({Guru(g) : g \in Range(gurus)})

\* CalcExpansionDesired: the average of so many nodes, or their queues, at 90%
\* of the limit.
Grows(total, n, limit, buffers) == total >= 90 * limit * n \/ buffers >= 90

\* "we can only shrink if the result won't just grow again."
Shrinks(total, n, limit, buffers) == n > 1 /\ total < 80 * limit * (n - 1) /\ buffers * n < 80 * (n - 1)

\* A new aide is called by the number there are.
GrownAides == LET id == CHOOSE x \in 1..MaxNodes : x \notin Ids(aides)
              IN Append(aides, [id |-> id, name |-> Len(aides)])

\* The aide with the most subscriptions, which no aide is billed for: the
\* first.  It is then looked for by its name, and the last of that name found.
RemoveAide == SelectLastInSeq(aides, LAMBDA a : a.name = aides[1].name)

\* The last takes the place of the one removed.
ShrunkAides == Front([aides EXCEPT ![RemoveAide] = Last(aides)])

AidesNext(buffers) ==
    IF Grows(AideTotal, Len(aides), AideLimit, buffers)
    THEN IF Len(aides) < MaxNodes THEN GrownAides ELSE aides
    ELSE IF Shrinks(AideTotal, Len(aides), AideLimit, buffers) THEN ShrunkAides ELSE aides

\* With gurus it is always the last one.
GurusNext(buffers) ==
    IF Grows(GuruTotal, Len(gurus), GuruLimit, buffers)
    THEN IF Len(gurus) < MaxNodes THEN Append(gurus, Len(gurus)) ELSE gurus
    ELSE IF Shrinks(GuruTotal, Len(gurus), GuruLimit, buffers) THEN Front(gurus) ELSE gurus

\* A mutant: the new guru is put first.
ListGrowsInFront(gs) == IF Len(gs) > Len(gurus) THEN <<Len(gurus)>> \o list ELSE list

\* A new guru is called by the number there are.
ListNext(gs) == IF Len(gs) > Len(gurus) THEN Append(list, Len(gurus)) ELSE list

\* SetUpstreamNames: to a new aide, and to all when there is a new guru.
Told(as, gs) ==
    [n \in Nodes |->
        IF n \notin {Aide(id) : id \in Ids(as)} \cup {Guru(g) : g \in Range(gs)} THEN <<>>
        ELSE IF gs # gurus \/ n \in {Aide(id) : id \in Ids(as) \ Ids(aides)} THEN ListNext(gs)
        ELSE upstream[n]]

\* The contacts of an aide that is removed are closed, and the accounts on it
\* are gone; topics that move are new where they come.
Operate(aideBuffers, guruBuffers) ==
    LET as == AidesNext(aideBuffers)
        gs == GurusNext(guruBuffers)
        gone == Ids(aides) \ Ids(as)
    IN /\ ~over /\ pending = {} /\ ~operated /\ operated' = TRUE
       /\ Len(gs) >= Len(gurus)
       /\ aides' = as /\ gurus' = gs /\ list' = ListNext(gs) /\ upstream' = Told(as, gs)
       /\ used' = [n \in Nodes |-> IF n \in {Aide(id) : id \in gone} THEN Unused ELSE used[n]]
       /\ at' = [c \in Clients |-> IF at[c] \in gone THEN NoAide ELSE at[c]]
       /\ account' = [c \in Clients |-> IF account[c].aide \in gone THEN NoAccount ELSE account[c]]
       /\ due' = [p \in Clients \cup Topics |->
                    IF p \in Topics /\ GuruOf(p, gs) # GuruOf(p, gurus) THEN NextBill ELSE due[p]]
       /\ IF as = aides /\ gs = gurus THEN UNCHANGED steady ELSE Changes
       /\ UNCHANGED <<pending, over>>

\* With a guru less, SetUpstreamNames of the first aide closes the connection
\* of the channel to it, which is nil when there is no TCP: Operate panics in the
\* midst of the change, and the process and all it has in memory end.
OperatePanics(guruBuffers) ==
    /\ ~over /\ pending = {} /\ ~operated
    /\ Len(GurusNext(guruBuffers)) < Len(gurus)
    /\ over' = TRUE
    /\ UNCHANGED <<aides, gurus, list, upstream, used, at, account, due, pending, operated, steady>>

Next ==
    \/ Heartbeat
    \/ \E c \in Clients : ContactReports(c) \/ Check(c) \/ Reconnect(c)
    \/ \E t \in Topics : TopicReports(t)
    \/ \E a, g \in Buffers : Operate(a, g)
    \/ \E g \in Buffers : OperatePanics(g)

Spec == Init /\ [][Next]_vars

\* The heartbeat and Operate are called by a timer, and what they start runs.
FairSpec == Spec /\ WF_vars(Next)
----------------------------------------------------------------------------
(* Properties *)

\* Nodes within their bounds and not twice, clients and their accounts on
\* aides that are there, and no more buckets than an accumulator has.
TypeOK ==
    /\ Len(aides) \in 1..MaxNodes /\ Len(gurus) \in 1..MaxNodes
    /\ Cardinality(Ids(aides)) = Len(aides)
    /\ \A c \in Clients : at[c] \in Ids(aides) \cup {NoAide} /\ account[c].aide \in Ids(aides) \cup {NoAide}
    /\ \A n \in Nodes : Len(used[n]) <= Slots

\* However the cluster grew and shrank (Operate), every aide and every guru
\* was told the same gurus in the same order, which are those there are.
GurusAgree ==
    /\ list = gurus /\ \A i, j \in DOMAIN gurus : gurus[i] = gurus[j] => i = j
    /\ \A n \in {Aide(id) : id \in Ids(aides)} \cup {Guru(g) : g \in Range(gurus)} : upstream[n] = list

ClientsAt(id) == {c \in Clients : at[c] = id}
TopicsAt(g) == {t \in Topics : GuruOf(t, gurus) = g}
Near(average, n) == average <= (100 + Margin) * n /\ (100 - Margin) * n <= average

\* Once nothing has changed for some time, the averages of a node (GetStats,
\* over buckets used again and again) are the clients and topics it has.
AveragesSettle ==
    steady = SteadyCap =>
       /\ \A id \in Ids(aides) : ClientsAt(id) # {} => Near(GetStats(used[Aide(id)]), Cardinality(ClientsAt(id)))
       /\ \A g \in Range(gurus) : TopicsAt(g) # {} => Near(GetStats(used[Guru(g)]), Cardinality(TopicsAt(g)))

\* "we can only shrink if the result won't just grow again" (executive.go:381,
\* CalcExpansionDesired): a cluster whose clients and topics stay does not grow
\* and shrink for ever.
SettlesDown == <>[][UNCHANGED <<aides, gurus>>]_vars

\* "Operate where we pretend to be an Operator and resize the cluster. ... Only
\* works in non-tcp mode" (executive.go:447): there it works.
OperateWorks == ~over

\* A client within its limit, and the aide it was on, may be taken away, but
\* in the end it is left alone (heartBeatCallBack, sendBillingInfo).
LeftAlone == <>[](over \/ \A c \in Clients : Connected(c))

\* "the token above allows for 1 contact and we'll make just one"
\* (test/billing_test.go): the account of such a client is not over.
UnderMax == \A c \in Clients : Connected(c) => AreUnderMax(account[c].ba, MaxConnections)
=============================================================================

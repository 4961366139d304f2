------------------------------- MODULE Lookup -------------------------------
(***************************************************************************)
(* The publish/subscribe service: the lookup tables of the aides and of a  *)
(* guru, and the connections between them (iot/subscribe.go,               *)
(* iot/publish.go, iot/lookup-table.go, iot/guru-dialer.go).               *)
(*                                                                         *)
(* Clients are contacts of an aide.  An aide keeps, per topic, the contacts*)
(* that watch it, and passes every message on, through the channel upc.up  *)
(* of the connection it dialed, to the guru that owns the topic; to that   *)
(* guru the aide is a contact that watches the topic.  What the guru sends *)
(* comes down the connection and is delivered to the aide's watchers.      *)
(*                                                                         *)
(* Each table is run by one goroutine per bucket; a node here is the bucket*)
(* its topics fall into.  The list of gurus does not change (see the       *)
(* README), so the topics belong to the one guru of this module.           *)
(***************************************************************************)
EXTENDS Naturals, Sequences, FiniteSets, SequencesExt

CONSTANTS
    Clients, Aides, Guru, Topics,
    Home,          \* the aide each client is connected to
    NoEntry,       \* a topic that is not in a table
    OwnedTopics,   \* topics the guru holds an Owner for at the start
    SelfOption,    \* the values of pub2self clients subscribe with
    StatsOption,   \* whether clients subscribe with statsmax
    Beats,         \* the nodes whose heartbeat runs
    SubTTL, PubTTL, BillTTL,  \* 26*60, 25*60, 60*60
    InCap,         \* capacity of bucket.incoming: 256
    UpCap,         \* capacity of upc.up: 1280
    DownCap,       \* room for packets from the guru to an aide: the commands
                   \* of the guru's contact and what its connection buffers
    MaxOps,        \* bound on what the clients do
    MaxGen,        \* bound on redials
    MaxTime        \* bound on the clock

Nodes == Aides \cup {Guru}

ASSUME LookupAssumption ==
    /\ Home \in [Clients -> Aides]
    /\ Guru \notin Aides
    /\ Clients \cap Aides = {}
    /\ OwnedTopics \subseteq Topics
    /\ SelfOption \subseteq BOOLEAN /\ StatsOption \subseteq BOOLEAN
    /\ Beats \subseteq Nodes
    /\ SubTTL \in Nat /\ PubTTL \in Nat /\ BillTTL \in Nat
    /\ InCap \in Nat \ {0} /\ UpCap \in Nat \ {0} /\ DownCap \in Nat \ {0}
    /\ MaxOps \in Nat /\ MaxGen \in Nat /\ MaxTime \in Nat
    /\ IsFiniteSet(Topics) /\ Cardinality(Topics) <= UpCap /\ Topics # {}

\* A contact: a client of an aide, or the k-th connection of an aide to the guru.
ClientContact(c) == <<c, 0>>
Contacts == (Clients \cup Aides) \X Nat

(***************************************************************************)
(* A packet, in a queue or on its way.  from is the contact it came in on. *)
(* "beat" and "resub" are the callbacks heartBeatCallBack (id is its now)  *)
(* and reSubscribeMyTopics.                                                *)
(***************************************************************************)
PacketTypes == {"sub", "unsub", "pub", "subDown", "pubDown", "beat", "resub"}
Packets == [type : PacketTypes, from : Contacts \cup {<<Guru, 0>>}, topic : Topics,
            id : Nat, by : Clients \cup {Guru}, self : BOOLEAN, stats : BOOLEAN, ack : BOOLEAN]

\* WatchedTopic: w are the watchers, selfs those with pub2self.
Entries == [w : SUBSET Contacts, selfs : SUBSET Contacts, exp : Nat,
            bill : BOOLEAN, owned : BOOLEAN]

ASSUME NoEntryAssumption == NoEntry \notin Entries

VARIABLES
    subs,      \* mySubscriptions of each node
    incoming,  \* the bucket's channel of each node
    up,        \* upc.up of each aide
    down,      \* packets on their way from the guru to each aide
    link,      \* each aide's connection: "down", "dialing" or "up"
    gen,       \* how often each aide has connected
    open,      \* the guru's contacts that are not closed
    gone,      \* the clients whose contact is closed
    deferred,  \* topics an aide's heartbeat has still to unsubscribe upstream
    acked,     \* topics each client got a suback for
    got,       \* messages each client received, in order, and whether it had
               \* asked for pub2self
    due,       \* who must receive each message (see Settled)
    ops,       \* what the clients did so far, also the last message number
    now

linkVars == <<link, gen, open>>
outVars  == <<acked, got>>
envVars  == <<gone, ops, now>>
vars == <<subs, incoming, up, down, linkVars, deferred, outVars, due, envVars>>

----------------------------------------------------------------------------
Blank == [type |-> "sub", from |-> <<Guru, 0>>, topic |-> CHOOSE t \in Topics : TRUE,
          id |-> 0, by |-> Guru, self |-> FALSE, stats |-> FALSE, ack |-> TRUE]

Link(a) == <<a, gen[a]>>
IsOpen(k) == IF k[1] \in Clients THEN k[1] \notin gone ELSE k \in open

HasEntry(n, t) == subs[n][t] # NoEntry
Watchers(n, t) == IF HasEntry(n, t) THEN subs[n][t].w ELSE {}

Subscription(t, noack) == [Blank EXCEPT !.topic = t, !.ack = ~noack]
Unsubscription(t) == [Blank EXCEPT !.type = "unsub", !.topic = t]

Init ==
    /\ subs = [n \in Nodes |-> [t \in Topics |->
                 IF n = Guru /\ t \in OwnedTopics
                 THEN [w |-> {}, selfs |-> {}, exp |-> MaxTime, bill |-> FALSE, owned |-> TRUE]
                 ELSE NoEntry]]
    /\ incoming = [n \in Nodes |-> <<>>]
    /\ up = [a \in Aides |-> <<>>] /\ down = [a \in Aides |-> <<>>]
    /\ link = [a \in Aides |-> "up"] /\ gen = [a \in Aides |-> 1]
    /\ open = {<<a, 1>> : a \in Aides}
    /\ gone = {}
    /\ deferred = [a \in Aides |-> {}]
    /\ acked = [c \in Clients |-> {}] /\ got = [c \in Clients |-> <<>>]
    /\ due = [i \in 1..MaxOps |-> {}]
    /\ ops = 0 /\ now = 0

----------------------------------------------------------------------------
(* The subscription of client c to t is in place at its aide and at the guru, *)
(* and no packet that could change it is on the way up, or about to be.        *)

Settled(c, t) ==
    LET a == Home[c]
        changes(m) == m.topic = t /\ m.type \in {"sub", "unsub"}
    IN /\ ClientContact(c) \in Watchers(a, t)
       /\ \A m \in Range(incoming[a]) : m.type = "unsub" => m.from # ClientContact(c)
       /\ ~subs[a][t].bill
       /\ Link(a) \in Watchers(Guru, t)
       /\ ~subs[Guru][t].bill
       /\ \A m \in Range(incoming[Guru]) : m.from = Link(a) => ~changes(m)
       /\ \A m \in Range(up[a]) : ~changes(m)
       /\ t \notin deferred[a]

----------------------------------------------------------------------------
(* What clients do: PushPacketUpFromBottom hands a packet to looker.send... *)

Queue(c, m) ==
    LET a == Home[c]
    IN /\ c \notin gone
       /\ ops < MaxOps /\ ops' = ops + 1
       /\ Len(incoming[a]) < InCap
       /\ incoming' = [incoming EXCEPT ![a] = Append(@, [m EXCEPT !.from = ClientContact(c)])]
       /\ UNCHANGED <<subs, up, down, linkVars, deferred, outVars, gone, now>>

ClientSubscribe(c) ==
    /\ \E t \in Topics, self \in SelfOption, stats \in StatsOption :
          Queue(c, [Subscription(t, FALSE) EXCEPT !.self = self, !.stats = stats])
    /\ UNCHANGED due

\* c no longer expects anything.
Release(c) == due' = [i \in DOMAIN due |-> due[i] \ {c}]

ClientUnsubscribe(c) ==
    /\ \E t \in Topics : Queue(c, Unsubscription(t))
    /\ Release(c)

ClientPublish(c) ==
    \E t \in Topics :
       /\ Queue(c, [Blank EXCEPT !.type = "pub", !.topic = t, !.id = ops + 1, !.by = c])
       /\ due' = [due EXCEPT ![ops + 1] = {d \in Clients \ (gone \cup {c}) : Settled(d, t)}]

ClientClose(c) ==
    /\ c \notin gone
    /\ ops < MaxOps /\ ops' = ops + 1
    /\ gone' = gone \cup {c}
    /\ Release(c)
    /\ UNCHANGED <<subs, incoming, up, down, linkVars, deferred, outVars, now>>

Tick ==
    /\ now < MaxTime /\ now' = now + 1
    /\ UNCHANGED <<subs, incoming, up, down, linkVars, deferred, outVars, due, gone, ops>>

----------------------------------------------------------------------------
(* What a bucket's goroutine does with a message.  An aide's handler ends in  *)
(* PushUp, which blocks while upc.up is full.                                 *)

\* A mutant: PushUp that does not wait for room.
PushUpUnbounded(a, ms) == up' = [up EXCEPT ![a] = @ \o ms]

\* A mutant: the newest packet is sent first.
PushUpFront(a, ms) == Len(up[a]) + Len(ms) <= UpCap /\ up' = [up EXCEPT ![a] = ms \o @]

PushUp(a, ms) ==
    /\ Len(up[a]) + Len(ms) <= UpCap
    /\ up' = [up EXCEPT ![a] = @ \o ms]

\* The guru has nobody to push to.
MaybePushUp(n, ms) == IF n = Guru THEN UNCHANGED up ELSE PushUp(n, ms)

\* WriteDownstream of m to the contacts ks.  It blocks while the contact's
\* commands are full; a packet for a connection that is broken is lost.
WriteDownstream(n, ks, m) ==
    IF n = Guru
    THEN LET to == {a \in Aides : Link(a) \in ks /\ link[a] # "down"}
         IN /\ \A a \in to : Len(down[a]) < DownCap
            /\ down' = [a \in Aides |-> IF a \in to THEN Append(down[a], m) ELSE down[a]]
            /\ UNCHANGED outVars
    ELSE /\ IF m.type = "subDown"
            THEN /\ acked' = [c \in Clients |->
                                IF ClientContact(c) \in ks THEN acked[c] \cup {m.topic} ELSE acked[c]]
                 /\ UNCHANGED got
            ELSE /\ got' = [c \in Clients |->
                              IF ClientContact(c) \in ks
                              THEN Append(got[c], [id |-> m.id, by |-> m.by, self |->
                                           ClientContact(c) \in subs[n][m.topic].selfs])
                              ELSE got[c]]
                 /\ UNCHANGED acked
         /\ UNCHANGED down

\* Node n takes the next message of its channel, which is of the given type.
Takes(n, type) ==
    /\ incoming[n] # <<>>
    /\ Head(incoming[n]).type = type
    /\ incoming' = [incoming EXCEPT ![n] = Tail(@)]
    /\ UNCHANGED <<deferred, due, envVars>>

SetEntry(n, t, e) == subs' = [subs EXCEPT ![n][t] = e]

FreshEntry == [w |-> {}, selfs |-> {}, exp |-> 0, bill |-> FALSE, owned |-> FALSE]

\* A mutant: a guru that answers only for a topic it did not have.
AckFirst(n, m) == n = Guru /\ m.ack /\ ~HasEntry(n, m.topic)

\* The guru answers, unless the option noack is there.
Acks(n, m) == n = Guru /\ m.ack

ProcessSubscribe(n) ==
    /\ Takes(n, "sub")
    /\ LET m == Head(incoming[n])
           e == IF HasEntry(n, m.topic) THEN subs[n][m.topic] ELSE FreshEntry
       IN /\ SetEntry(n, m.topic,
               [e EXCEPT !.w = @ \cup {m.from},
                         !.selfs = IF m.self /\ m.from \notin e.w THEN @ \cup {m.from} ELSE @,
                         !.bill = @ \/ m.stats,
                         !.exp = now + SubTTL])
          /\ IF Acks(n, m)
             THEN WriteDownstream(n, {k \in {m.from} : IsOpen(k)}, [m EXCEPT !.type = "subDown"])
             ELSE UNCHANGED <<down, outVars>>
          /\ MaybePushUp(n, <<m>>)
    /\ UNCHANGED linkVars

\* A mutant: the entry goes as soon as one watcher leaves.
LastWatcherGone1(e, k) == ~e.bill

\* nobody here is subscribing anymore
LastWatcherGone(e, k) == e.w \ {k} = {} /\ ~e.bill

ProcessUnsubscribe(n) ==
    /\ Takes(n, "unsub")
    /\ LET m == Head(incoming[n])
           e == subs[n][m.topic]
           left == [e EXCEPT !.w = @ \ {m.from}, !.selfs = @ \ {m.from}]
       IN \/ /\ ~HasEntry(n, m.topic)
             /\ UNCHANGED <<subs, up>>
          \/ /\ HasEntry(n, m.topic) /\ e.owned
             /\ SetEntry(n, m.topic, left)
             /\ MaybePushUp(n, <<m>>)
          \/ /\ HasEntry(n, m.topic) /\ ~e.owned
             /\ IF LastWatcherGone(e, m.from)
                THEN SetEntry(n, m.topic, NoEntry) /\ MaybePushUp(n, <<m>>)
                ELSE SetEntry(n, m.topic, left) /\ UNCHANGED up
    /\ UNCHANGED <<down, linkVars, outVars>>

\* The watchers that are to get a message that contact k published.
Recipients(e, k) == {j \in e.w : j # k \/ j \in e.selfs}

ProcessPublish(n) ==
    /\ Takes(n, "pub")
    /\ LET m == Head(incoming[n])
           e == subs[n][m.topic]
           bad == {j \in e.w \ e.selfs : j # m.from /\ ~IsOpen(j)}
       IN /\ \/ /\ ~HasEntry(n, m.topic)
                /\ UNCHANGED <<subs, down, outVars>>
             \/ /\ HasEntry(n, m.topic) /\ e.bill
                /\ SetEntry(n, m.topic, [e EXCEPT !.exp = now + BillTTL])
                /\ UNCHANGED <<down, outVars>>
             \/ /\ HasEntry(n, m.topic) /\ ~e.bill
                /\ SetEntry(n, m.topic, [e EXCEPT !.exp = now + PubTTL, !.w = @ \ bad])
                /\ WriteDownstream(n, {j \in Recipients(e, m.from) : IsOpen(j)},
                                   [m EXCEPT !.type = "pubDown"])
          /\ MaybePushUp(n, <<m>>)
    /\ UNCHANGED linkVars

\* A message the guru sent: to every watcher, or, when there is no entry any
\* more, an unsubscribe for the guru.
ProcessPublishDown(a) ==
    /\ Takes(a, "pubDown")
    /\ LET m == Head(incoming[a])
           e == subs[a][m.topic]
       IN \/ /\ ~HasEntry(a, m.topic)
             /\ PushUp(a, <<Unsubscription(m.topic)>>)
             /\ UNCHANGED <<subs, down, outVars>>
          \/ /\ HasEntry(a, m.topic)
             /\ SetEntry(a, m.topic, [e EXCEPT !.exp = now + PubTTL])
             /\ WriteDownstream(a, {j \in e.w : IsOpen(j)}, m)
             /\ UNCHANGED up
    /\ UNCHANGED linkVars

\* A suback goes to every watcher.
ProcessSubscribeDown(a) ==
    /\ Takes(a, "subDown")
    /\ LET m == Head(incoming[a])
       IN WriteDownstream(a, {j \in Watchers(a, m.topic) : IsOpen(j)}, m)
    /\ UNCHANGED <<subs, up, linkVars>>

\* A mutant: nothing is subscribed again.
ReSubscribeNothing(a) ==
    /\ Takes(a, "resub")
    /\ link' = [link EXCEPT ![a] = "up"]
    /\ UNCHANGED <<subs, up, down, gen, open, outVars>>

\* A mutant: the wait group is never done.
ReSubscribeNotDone(a) ==
    /\ Takes(a, "resub")
    /\ \E ts \in SetToSeqs({t \in Topics : HasEntry(a, t)}) :
          PushUp(a, [i \in 1..Len(ts) |-> Subscription(ts[i], TRUE)])
    /\ UNCHANGED <<subs, down, linkVars, outVars>>

\* reSubscribeMyTopics, for which the dialing goroutine waits.
ReSubscribeMyTopics(a) ==
    /\ Takes(a, "resub")
    /\ \E ts \in SetToSeqs({t \in Topics : HasEntry(a, t)}) :
          PushUp(a, [i \in 1..Len(ts) |-> Subscription(ts[i], TRUE)])
    /\ link' = [link EXCEPT ![a] = "up"]
    /\ UNCHANGED <<subs, down, gen, open, outVars>>

\* LookupTableStruct.Heartbeat.  A second one waits for the first here, where
\* the code gives up waiting after a second and comes back in ten.
Heartbeat(n) ==
    /\ n \in Beats
    /\ Len(incoming[n]) < InCap
    /\ \A m \in Range(incoming[n]) : m.type # "beat"
    /\ incoming' = [incoming EXCEPT ![n] = Append(@, [Blank EXCEPT !.type = "beat", !.id = now])]
    /\ UNCHANGED <<subs, up, down, linkVars, deferred, outVars, due, envVars>>

\* A mutant: nobody tells the guru.
SilentHeartBeatCallBack(n) ==
    /\ incoming[n] # <<>> /\ Head(incoming[n]).type = "beat"
    /\ subs' = [subs EXCEPT ![n] = [t \in Topics |->
                   LET e == subs[n][t]
                       w == {k \in e.w : IsOpen(k) /\ e.exp >= Head(incoming[n]).id}
                   IN IF HasEntry(n, t) /\ w # {} THEN [e EXCEPT !.w = w, !.selfs = @ \cap w] ELSE NoEntry]]
    /\ incoming' = [incoming EXCEPT ![n] = Tail(@)]
    /\ UNCHANGED <<up, down, linkVars, deferred, outVars, due, envVars>>

\* heartBeatCallBack: closed watchers go, or all of them when the topic is too
\* old; then topics without watchers.  An aide tells the guru about those
\* from another goroutine, DeferredUnsubscribe.
HeartBeatCallBack(n) ==
    /\ incoming[n] # <<>> /\ Head(incoming[n]).type = "beat"
    /\ LET kept(e) == IF e.exp < Head(incoming[n]).id THEN {} ELSE {k \in e.w : IsOpen(k)}
           empty == {t \in Topics : HasEntry(n, t) /\ kept(subs[n][t]) = {}}
           swept(e) == [e EXCEPT !.w = kept(e), !.selfs = @ \cap kept(e)]
       IN /\ subs' = [subs EXCEPT ![n] = [t \in Topics |->
                         IF HasEntry(n, t) /\ t \notin empty THEN swept(subs[n][t]) ELSE NoEntry]]
          /\ deferred' = [a \in Aides |-> IF a = n THEN deferred[a] \cup empty ELSE deferred[a]]
    /\ incoming' = [incoming EXCEPT ![n] = Tail(@)]
    /\ UNCHANGED <<up, down, linkVars, outVars, due, envVars>>

DeferredUnsubscribe(a) ==
    \E t \in deferred[a] :
       /\ PushUp(a, <<Unsubscription(t)>>)
       /\ deferred' = [deferred EXCEPT ![a] = @ \ {t}]
       /\ UNCHANGED <<subs, incoming, down, linkVars, outVars, due, envVars>>

----------------------------------------------------------------------------
(* The connection from an aide to the guru: dialGuruAndServe *)

\* The loop that writes upc.up to the connection, and handleConnection of the
\* guru at the other end.
Pump(a) ==
    /\ link[a] = "up"
    /\ up[a] # <<>>
    /\ Len(incoming[Guru]) < InCap
    /\ incoming' = [incoming EXCEPT ![Guru] = Append(@, [Head(up[a]) EXCEPT !.from = Link(a)])]
    /\ up' = [up EXCEPT ![a] = Tail(@)]
    /\ UNCHANGED <<subs, down, linkVars, deferred, outVars, due, envVars>>

\* ReadPacket from the guru, PushDownFromTop.
Receive(a) ==
    /\ down[a] # <<>>
    /\ Len(incoming[a]) < InCap
    /\ incoming' = [incoming EXCEPT ![a] = Append(@, Head(down[a]))]
    /\ down' = [down EXCEPT ![a] = Tail(@)]
    /\ UNCHANGED <<subs, up, linkVars, deferred, outVars, due, envVars>>

\* The connection fails; what the guru wrote to it and the aide did not read is
\* lost.  So is (PumpIntoTheVoid) what the aide writes until it notices.
Break(a) ==
    /\ link[a] = "up"
    /\ gen[a] < MaxGen
    /\ link' = [link EXCEPT ![a] = "down"]
    /\ down' = [down EXCEPT ![a] = <<>>]
    /\ due' = [i \in DOMAIN due |-> {}]
    /\ UNCHANGED <<subs, incoming, up, gen, open, deferred, outVars, envVars>>

PumpIntoTheVoid(a) ==
    /\ link[a] = "down"
    /\ up[a] # <<>>
    /\ up' = [up EXCEPT ![a] = Tail(@)]
    /\ UNCHANGED <<subs, incoming, down, linkVars, deferred, outVars, due, envVars>>

\* The guru's side of a broken connection fails and its contact closes.
GuruNotices(k) ==
    /\ k \in open
    /\ k # Link(k[1]) \/ link[k[1]] = "down"
    /\ open' = open \ {k}
    /\ UNCHANGED <<subs, incoming, up, down, link, gen, deferred, outVars, due, envVars>>

\* dialGuru dials again; the new connection waits for reSubscribeMyTopics.
Redial(a) ==
    /\ link[a] = "down"
    /\ Len(incoming[a]) < InCap
    /\ gen' = [gen EXCEPT ![a] = @ + 1]
    /\ open' = open \cup {<<a, gen[a] + 1>>}
    /\ link' = [link EXCEPT ![a] = "dialing"]
    /\ incoming' = [incoming EXCEPT ![a] = Append(@, [Blank EXCEPT !.type = "resub"])]
    /\ UNCHANGED <<subs, up, down, deferred, outVars, due, envVars>>

----------------------------------------------------------------------------
ClientStep(c) == ClientSubscribe(c) \/ ClientUnsubscribe(c) \/ ClientPublish(c) \/ ClientClose(c)

Process(n) ==
    \/ ProcessSubscribe(n) \/ ProcessUnsubscribe(n) \/ ProcessPublish(n) \/ HeartBeatCallBack(n)
    \/ n \in Aides /\ (ProcessPublishDown(n) \/ ProcessSubscribeDown(n) \/ ReSubscribeMyTopics(n))

Carry(a) == Pump(a) \/ Receive(a)

Next ==
    \/ \E c \in Clients : ClientStep(c)
    \/ \E n \in Nodes : Process(n) \/ Heartbeat(n)
    \/ \E a \in Aides : Carry(a) \/ DeferredUnsubscribe(a) \/ Break(a) \/ PumpIntoTheVoid(a) \/ Redial(a)
    \/ \E k \in open : GuruNotices(k)
    \/ Tick

Spec == Init /\ [][Next]_vars

\* The goroutines of the nodes run, the heartbeat every ten seconds; clients,
\* failures and the clock need not.  A read of the guru from a broken connection
\* ends, at the latest at its deadline.
FairSpec ==
    /\ Spec
    /\ \A n \in Nodes : WF_vars(Process(n)) /\ WF_vars(Heartbeat(n))
    /\ WF_vars(\E k \in open : GuruNotices(k))
    /\ \A a \in Aides : WF_vars(Pump(a)) /\ WF_vars(Receive(a)) /\ WF_vars(Redial(a))
                        /\ WF_vars(DeferredUnsubscribe(a))
----------------------------------------------------------------------------
(* Properties *)

\* Every variable has its type, and no channel holds more than its capacity.
QueuesOK ==
    /\ incoming \in [Nodes -> Seq(Packets)]
    /\ up \in [Aides -> Seq(Packets)] /\ down \in [Aides -> Seq(Packets)]
    /\ \A n \in Nodes : Len(incoming[n]) <= InCap
    /\ \A a \in Aides : Len(up[a]) <= UpCap /\ Len(down[a]) <= DownCap
TablesOK ==
    /\ subs \in [Nodes -> [Topics -> Entries \cup {NoEntry}]]
    /\ deferred \in [Aides -> SUBSET Topics]
LinksOK ==
    /\ link \in [Aides -> {"down", "dialing", "up"}]
    /\ gen \in [Aides -> Nat]
    /\ open \subseteq Aides \X Nat
OutputOK ==
    /\ acked \in [Clients -> SUBSET Topics]
    /\ got \in [Clients -> Seq([id : Nat, by : Clients \cup {Guru}, self : BOOLEAN])]
ClientsOK ==
    /\ gone \subseteq Clients
    /\ due \in [1..MaxOps -> SUBSET Clients]
    /\ ops \in Nat /\ now \in Nat
TypeOK == QueuesOK /\ TablesOK /\ LinksOK /\ OutputOK /\ ClientsOK

\* A client gets the messages of one publisher in the order they were
\* published and none of them twice, whether they reach it from its own aide
\* or through the guru ("need: system test watching for duplicates").  A client
\* that did not ask for pub2self is not sent what it published, in a system
\* where nobody does (SelfOption = {FALSE}).  When a neighbour asks, the guru
\* sends the message back to the aide and processPublishDown (publish.go:246)
\* gives it to every watcher, the publisher included.
InOrder ==
    \A c \in Clients :
       /\ \A i \in DOMAIN got[c] : got[c][i].by = c => got[c][i].self
       /\ \A i, j \in DOMAIN got[c] :
             i < j /\ got[c][i].by = got[c][j].by => got[c][i].id < got[c][j].id

\* Nothing but heartbeats is on its way.
Quiet ==
    /\ \A n \in Nodes : \A m \in Range(incoming[n]) : m.type = "beat"
    /\ \A a \in Aides : up[a] = <<>> /\ down[a] = <<>>

\* Once nothing is on its way, a message has reached everybody whose
\* subscription was in place when it was published, whatever the other clients
\* of the same topic did meanwhile.
SettledDelivery ==
    Quiet => \A i \in DOMAIN due : \A c \in due[i] : \E j \in DOMAIN got[c] : got[c][j].id = i

\* A connection that failed is replaced: the dialing goroutine gets past
\* waiting for reSubscribeMyTopics.
Reconnects == \A a \in Aides : link[a] # "up" ~> link[a] = "up"

\* A client that stays subscribed gets a suback, unless the connection fails
\* that should have brought it: what is subscribed again is not answered.
SubscribeAnswered ==
    \A c \in Clients, t \in Topics :
       ClientContact(c) \in Watchers(Home[c], t) ~>
          \/ t \in acked[c] \/ c \in gone \/ ClientContact(c) \notin Watchers(Home[c], t)
          \/ gen[Home[c]] > 1

\* When all clients of an aide are gone the guru forgets the aide's interest,
\* that of its broken connections too: the heartbeat of the aide finds the
\* closed contacts and sends the unsubscribe none of them sent, and the
\* heartbeat of the guru finds its own closed contacts.
GoneForgotten ==
    \A a \in Aides, t \in Topics :
       (\A c \in Clients : Home[c] = a => c \in gone) ~>
          (\A k \in Watchers(Guru, t) : k[1] # a)

\* The packets of aide a's present connection about topic t that the guru has
\* not seen yet, oldest first.
OnTheWay(a, t) ==
    LET mine(m) == m.topic = t /\ m.type \in {"sub", "unsub"}
    IN SelectSeq(incoming[Guru], LAMBDA m : mine(m) /\ m.from = Link(a)) \o SelectSeq(up[a], mine)

\* The guru knows of topic t if an aide with a connection has watchers for it:
\* either the aide watches it there, or its subscribe is on the way and no
\* unsubscribe follows it.
Covered(a, t) ==
    link[a] = "up" /\ Watchers(a, t) # {} =>
       IF OnTheWay(a, t) = <<>> THEN Link(a) \in Watchers(Guru, t)
       ELSE Last(OnTheWay(a, t)).type = "sub"

\* The unsubscribe of a heartbeat, which is sent late by a goroutine, takes a
\* topic from the guru that was subscribed to again (subscribe.go:447-474).
Overtaken(a, t) == t \in deferred[a] /\ t \notin deferred'[a]

\* A guru forgets a topic that is too old for it, but not for the aide.
TooOld(t) == HasEntry(Guru, t) /\ subs[Guru][t].exp < now

\* Whatever connections break and are dialed again, and whoever of a topic
\* subscribes, unsubscribes, leaves or is swept, what the guru knows or is
\* about to know of an aide's topics it does not lose but in these two ways.
StaysCovered ==
    [][\A a \in Aides, t \in Topics :
          Covered(a, t) => Covered(a, t)' \/ Overtaken(a, t) \/ TooOld(t)]_vars

(***************************************************************************)
(* A statement that does not hold, for those two (see the README).         *)
(***************************************************************************)
Coverage == \A a \in Aides, t \in Topics : Covered(a, t)
=============================================================================

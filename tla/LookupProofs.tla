---------------------------- MODULE LookupProofs ----------------------------
(***************************************************************************)
(* Proofs about Lookup, for any clients, aides, topics and capacities: the *)
(* type invariant, that every client gets the messages of a publisher in   *)
(* the order they were published and none twice, and that it gets every    *)
(* message it must get.                                                    *)
(***************************************************************************)
EXTENDS Lookup, SequenceTheorems, FiniteSetTheorems, TLAPS
----------------------------------------------------------------------------
(* What may be where *)

\* No connection fails.
Steady == MaxGen <= 1

\* Neither does any, nor does a client ask for what it publishes itself.
Calm == Steady /\ SelfOption \subseteq {FALSE}

\* No connection fails, no topic is one of billing and none expires.
Undisturbed == Steady /\ StatsOption \subseteq {FALSE} /\ Beats = {}

Requests == {"sub", "unsub", "pub"}

\* The contacts that may watch a topic at node n.
WatchersAt(n) ==
    IF n = Guru THEN Aides \X Nat ELSE {ClientContact(c) : c \in {d \in Clients : Home[d] = n}}

\* A message that a client of aide a published.
FromAide(a, m) == m.by \in Clients /\ Home[m.by] = a

\* What the channel of an aide holds: what its clients send, what comes down
\* and what it tells itself.
AideIn(a) ==
    {m \in Packets :
        /\ m.type \in Requests => m.from \in WatchersAt(a)
        /\ m.type = "pub" => FromAide(a, m) /\ m.from = ClientContact(m.by)
        /\ m.type = "pubDown" => m.by \in Clients /\ (Calm => Home[m.by] # a)
        /\ Calm => ~m.self
        /\ Steady => m.type # "resub"
        /\ Undisturbed => ~m.stats /\ m.type # "beat"}

\* What it sends the guru.
AideUp(a) ==
    {m \in Packets :
        /\ m.type \in Requests
        /\ m.type = "pub" => FromAide(a, m)
        /\ Calm => ~m.self
        /\ Undisturbed => ~m.stats}

\* What the channel of the guru holds.
GuruIn ==
    {m \in Packets :
        /\ m.type \in Requests \cup {"beat"}
        /\ m.type \in Requests => m.from \in WatchersAt(Guru) /\ (Steady => m.from[2] = 1)
        /\ m.type = "pub" => FromAide(m.from[1], m)
        /\ Calm => ~m.self
        /\ Undisturbed => ~m.stats /\ m.type # "beat"}

\* What the guru sends aide a.
AideDown(a) ==
    {m \in Packets :
        /\ m.type \in {"subDown", "pubDown"}
        /\ m.type = "pubDown" => m.by \in Clients /\ (Calm => Home[m.by] # a)
        /\ Calm => ~m.self
        /\ Undisturbed => ~m.stats}

In(n) == IF n = Guru THEN GuruIn ELSE AideIn(n)

\* Every packet is of a kind that belongs where it is, and there are no more of
\* them than there is room for.
InInv ==
    /\ incoming \in [Nodes -> Seq(Packets)]
    /\ \A n \in Nodes : incoming[n] \in Seq(In(n)) /\ Len(incoming[n]) <= InCap
UpInv ==
    /\ up \in [Aides -> Seq(Packets)]
    /\ \A a \in Aides : up[a] \in Seq(AideUp(a)) /\ Len(up[a]) <= UpCap
DownInv ==
    /\ down \in [Aides -> Seq(Packets)]
    /\ \A a \in Aides : down[a] \in Seq(AideDown(a)) /\ Len(down[a]) <= DownCap

\* A topic is watched by contacts of the node.
EntriesAt(n) ==
    {e \in Entries : /\ e.w \subseteq WatchersAt(n)
                     /\ n # Guru => ~e.owned
                     /\ Calm => e.selfs = {}
                     /\ Undisturbed => ~e.bill}

\* Unsubscribes are deferred by heartbeats only.
WatchInv ==
    /\ \A n \in Nodes, t \in Topics : HasEntry(n, t) => subs[n][t] \in EntriesAt(n)
    /\ Undisturbed => \A a \in Aides : deferred[a] = {}

\* Without a failure every aide keeps its first connection.
SteadyInv ==
    Steady => \A a \in Aides : link[a] = "up" /\ gen[a] = 1 /\ <<a, 1>> \in open

\* What clients receive comes from clients, and from others if nobody asks for
\* what it publishes itself.
GotInv == \A c \in Clients : \A i \in 1..Len(got[c]) :
              got[c][i].by \in Clients /\ (Calm => got[c][i].by # c)

IInv == /\ InInv /\ UpInv /\ DownInv
        /\ TablesOK /\ WatchInv
        /\ LinksOK /\ SteadyInv
        /\ OutputOK /\ GotInv
        /\ ClientsOK
----------------------------------------------------------------------------
(* Sequences and records *)

\* What appending one element does, element by element.
LEMMA AppendElements ==
    ASSUME NEW S, NEW s \in Seq(S), NEW e \in S
    PROVE  /\ Append(s, e) \in Seq(S)
           /\ Len(Append(s, e)) = Len(s) + 1
           /\ Len(s) \in Nat
           /\ \A i \in 1..Len(s) : Append(s, e)[i] = s[i]
           /\ Append(s, e)[Len(s) + 1] = e
BY AppendProperties, LenProperties

\* A sequence of one element.
LEMMA SingletonSeq == ASSUME NEW S, NEW e \in S PROVE <<e>> \in Seq(S)
OBVIOUS

\* What dropping the first element does, element by element.
LEMMA TailElements ==
    ASSUME NEW S, NEW s \in Seq(S), s # <<>>
    PROVE  /\ Tail(s) \in Seq(S)
           /\ Head(s) \in S /\ Head(s) = s[1]
           /\ Len(s) \in Nat \ {0}
           /\ Len(Tail(s)) = Len(s) - 1
           /\ \A i \in 1..(Len(s) - 1) : Tail(s)[i] = s[i + 1]
BY HeadTailProperties, LenProperties

\* The packets the nodes make are packets.
LEMMA MadePackets ==
    /\ Blank \in Packets
    /\ \A t \in Topics, b \in BOOLEAN : Subscription(t, b) \in Packets
    /\ \A t \in Topics : Unsubscription(t) \in Packets
<1>1. (CHOOSE t \in Topics : TRUE) \in Topics
  BY LookupAssumption
<1>2. Blank \in Packets
  BY <1>1 DEF Blank, Packets, PacketTypes
<1>3. \A t \in Topics, b \in BOOLEAN : Subscription(t, b) \in Packets
  BY <1>2 DEF Subscription, Packets
<1>4. \A t \in Topics : Unsubscription(t) \in Packets
  BY <1>2 DEF Unsubscription, Packets, PacketTypes
<1>5. QED
  BY <1>2, <1>3, <1>4

\* A packet stays one when it gets another type, another origin or another
\* number.
LEMMA ChangedPackets ==
    ASSUME NEW m \in Packets
    PROVE  /\ \A ty \in PacketTypes : [m EXCEPT !.type = ty] \in Packets
           /\ \A k \in Contacts : [m EXCEPT !.from = k] \in Packets
           /\ m.type \in PacketTypes /\ m.topic \in Topics /\ m.id \in Nat
           /\ m.by \in Clients \cup {Guru} /\ m.self \in BOOLEAN /\ m.stats \in BOOLEAN
           /\ m.ack \in BOOLEAN /\ m.from \in Contacts \cup {<<Guru, 0>>}
BY DEF Packets

\* The contacts of clients and of aides are contacts.
LEMMA ContactsOK ==
    /\ \A c \in Clients : ClientContact(c) \in Contacts
    /\ LinksOK => \A a \in Aides : Link(a) \in Contacts
BY DEF Contacts, ClientContact, Link, LinksOK

\* What belongs somewhere is a packet.
LEMMA KindsArePackets ==
    /\ \A n \in Nodes : In(n) \subseteq Packets
    /\ \A a \in Aides : AideUp(a) \subseteq Packets /\ AideDown(a) \subseteq Packets
    /\ In(Guru) = GuruIn /\ \A a \in Aides : In(a) = AideIn(a)
BY LookupAssumption DEF In, GuruIn, AideIn, AideUp, AideDown

\* What the nodes make belongs where they put it.
LEMMA MadeKinds ==
    /\ \A t \in Topics, b \in BOOLEAN, a \in Aides : Subscription(t, b) \in AideUp(a)
    /\ \A t \in Topics, a \in Aides : Unsubscription(t) \in AideUp(a)
    /\ \A n \in Nodes, i \in Nat : ~Undisturbed => [Blank EXCEPT !.type = "beat", !.id = i] \in In(n)
    /\ \A a \in Aides : ~Steady => [Blank EXCEPT !.type = "resub"] \in In(a)
<1>1. Blank \in Packets /\ ~Blank.self /\ ~Blank.stats
  BY MadePackets DEF Blank
<1>2. ASSUME NEW t \in Topics, NEW b \in BOOLEAN, NEW a \in Aides
      PROVE  Subscription(t, b) \in AideUp(a)
  <2>1. Subscription(t, b) \in Packets
    BY MadePackets
  <2>2. Subscription(t, b).type = "sub" /\ ~Subscription(t, b).self /\ ~Subscription(t, b).stats
    BY DEF Subscription, Blank
  <2>3. QED
    BY <2>1, <2>2 DEF AideUp, Requests
<1>3. ASSUME NEW t \in Topics, NEW a \in Aides
      PROVE  Unsubscription(t) \in AideUp(a)
  <2>1. Unsubscription(t) \in Packets
    BY MadePackets
  <2>2. Unsubscription(t).type = "unsub" /\ ~Unsubscription(t).self /\ ~Unsubscription(t).stats
    BY DEF Unsubscription, Blank
  <2>3. QED
    BY <2>1, <2>2 DEF AideUp, Requests
<1>4. ASSUME NEW n \in Nodes, NEW i \in Nat, ~Undisturbed
      PROVE  [Blank EXCEPT !.type = "beat", !.id = i] \in In(n)
  <2> DEFINE m == [Blank EXCEPT !.type = "beat", !.id = i]
  <2>1. m \in Packets
    BY <1>1 DEF Packets, PacketTypes
  <2>2. m.type = "beat" /\ ~m.self
    BY DEF Blank
  <2> HIDE DEF m
  <2>3. QED
    BY <1>4, <2>1, <2>2 DEF In, GuruIn, AideIn, Requests, m
<1>5. ASSUME NEW a \in Aides, ~Steady
      PROVE  [Blank EXCEPT !.type = "resub"] \in In(a)
  <2> DEFINE m == [Blank EXCEPT !.type = "resub"]
  <2>1. m \in Packets
    BY <1>1, ChangedPackets DEF PacketTypes
  <2>2. m.type = "resub" /\ ~m.self
    BY DEF Blank
  <2> HIDE DEF m
  <2>3. m \in AideIn(a)
    BY <1>5, <2>1, <2>2 DEF AideIn, Requests, Undisturbed
  <2>4. QED
    BY <2>3, KindsArePackets DEF m
<1>6. QED
  BY <1>2, <1>3, <1>4, <1>5
----------------------------------------------------------------------------
(* The channels, one operation at a time *)

\* Putting a packet that belongs there into the channel of a node.
LEMMA InGrows ==
    ASSUME InInv, NEW n \in Nodes, NEW m \in In(n), Len(incoming[n]) < InCap,
           incoming' = [incoming EXCEPT ![n] = Append(@, m)]
    PROVE  InInv'
<1>1. /\ incoming \in [Nodes -> Seq(Packets)] /\ m \in Packets
      /\ incoming[n] \in Seq(In(n))
  BY KindsArePackets DEF InInv
<1>2. Append(incoming[n], m) \in Seq(Packets) /\ Append(incoming[n], m) \in Seq(In(n))
      /\ Len(Append(incoming[n], m)) <= InCap
  BY <1>1, AppendElements, LookupAssumption
<1>3. QED
  BY <1>1, <1>2 DEF InInv

\* Taking a packet out of it.
LEMMA InShrinks ==
    ASSUME InInv, NEW n \in Nodes, incoming[n] # <<>>,
           incoming' = [incoming EXCEPT ![n] = Tail(@)]
    PROVE  InInv' /\ Head(incoming[n]) \in In(n) /\ Head(incoming[n]) \in Packets
<1>1. incoming \in [Nodes -> Seq(Packets)] /\ incoming[n] \in Seq(In(n)) /\ Len(incoming[n]) <= InCap
  BY DEF InInv
<1>2. /\ Tail(incoming[n]) \in Seq(Packets) /\ Tail(incoming[n]) \in Seq(In(n))
      /\ Len(Tail(incoming[n])) <= InCap
      /\ Head(incoming[n]) \in In(n) /\ Head(incoming[n]) \in Packets
  BY <1>1, TailElements, LookupAssumption
<1>3. QED
  BY <1>1, <1>2 DEF InInv

\* PushUp of packets that belong there.
LEMMA PushUpOK ==
    ASSUME UpInv, NEW a \in Aides, NEW ms \in Seq(AideUp(a)), PushUp(a, ms)
    PROVE  UpInv'
<1>1. up[a] \in Seq(Packets) /\ up \in [Aides -> Seq(Packets)] /\ up[a] \in Seq(AideUp(a))
  BY DEF UpInv
<1>2. ms \in Seq(Packets)
  BY KindsArePackets, SeqMonotonic
<1>3. /\ up[a] \o ms \in Seq(Packets) /\ Len(up[a] \o ms) <= UpCap
      /\ up[a] \o ms \in Seq(AideUp(a))
  BY <1>1, <1>2, ConcatProperties DEF PushUp
<1>4. QED
  BY <1>1, <1>3 DEF PushUp, UpInv

\* Taking a packet out of upc.up.
LEMMA UpShrinks ==
    ASSUME UpInv, NEW a \in Aides, up[a] # <<>>, up' = [up EXCEPT ![a] = Tail(@)]
    PROVE  UpInv' /\ Head(up[a]) \in AideUp(a)
<1>1. up \in [Aides -> Seq(Packets)] /\ up[a] \in Seq(AideUp(a)) /\ Len(up[a]) <= UpCap
  BY DEF UpInv
<1>2. /\ Tail(up[a]) \in Seq(Packets) /\ Tail(up[a]) \in Seq(AideUp(a))
      /\ Len(Tail(up[a])) <= UpCap /\ Head(up[a]) \in AideUp(a)
  BY <1>1, TailElements, LookupAssumption
<1>3. QED
  BY <1>1, <1>2 DEF UpInv

\* The guru pushes nothing up.
LEMMA MaybePushUpOK ==
    ASSUME UpInv, NEW n \in Nodes, NEW ms, n # Guru => ms \in Seq(AideUp(n)), MaybePushUp(n, ms)
    PROVE  UpInv'
<1>1. CASE n = Guru
  BY <1>1 DEF MaybePushUp, UpInv
<1>2. CASE n # Guru
  <2>1. n \in Aides /\ PushUp(n, ms) /\ ms \in Seq(AideUp(n))
    BY <1>2 DEF Nodes, MaybePushUp
  <2>2. QED
    BY <2>1, PushUpOK
<1>3. QED
  BY <1>1, <1>2

\* Putting a packet on the way down to an aide, or writing it to clients.
LEMMA WriteDownstreamOK ==
    ASSUME DownInv, OutputOK, GotInv, NEW n \in Nodes, NEW ks, NEW m \in Packets,
           WriteDownstream(n, ks, m),
           n = Guru => \A a \in Aides : Link(a) \in ks => m \in AideDown(a),
           n # Guru /\ m.type # "subDown" =>
              m.by \in Clients /\ (Calm => ClientContact(m.by) \notin ks)
    PROVE  DownInv' /\ OutputOK' /\ GotInv'
<1>1. CASE n = Guru
  <2> DEFINE to == {a \in Aides : Link(a) \in ks /\ link[a] # "down"}
  <2>1. /\ \A a \in to : Len(down[a]) < DownCap
        /\ down' = [a \in Aides |-> IF a \in to THEN Append(down[a], m) ELSE down[a]]
        /\ UNCHANGED <<acked, got>>
    BY <1>1 DEF WriteDownstream, outVars
  <2>2. \A a \in to : m \in AideDown(a)
    BY <1>1
  <2>3. \A a \in Aides : /\ down[a] \in Seq(Packets) /\ down[a] \in Seq(AideDown(a))
                         /\ Len(down[a]) \in Nat /\ Len(down[a]) <= DownCap
    BY LenProperties DEF DownInv
  <2> HIDE DEF to
  <2>4. ASSUME NEW a \in to, a \in Aides
        PROVE  /\ Append(down[a], m) \in Seq(Packets)
               /\ Append(down[a], m) \in Seq(AideDown(a))
               /\ Len(Append(down[a], m)) <= DownCap
    BY <2>1, <2>2, <2>3, <2>4, AppendElements, LookupAssumption
  <2>5. DownInv'
    BY <2>1, <2>3, <2>4 DEF DownInv
  <2>6. QED
    BY <2>1, <2>5 DEF OutputOK, GotInv
<1>2. CASE n # Guru /\ m.type = "subDown"
  <2>1. m.topic \in Topics
    BY ChangedPackets
  <2>2. /\ acked' = [c \in Clients |->
                      IF ClientContact(c) \in ks THEN acked[c] \cup {m.topic} ELSE acked[c]]
        /\ UNCHANGED <<got, down>>
    BY <1>2 DEF WriteDownstream
  <2>3. acked \in [Clients -> SUBSET Topics]
    BY DEF OutputOK
  <2>4. acked' \in [Clients -> SUBSET Topics]
    BY <2>1, <2>2, <2>3
  <2>5. DownInv' /\ GotInv'
    BY <2>2 DEF DownInv, GotInv
  <2>6. QED
    BY <2>2, <2>4, <2>5 DEF OutputOK
<1>3. CASE n # Guru /\ m.type # "subDown"
  <2> DEFINE G == [id : Nat, by : Clients \cup {Guru}, self : BOOLEAN]
             g(c) == [id |-> m.id, by |-> m.by, self |-> ClientContact(c) \in subs[n][m.topic].selfs]
  <2>1. \A c \in Clients : g(c) \in G /\ g(c).by = m.by
    <3>1. m.id \in Nat /\ m.by \in Clients \cup {Guru}
      BY ChangedPackets
    <3>2. QED
      BY <3>1
  <2>2. /\ got' = [c \in Clients |-> IF ClientContact(c) \in ks THEN Append(got[c], g(c)) ELSE got[c]]
        /\ UNCHANGED <<acked, down>>
    BY <1>3 DEF WriteDownstream
  <2>3. got \in [Clients -> Seq(G)]
    BY DEF OutputOK
  <2> HIDE DEF G, g
  <2>4. \A c \in Clients : /\ Append(got[c], g(c)) \in Seq(G)
                           /\ Len(Append(got[c], g(c))) = Len(got[c]) + 1
                           /\ Len(got[c]) \in Nat
                           /\ \A i \in 1..Len(got[c]) : Append(got[c], g(c))[i] = got[c][i]
                           /\ Append(got[c], g(c))[Len(got[c]) + 1] = g(c)
    BY <2>1, <2>3, AppendElements
  <2>5. got' \in [Clients -> Seq(G)]
    BY <2>2, <2>3, <2>4
  <2>6. GotInv'
    <3>1. ASSUME NEW c \in Clients, NEW i \in 1..Len(got'[c])
          PROVE  got'[c][i].by \in Clients /\ (Calm => got'[c][i].by # c)
      <4>1. CASE ClientContact(c) \notin ks
        BY <2>2, <3>1, <4>1 DEF GotInv
      <4>2. CASE ClientContact(c) \in ks
        <5>1. got'[c] = Append(got[c], g(c))
          BY <2>2, <4>2
        <5>2. CASE i \in 1..Len(got[c])
          BY <2>4, <5>1, <5>2 DEF GotInv
        <5>3. CASE i = Len(got[c]) + 1
          <6>1. got'[c][i].by = m.by
            BY <2>1, <2>4, <5>1, <5>3
          <6>2. QED
            BY <1>3, <4>2, <6>1
        <5>4. QED
          BY <2>4, <3>1, <5>1, <5>2, <5>3
      <4>3. QED
        BY <4>1, <4>2
    <3>2. QED
      BY <3>1 DEF GotInv
  <2>7. QED
    BY <2>2, <2>5, <2>6 DEF G, DownInv, OutputOK
<1>4. QED
  BY <1>1, <1>2, <1>3
----------------------------------------------------------------------------
(* The tables *)

\* Setting an entry of node n to one that belongs there, or to none.
LEMMA SetEntryOK ==
    ASSUME TablesOK, WatchInv, NEW n \in Nodes, NEW t \in Topics,
           NEW e \in EntriesAt(n) \cup {NoEntry},
           SetEntry(n, t, e), UNCHANGED deferred
    PROVE  TablesOK' /\ WatchInv'
<1>1. e \in Entries \cup {NoEntry}
  BY DEF EntriesAt
<1>2. subs \in [Nodes -> [Topics -> Entries \cup {NoEntry}]]
      /\ subs' = [subs EXCEPT ![n][t] = e]
  BY DEF TablesOK, SetEntry
<1>3. TablesOK'
  BY <1>1, <1>2 DEF TablesOK
<1>4. ASSUME NEW k \in Nodes, NEW u \in Topics, HasEntry(k, u)'
      PROVE  subs'[k][u] \in EntriesAt(k)
  <2>1. CASE k = n /\ u = t
    BY <1>2, <1>4, <2>1 DEF HasEntry
  <2>2. CASE ~(k = n /\ u = t)
    <3>1. subs'[k][u] = subs[k][u]
      BY <1>2, <2>2
    <3>2. QED
      BY <1>4, <3>1 DEF HasEntry, WatchInv
  <2>3. QED
    BY <2>1, <2>2
<1>5. EntriesAt(Guru)' = EntriesAt(Guru) /\ \A k \in Nodes : EntriesAt(k)' = EntriesAt(k)
  BY DEF EntriesAt, WatchersAt, ClientContact
<1>6. QED
  BY <1>3, <1>4, <1>5 DEF WatchInv

\* A topic with an entry has one that belongs there.
LEMMA EntryOf ==
    ASSUME TablesOK, WatchInv, NEW n \in Nodes, NEW t \in Topics, HasEntry(n, t)
    PROVE  subs[n][t] \in EntriesAt(n) /\ subs[n][t] \in Entries
BY DEF WatchInv, EntriesAt

\* The contacts of a node are contacts.
LEMMA WatchersAreContacts == \A n \in Nodes : WatchersAt(n) \subseteq Contacts
BY DEF WatchersAt, Contacts, ClientContact, Nodes

\* What the operations make of an entry belongs to the node as well.
LEMMA ChangedEntries ==
    ASSUME NEW n \in Nodes, NEW e \in EntriesAt(n)
    PROVE  /\ \A x \in Nat : [e EXCEPT !.exp = x] \in EntriesAt(n)
           /\ \A w \in SUBSET e.w, x \in Nat : [e EXCEPT !.exp = x, !.w = w] \in EntriesAt(n)
           /\ \A w \in SUBSET e.w : [e EXCEPT !.w = w, !.selfs = @ \cap w] \in EntriesAt(n)
           /\ \A k : [e EXCEPT !.w = @ \ {k}, !.selfs = @ \ {k}] \in EntriesAt(n)
BY WatchersAreContacts DEF EntriesAt, Entries
----------------------------------------------------------------------------
(* Steps of clients *)

\* What a step does not touch stays as it should be.
LEMMA Untouched ==
    /\ InInv /\ UNCHANGED incoming => InInv'
    /\ UpInv /\ UNCHANGED up => UpInv'
    /\ DownInv /\ UNCHANGED down => DownInv'
    /\ TablesOK /\ WatchInv /\ UNCHANGED <<subs, deferred>> => TablesOK' /\ WatchInv'
    /\ LinksOK /\ SteadyInv /\ UNCHANGED linkVars => LinksOK' /\ SteadyInv'
    /\ OutputOK /\ GotInv /\ UNCHANGED outVars => OutputOK' /\ GotInv'
    /\ ClientsOK /\ UNCHANGED <<due, envVars>> => ClientsOK'
<1>1. InInv /\ UNCHANGED incoming => InInv'
  BY DEF InInv
<1>2. UpInv /\ UNCHANGED up => UpInv'
  BY DEF UpInv
<1>3. DownInv /\ UNCHANGED down => DownInv'
  BY DEF DownInv
<1>4. TablesOK /\ WatchInv /\ UNCHANGED <<subs, deferred>> => TablesOK' /\ WatchInv'
  BY DEF TablesOK, WatchInv, HasEntry
<1>5. LinksOK /\ SteadyInv /\ UNCHANGED linkVars => LinksOK' /\ SteadyInv'
  BY DEF LinksOK, SteadyInv, linkVars
<1>6. OutputOK /\ GotInv /\ UNCHANGED outVars => OutputOK' /\ GotInv'
  BY DEF OutputOK, GotInv, outVars
<1>7. ClientsOK /\ UNCHANGED <<due, envVars>> => ClientsOK'
  BY DEF ClientsOK, envVars
<1>8. QED
  BY <1>1, <1>2, <1>3, <1>4, <1>5, <1>6, <1>7

LEMMA InitOK == Init => IInv
<1> SUFFICES ASSUME Init PROVE IInv
  OBVIOUS
<1>1. \A S : <<>> \in Seq(S) /\ Len(<<>>) = 0
  BY EmptySeq
<1>2. InInv /\ UpInv /\ DownInv
  BY <1>1, LookupAssumption DEF Init, InInv, UpInv, DownInv
<1>3. TablesOK /\ WatchInv
  <2> DEFINE e == [w |-> {}, selfs |-> {}, exp |-> MaxTime, bill |-> FALSE, owned |-> TRUE]
  <2>1. e \in Entries /\ e \in EntriesAt(Guru)
    BY LookupAssumption DEF Entries, EntriesAt
  <2>2. /\ subs = [n \in Nodes |-> [t \in Topics |->
                      IF n = Guru /\ t \in OwnedTopics THEN e ELSE NoEntry]]
        /\ deferred = [a \in Aides |-> {}]
    BY DEF Init
  <2> HIDE DEF e
  <2>3. QED
    BY <2>1, <2>2 DEF TablesOK, WatchInv, HasEntry
<1>4. LinksOK /\ SteadyInv
  BY DEF Init, LinksOK, SteadyInv
<1>5. OutputOK /\ GotInv
  BY <1>1 DEF Init, OutputOK, GotInv
<1>6. ClientsOK
  BY LookupAssumption DEF Init, ClientsOK
<1>7. QED
  BY <1>2, <1>3, <1>4, <1>5, <1>6 DEF IInv

\* A client hands its aide a packet that belongs there.
LEMMA QueueOK ==
    ASSUME IInv, NEW c \in Clients, NEW m,
           [m EXCEPT !.from = ClientContact(c)] \in AideIn(Home[c]), Queue(c, m)
    PROVE  /\ InInv' /\ UpInv' /\ DownInv' /\ TablesOK' /\ WatchInv'
           /\ LinksOK' /\ SteadyInv' /\ OutputOK' /\ GotInv'
           /\ gone' \subseteq Clients /\ ops' \in Nat /\ now' \in Nat
           /\ ops + 1 \in 1..MaxOps
<1>1. Home[c] \in Aides /\ Home[c] \in Nodes /\ In(Home[c]) = AideIn(Home[c])
  BY LookupAssumption, KindsArePackets DEF Nodes
<1>2. InInv'
  BY <1>1, InGrows DEF Queue, IInv
<1>3. UpInv' /\ DownInv' /\ TablesOK' /\ WatchInv'
      /\ LinksOK' /\ SteadyInv' /\ OutputOK' /\ GotInv'
  BY Untouched DEF Queue, IInv
<1>4. UNCHANGED <<gone, now>> /\ ops < MaxOps /\ ops' = ops + 1
  BY DEF Queue
<1>5. gone \subseteq Clients /\ ops \in Nat /\ now \in Nat /\ MaxOps \in Nat
  BY LookupAssumption DEF IInv, ClientsOK
<1>6. ops' \in Nat /\ ops + 1 \in 1..MaxOps
  BY <1>4, <1>5
<1>7. QED
  BY <1>2, <1>3, <1>4, <1>5, <1>6

LEMMA ClientSubscribeOK ==
    ASSUME IInv, NEW c \in Clients, ClientSubscribe(c)
    PROVE  IInv'
<1>1. PICK t \in Topics, self \in SelfOption, stats \in StatsOption :
         Queue(c, [Subscription(t, FALSE) EXCEPT !.self = self, !.stats = stats])
  BY DEF ClientSubscribe
<1>2. PICK m : m = [Subscription(t, FALSE) EXCEPT !.self = self, !.stats = stats]
  OBVIOUS
<1>3. PICK n : n = [m EXCEPT !.from = ClientContact(c)]
  OBVIOUS
<1>4. Subscription(t, FALSE) \in Packets /\ Subscription(t, FALSE).type = "sub"
  BY MadePackets DEF Subscription, Blank
<1>5. self \in BOOLEAN /\ stats \in BOOLEAN /\ (Calm => ~self) /\ (Undisturbed => ~stats)
  BY LookupAssumption DEF Calm, Undisturbed
<1>6. m \in Packets /\ m.type = "sub" /\ m.self = self /\ m.stats = stats
  BY <1>2, <1>4, <1>5 DEF Packets
<1>7. n \in Packets /\ n.type = "sub" /\ n.self = self /\ n.stats = stats /\ n.from = ClientContact(c)
  BY <1>3, <1>6, ContactsOK DEF Packets
<1>8. n \in AideIn(Home[c])
  BY <1>5, <1>7, LookupAssumption DEF AideIn, WatchersAt
<1>9. Queue(c, m)
  BY <1>1, <1>2
<1>10. ClientsOK'
  BY <1>3, <1>8, <1>9, QueueOK DEF ClientSubscribe, IInv, ClientsOK
<1>11. QED
  BY <1>3, <1>8, <1>9, <1>10, QueueOK DEF IInv

\* A client that expects nothing any more.
LEMMA ReleaseOK ==
    ASSUME ClientsOK, NEW c \in Clients, Release(c)
    PROVE  due' \in [1..MaxOps -> SUBSET Clients]
BY DEF ClientsOK, Release

LEMMA ClientUnsubscribeOK ==
    ASSUME IInv, NEW c \in Clients, ClientUnsubscribe(c)
    PROVE  IInv'
<1>1. PICK t \in Topics : Queue(c, Unsubscription(t))
  BY DEF ClientUnsubscribe
<1>2. PICK m : m = Unsubscription(t)
  OBVIOUS
<1>3. PICK n : n = [m EXCEPT !.from = ClientContact(c)]
  OBVIOUS
<1>4. m \in Packets /\ m.type = "unsub" /\ ~m.self /\ ~m.stats
  BY <1>2, MadePackets DEF Unsubscription, Blank
<1>5. n \in Packets /\ n.type = "unsub" /\ ~n.self /\ ~n.stats /\ n.from = ClientContact(c)
  BY <1>3, <1>4, ContactsOK DEF Packets
<1>6. n \in AideIn(Home[c])
  BY <1>5, LookupAssumption DEF AideIn, WatchersAt
<1>7. Queue(c, m)
  BY <1>1, <1>2
<1>8. ClientsOK'
  BY <1>3, <1>6, <1>7, QueueOK, ReleaseOK DEF ClientUnsubscribe, IInv, ClientsOK
<1>9. QED
  BY <1>3, <1>6, <1>7, <1>8, QueueOK DEF IInv

LEMMA ClientPublishOK ==
    ASSUME IInv, NEW c \in Clients, ClientPublish(c)
    PROVE  IInv'
<1>1. PICK t \in Topics :
         /\ Queue(c, [Blank EXCEPT !.type = "pub", !.topic = t, !.id = ops + 1, !.by = c])
         /\ due' = [due EXCEPT ![ops + 1] = {d \in Clients \ (gone \cup {c}) : Settled(d, t)}]
  BY DEF ClientPublish
<1>2. PICK m : m = [Blank EXCEPT !.type = "pub", !.topic = t, !.id = ops + 1, !.by = c]
  OBVIOUS
<1>3. PICK n : n = [m EXCEPT !.from = ClientContact(c)]
  OBVIOUS
<1>4. ops + 1 \in Nat
  BY DEF IInv, ClientsOK
<1>5. m \in Packets /\ m.type = "pub" /\ ~m.self /\ ~m.stats /\ m.by = c
  <2>1. Blank \in Packets /\ ~Blank.self /\ ~Blank.stats
    BY MadePackets DEF Blank
  <2>2. QED
    BY <1>2, <1>4, <2>1 DEF Packets, PacketTypes
<1>6. n \in Packets /\ n.type = "pub" /\ ~n.self /\ ~n.stats /\ n.by = c /\ n.from = ClientContact(c)
  BY <1>3, <1>5, ContactsOK DEF Packets
<1>7. n \in AideIn(Home[c])
  BY <1>6, LookupAssumption DEF AideIn, WatchersAt, FromAide
<1>8. Queue(c, m)
  BY <1>1, <1>2
<1>9. ClientsOK'
  <2>1. {d \in Clients \ (gone \cup {c}) : Settled(d, t)} \in SUBSET Clients
    OBVIOUS
  <2>2. due' \in [1..MaxOps -> SUBSET Clients]
    BY <1>1, <2>1 DEF IInv, ClientsOK
  <2>3. QED
    BY <1>3, <1>7, <1>8, <2>2, QueueOK DEF ClientsOK
<1>10. QED
  BY <1>3, <1>7, <1>8, <1>9, QueueOK DEF IInv

LEMMA ClientCloseOK ==
    ASSUME IInv, NEW c \in Clients, ClientClose(c)
    PROVE  IInv'
<1>1. ClientsOK'
  BY ReleaseOK DEF ClientClose, IInv, ClientsOK
<1>2. QED
  BY <1>1, Untouched DEF ClientClose, IInv

LEMMA TickOK == ASSUME IInv, Tick PROVE IInv'
<1>1. ClientsOK'
  BY DEF Tick, IInv, ClientsOK
<1>2. QED
  BY <1>1, Untouched DEF Tick, IInv
----------------------------------------------------------------------------
(* Steps of nodes *)

\* A node takes the next packet, which belongs there.
LEMMA TakesOK ==
    ASSUME IInv, NEW n \in Nodes, NEW type, Takes(n, type)
    PROVE  /\ InInv' /\ ClientsOK' /\ UNCHANGED deferred
           /\ Head(incoming[n]) \in In(n) /\ Head(incoming[n]) \in Packets
           /\ Head(incoming[n]).type = type
           /\ now \in Nat
<1>1. /\ InInv' /\ Head(incoming[n]) \in In(n) /\ Head(incoming[n]) \in Packets
  BY InShrinks DEF Takes, IInv
<1>2. ClientsOK' /\ now \in Nat
  BY Untouched DEF Takes, IInv, ClientsOK
<1>3. QED
  BY <1>1, <1>2 DEF Takes

\* A request a node passes on to the guru as it is belongs there.
LEMMA PassedOn ==
    ASSUME NEW n \in Nodes, NEW m \in In(n), m.type \in Requests
    PROVE  n # Guru => n \in Aides /\ m \in AideUp(n) /\ <<m>> \in Seq(AideUp(n))
<1>1. n # Guru => n \in Aides /\ m \in AideIn(n)
  BY DEF In, Nodes
<1>2. n # Guru => m \in AideUp(n)
  BY <1>1 DEF AideIn, AideUp
<1>3. QED
  BY <1>1, <1>2

LEMMA ProcessSubscribeOK ==
    ASSUME IInv, NEW n \in Nodes, ProcessSubscribe(n)
    PROVE  IInv'
<1>1. PICK m : m = Head(incoming[n])
  OBVIOUS
<1>2. PICK e : e = IF HasEntry(n, m.topic) THEN subs[n][m.topic] ELSE FreshEntry
  OBVIOUS
<1>3. PICK x : x = [e EXCEPT !.w = @ \cup {m.from},
                             !.selfs = IF m.self /\ m.from \notin e.w THEN @ \cup {m.from} ELSE @,
                             !.bill = @ \/ m.stats,
                             !.exp = now + SubTTL]
  OBVIOUS
<1>4. PICK d : d = [m EXCEPT !.type = "subDown"]
  OBVIOUS
<1>5. /\ Takes(n, "sub")
      /\ SetEntry(n, m.topic, x)
      /\ IF Acks(n, m) THEN WriteDownstream(n, {k \in {m.from} : IsOpen(k)}, d)
                       ELSE UNCHANGED <<down, outVars>>
      /\ MaybePushUp(n, <<m>>)
      /\ UNCHANGED linkVars
  BY <1>1, <1>2, <1>3, <1>4 DEF ProcessSubscribe
<1>6. /\ InInv' /\ ClientsOK' /\ UNCHANGED deferred /\ now \in Nat
      /\ m \in In(n) /\ m \in Packets /\ m.type = "sub"
  BY <1>1, <1>5, TakesOK
<1>7. UpInv'
  BY <1>5, <1>6, PassedOn, MaybePushUpOK DEF IInv, Requests
<1>8. TablesOK' /\ WatchInv'
  <2>1. m.from \in WatchersAt(n) /\ (Calm => ~m.self) /\ (Undisturbed => ~m.stats)
    BY <1>6 DEF In, GuruIn, AideIn, Requests
  <2>2. m.topic \in Topics /\ m.stats \in BOOLEAN
    BY <1>6, ChangedPackets
  <2>3. e \in EntriesAt(n)
    <3>1. CASE HasEntry(n, m.topic)
      BY <1>2, <2>2, <3>1, EntryOf DEF IInv
    <3>2. CASE ~HasEntry(n, m.topic)
      BY <1>2, <3>2 DEF FreshEntry, EntriesAt, Entries
    <3>3. QED
      BY <3>1, <3>2
  <2>4. now + SubTTL \in Nat
    BY <1>6, LookupAssumption
  <2>5. m.from \in Contacts
    BY <2>1, WatchersAreContacts
  <2>6. x \in EntriesAt(n)
    BY <1>3, <2>1, <2>2, <2>3, <2>4, <2>5 DEF EntriesAt, Entries
  <2>7. QED
    BY <1>5, <1>6, <2>2, <2>6, SetEntryOK DEF IInv
<1>9. DownInv' /\ OutputOK' /\ GotInv'
  <2>1. CASE ~Acks(n, m)
    BY <1>5, <2>1, Untouched DEF IInv
  <2>2. CASE Acks(n, m)
    <3>1. n = Guru /\ m \in GuruIn
      BY <1>6, <2>2, KindsArePackets DEF Acks
    <3>2. d \in Packets /\ d.type = "subDown" /\ d.self = m.self /\ d.stats = m.stats
      BY <1>4, <1>6, ChangedPackets DEF Packets, PacketTypes
    <3>3. \A a \in Aides : d \in AideDown(a)
      BY <3>1, <3>2 DEF GuruIn, AideDown
    <3>4. QED
      BY <1>5, <2>2, <3>1, <3>2, <3>3, WriteDownstreamOK DEF IInv
  <2>3. QED
    BY <2>1, <2>2
<1>10. LinksOK' /\ SteadyInv'
  BY <1>5, Untouched DEF IInv
<1>11. QED
  BY <1>6, <1>7, <1>8, <1>9, <1>10 DEF IInv

LEMMA ProcessUnsubscribeOK ==
    ASSUME IInv, NEW n \in Nodes, ProcessUnsubscribe(n)
    PROVE  IInv'
<1>1. PICK m : m = Head(incoming[n])
  OBVIOUS
<1>2. PICK left : left = [subs[n][m.topic] EXCEPT !.w = @ \ {m.from}, !.selfs = @ \ {m.from}]
  OBVIOUS
<1>3. Takes(n, "unsub") /\ UNCHANGED <<down, linkVars, outVars>>
  BY DEF ProcessUnsubscribe
<1>4. /\ \/ UNCHANGED subs
         \/ HasEntry(n, m.topic) /\ SetEntry(n, m.topic, left)
         \/ SetEntry(n, m.topic, NoEntry)
      /\ UNCHANGED up \/ MaybePushUp(n, <<m>>)
  BY <1>1, <1>2 DEF ProcessUnsubscribe
<1>5. /\ InInv' /\ ClientsOK' /\ UNCHANGED deferred
      /\ m \in In(n) /\ m \in Packets /\ m.type = "unsub"
  BY <1>1, <1>3, TakesOK
<1>6. UpInv'
  BY <1>4, <1>5, PassedOn, MaybePushUpOK, Untouched DEF IInv, Requests
<1>7. TablesOK' /\ WatchInv'
  <2>1. m.topic \in Topics
    BY <1>5, ChangedPackets
  <2>2. CASE UNCHANGED subs
    BY <1>5, <2>2, Untouched DEF IInv
  <2>3. CASE HasEntry(n, m.topic) /\ SetEntry(n, m.topic, left)
    <3>1. left \in EntriesAt(n)
      BY <1>2, <2>1, <2>3, EntryOf, ChangedEntries DEF IInv
    <3>2. QED
      BY <1>5, <2>1, <2>3, <3>1, SetEntryOK DEF IInv
  <2>4. CASE SetEntry(n, m.topic, NoEntry)
    BY <1>5, <2>1, <2>4, SetEntryOK DEF IInv
  <2>5. QED
    BY <1>4, <2>2, <2>3, <2>4
<1>8. DownInv' /\ OutputOK' /\ GotInv' /\ LinksOK' /\ SteadyInv'
  BY <1>3, Untouched DEF IInv
<1>9. QED
  BY <1>5, <1>6, <1>7, <1>8 DEF IInv

LEMMA ProcessPublishOK ==
    ASSUME IInv, NEW n \in Nodes, ProcessPublish(n)
    PROVE  IInv'
<1>1. PICK m : m = Head(incoming[n])
  OBVIOUS
<1>2. PICK e : e = subs[n][m.topic]
  OBVIOUS
<1>3. PICK d : d = [m EXCEPT !.type = "pubDown"]
  OBVIOUS
<1>4. PICK ks : ks = {j \in Recipients(e, m.from) : IsOpen(j)}
  OBVIOUS
<1>5. PICK w : w = e.w \ {j \in e.w \ e.selfs : j # m.from /\ ~IsOpen(j)}
  OBVIOUS
<1>6. Takes(n, "pub") /\ MaybePushUp(n, <<m>>) /\ UNCHANGED linkVars
  BY <1>1 DEF ProcessPublish
<1>7. \/ UNCHANGED <<subs, down, outVars>>
      \/ /\ HasEntry(n, m.topic)
         /\ SetEntry(n, m.topic, [e EXCEPT !.exp = now + BillTTL])
         /\ UNCHANGED <<down, outVars>>
      \/ /\ HasEntry(n, m.topic)
         /\ SetEntry(n, m.topic, [e EXCEPT !.exp = now + PubTTL, !.w = w])
         /\ WriteDownstream(n, ks, d)
  BY <1>1, <1>2, <1>3, <1>4, <1>5 DEF ProcessPublish
<1>8. /\ InInv' /\ ClientsOK' /\ UNCHANGED deferred /\ now \in Nat
      /\ m \in In(n) /\ m \in Packets /\ m.type = "pub"
  BY <1>1, <1>6, TakesOK
<1>9. UpInv'
  BY <1>6, <1>8, PassedOn, MaybePushUpOK DEF IInv, Requests
<1>10. HasEntry(n, m.topic) => e \in EntriesAt(n)
  BY <1>2, <1>8, ChangedPackets, EntryOf DEF IInv
<1>11. TablesOK' /\ WatchInv'
  <2>1. m.topic \in Topics /\ now + BillTTL \in Nat /\ now + PubTTL \in Nat
    BY <1>8, ChangedPackets, LookupAssumption
  <2>2. CASE UNCHANGED subs
    BY <1>8, <2>2, Untouched DEF IInv
  <2>3. CASE HasEntry(n, m.topic) /\ SetEntry(n, m.topic, [e EXCEPT !.exp = now + BillTTL])
    <3>1. [e EXCEPT !.exp = now + BillTTL] \in EntriesAt(n)
      BY <1>10, <2>1, <2>3, ChangedEntries
    <3>2. QED
      BY <1>8, <2>1, <2>3, <3>1, SetEntryOK DEF IInv
  <2>4. CASE HasEntry(n, m.topic) /\ SetEntry(n, m.topic, [e EXCEPT !.exp = now + PubTTL, !.w = w])
    <3>1. w \in SUBSET e.w
      BY <1>5
    <3>2. [e EXCEPT !.exp = now + PubTTL, !.w = w] \in EntriesAt(n)
      BY <1>10, <2>1, <2>4, <3>1, ChangedEntries
    <3>3. QED
      BY <1>8, <2>1, <2>4, <3>2, SetEntryOK DEF IInv
  <2>5. QED
    BY <1>7, <2>2, <2>3, <2>4
<1>12. DownInv' /\ OutputOK' /\ GotInv'
  <2>1. CASE UNCHANGED <<down, outVars>>
    BY <2>1, Untouched DEF IInv
  <2>2. CASE HasEntry(n, m.topic) /\ WriteDownstream(n, ks, d)
    <3>1. d \in Packets /\ d.type = "pubDown" /\ d.self = m.self /\ d.stats = m.stats /\ d.by = m.by
      BY <1>3, <1>8, ChangedPackets DEF Packets, PacketTypes
    <3>2. m.by \in Clients /\ (Calm => ~m.self) /\ (Undisturbed => ~m.stats)
      BY <1>8 DEF In, GuruIn, AideIn, FromAide
    <3>3. Calm => m.from \notin ks
      BY <1>4, <1>10, <2>2 DEF Recipients, EntriesAt
    <3>4. CASE n = Guru
      <4>1. ASSUME NEW a \in Aides, Link(a) \in ks, Calm
            PROVE  Home[d.by] # a
        <5>1. m.from[1] = Home[d.by] /\ m.from \in Aides \X Nat /\ m.from[2] = 1
          BY <1>8, <3>1, <3>4, <4>1 DEF In, GuruIn, FromAide, Requests, WatchersAt, Calm
        <5>2. Link(a) = <<a, 1>>
          BY <4>1 DEF IInv, SteadyInv, Link, Calm
        <5>3. QED
          BY <3>3, <4>1, <5>1, <5>2
      <4>2. \A a \in Aides : Link(a) \in ks => d \in AideDown(a)
        BY <3>1, <3>2, <4>1 DEF AideDown
      <4>3. QED
        BY <2>2, <3>1, <3>4, <4>2, WriteDownstreamOK DEF IInv
    <3>5. CASE n # Guru
      <4>1. m.from = ClientContact(d.by)
        BY <1>8, <3>1, <3>5 DEF In, AideIn
      <4>2. QED
        BY <2>2, <3>1, <3>2, <3>3, <3>5, <4>1, WriteDownstreamOK DEF IInv
    <3>6. QED
      BY <3>4, <3>5
  <2>3. QED
    BY <1>7, <2>1, <2>2
<1>13. LinksOK' /\ SteadyInv'
  BY <1>6, Untouched DEF IInv
<1>14. QED
  BY <1>8, <1>9, <1>11, <1>12, <1>13 DEF IInv

LEMMA ProcessPublishDownOK ==
    ASSUME IInv, NEW a \in Aides, ProcessPublishDown(a)
    PROVE  IInv'
<1>1. PICK m : m = Head(incoming[a])
  OBVIOUS
<1>2. PICK e : e = subs[a][m.topic]
  OBVIOUS
<1>3. PICK ks : ks = {j \in e.w : IsOpen(j)}
  OBVIOUS
<1>4. Takes(a, "pubDown") /\ UNCHANGED linkVars
  BY DEF ProcessPublishDown
<1>5. \/ PushUp(a, <<Unsubscription(m.topic)>>) /\ UNCHANGED <<subs, down, outVars>>
      \/ /\ HasEntry(a, m.topic)
         /\ SetEntry(a, m.topic, [e EXCEPT !.exp = now + PubTTL])
         /\ WriteDownstream(a, ks, m)
         /\ UNCHANGED up
  BY <1>1, <1>2, <1>3 DEF ProcessPublishDown
<1>6. a \in Nodes /\ a # Guru /\ In(a) = AideIn(a)
  BY LookupAssumption, KindsArePackets DEF Nodes
<1>7. /\ InInv' /\ ClientsOK' /\ UNCHANGED deferred /\ now \in Nat
      /\ m \in AideIn(a) /\ m \in Packets /\ m.type = "pubDown"
  BY <1>1, <1>4, <1>6, TakesOK
<1>8. m.topic \in Topics /\ now + PubTTL \in Nat
  BY <1>7, ChangedPackets, LookupAssumption
<1>9. CASE PushUp(a, <<Unsubscription(m.topic)>>) /\ UNCHANGED <<subs, down, outVars>>
  <2>1. Unsubscription(m.topic) \in AideUp(a)
    BY <1>8, MadeKinds
  <2>2. UpInv'
    BY <1>9, <2>1, SingletonSeq, PushUpOK DEF IInv
  <2>3. QED
    BY <1>4, <1>7, <1>9, <2>2, Untouched DEF IInv
<1>10. CASE /\ HasEntry(a, m.topic)
            /\ SetEntry(a, m.topic, [e EXCEPT !.exp = now + PubTTL])
            /\ WriteDownstream(a, ks, m)
            /\ UNCHANGED up
  <2>1. e \in EntriesAt(a)
    BY <1>2, <1>6, <1>8, <1>10, EntryOf DEF IInv
  <2>2. [e EXCEPT !.exp = now + PubTTL] \in EntriesAt(a)
    BY <1>6, <1>8, <2>1, ChangedEntries
  <2>3. TablesOK' /\ WatchInv'
    BY <1>6, <1>7, <1>8, <1>10, <2>2, SetEntryOK DEF IInv
  <2>4. m.by \in Clients /\ (Calm => ClientContact(m.by) \notin ks)
    BY <1>3, <1>6, <1>7, <2>1 DEF AideIn, EntriesAt, WatchersAt, ClientContact
  <2>5. DownInv' /\ OutputOK' /\ GotInv'
    BY <1>6, <1>7, <1>10, <2>4, WriteDownstreamOK DEF IInv
  <2>6. QED
    BY <1>4, <1>7, <1>10, <2>3, <2>5, Untouched DEF IInv
<1>11. QED
  BY <1>5, <1>9, <1>10

LEMMA ProcessSubscribeDownOK ==
    ASSUME IInv, NEW a \in Aides, ProcessSubscribeDown(a)
    PROVE  IInv'
<1>1. PICK m : m = Head(incoming[a])
  OBVIOUS
<1>2. PICK ks : ks = {j \in Watchers(a, m.topic) : IsOpen(j)}
  OBVIOUS
<1>3. Takes(a, "subDown") /\ UNCHANGED <<subs, up, linkVars>> /\ WriteDownstream(a, ks, m)
  BY <1>1, <1>2 DEF ProcessSubscribeDown
<1>4. a \in Nodes /\ a # Guru
  BY LookupAssumption DEF Nodes
<1>5. InInv' /\ ClientsOK' /\ UNCHANGED deferred /\ m \in Packets /\ m.type = "subDown"
  BY <1>1, <1>3, <1>4, TakesOK
<1>6. DownInv' /\ OutputOK' /\ GotInv'
  BY <1>3, <1>4, <1>5, WriteDownstreamOK DEF IInv
<1>7. QED
  BY <1>3, <1>5, <1>6, Untouched DEF IInv

\* The subscriptions that are sent again fit the type of upc.up.
LEMMA ReSubscribeMyTopicsOK ==
    ASSUME IInv, NEW a \in Aides, ReSubscribeMyTopics(a)
    PROVE  IInv'
<1>1. PICK ts \in SetToSeqs({t \in Topics : HasEntry(a, t)}) :
         PushUp(a, [i \in 1..Len(ts) |-> Subscription(ts[i], TRUE)])
  BY DEF ReSubscribeMyTopics
<1>2. Takes(a, "resub") /\ UNCHANGED <<subs, down, gen, open, outVars>>
      /\ link' = [link EXCEPT ![a] = "up"]
  BY DEF ReSubscribeMyTopics
<1>3. a \in Nodes /\ In(a) = AideIn(a)
  BY KindsArePackets DEF Nodes
<1>4. /\ InInv' /\ ClientsOK' /\ UNCHANGED deferred
      /\ Head(incoming[a]) \in AideIn(a) /\ Head(incoming[a]).type = "resub"
  BY <1>2, <1>3, TakesOK
<1>5. ~Steady
  BY <1>4 DEF AideIn
<1>6. ts \in Seq(Topics)
  <2> DEFINE S == {t \in Topics : HasEntry(a, t)}
  <2>1. S \subseteq Topics /\ Cardinality(S) \in Nat
    BY LookupAssumption, FS_Subset, FS_CardinalityType
  <2>2. ts \in [1..Cardinality(S) -> S]
    BY <1>1 DEF SetToSeqs
  <2> HIDE DEF S
  <2>3. QED
    BY <2>1, <2>2
<1>7. Len(ts) \in Nat /\ \A i \in 1..Len(ts) : ts[i] \in Topics
  BY <1>6, LenProperties, ElementOfSeq
<1>8. \A i \in 1..Len(ts) : Subscription(ts[i], TRUE) \in AideUp(a)
  BY <1>7, MadeKinds
<1>9. PICK ms : ms = [i \in 1..Len(ts) |-> Subscription(ts[i], TRUE)]
  OBVIOUS
<1>10. UpInv'
  <2>1. ms \in [1..Len(ts) -> AideUp(a)]
    BY <1>8, <1>9
  <2>2. ms \in Seq(AideUp(a))
    BY <1>7, <2>1
  <2>3. QED
    BY <1>1, <1>9, <2>2, PushUpOK DEF IInv
<1>11. LinksOK' /\ SteadyInv'
  BY <1>2, <1>5 DEF IInv, LinksOK, SteadyInv
<1>12. QED
  BY <1>2, <1>4, <1>10, <1>11, Untouched DEF IInv

LEMMA HeartbeatOK ==
    ASSUME IInv, NEW n \in Nodes, Heartbeat(n)
    PROVE  IInv'
<1>1. [Blank EXCEPT !.type = "beat", !.id = now] \in In(n)
  BY MadeKinds DEF Heartbeat, Undisturbed, IInv, ClientsOK
<1>2. InInv'
  BY <1>1, InGrows DEF Heartbeat, IInv
<1>3. QED
  BY <1>2, Untouched DEF Heartbeat, IInv

\* What the heartbeat keeps of an entry is an entry of the node.
LEMMA HeartBeatCallBackOK ==
    ASSUME IInv, NEW n \in Nodes, HeartBeatCallBack(n)
    PROVE  IInv'
<1> DEFINE kept(e) == IF e.exp < Head(incoming[n]).id THEN {} ELSE {k \in e.w : IsOpen(k)}
           empty == {t \in Topics : HasEntry(n, t) /\ kept(subs[n][t]) = {}}
           swept(e) == [e EXCEPT !.w = kept(e), !.selfs = @ \cap kept(e)]
           entry(t) == IF HasEntry(n, t) /\ t \notin empty THEN swept(subs[n][t]) ELSE NoEntry
<1>1. /\ incoming[n] # <<>> /\ incoming' = [incoming EXCEPT ![n] = Tail(@)]
      /\ UNCHANGED <<up, down, linkVars, outVars, due, envVars>>
      /\ subs' = [subs EXCEPT ![n] = [t \in Topics |-> entry(t)]]
      /\ deferred' = [a \in Aides |-> IF a = n THEN deferred[a] \cup empty ELSE deferred[a]]
  BY DEF HeartBeatCallBack
<1>2. InInv' /\ ~Undisturbed
  <2>1. InInv' /\ Head(incoming[n]) \in In(n) /\ Head(incoming[n]).type = "beat"
    BY <1>1, InShrinks DEF HeartBeatCallBack, IInv
  <2>2. QED
    BY <2>1 DEF In, GuruIn, AideIn
<1>3. \A e : kept(e) \in SUBSET e.w
  OBVIOUS
<1>4. empty \subseteq Topics
  OBVIOUS
<1>5. ASSUME NEW t \in Topics
      PROVE  entry(t) \in EntriesAt(n) \cup {NoEntry}
  <2>1. CASE HasEntry(n, t) /\ t \notin empty
    <3>1. PICK e : e = subs[n][t]
      OBVIOUS
    <3>2. e \in EntriesAt(n)
      BY <2>1, <3>1, EntryOf DEF IInv
    <3>3. PICK w : w = kept(e)
      OBVIOUS
    <3>4. entry(t) = [e EXCEPT !.w = w, !.selfs = @ \cap w]
      BY <2>1, <3>1, <3>3
    <3>5. QED
      BY <1>3, <3>2, <3>3, <3>4, ChangedEntries
  <2>2. CASE ~(HasEntry(n, t) /\ t \notin empty)
    BY <2>2
  <2>3. QED
    BY <2>1, <2>2
<1> HIDE DEF entry, empty, kept, swept
<1>6. TablesOK'
  <2>1. EntriesAt(n) \subseteq Entries
    BY DEF EntriesAt
  <2>2. subs \in [Nodes -> [Topics -> Entries \cup {NoEntry}]] /\ deferred \in [Aides -> SUBSET Topics]
    BY DEF IInv, TablesOK
  <2>3. [t \in Topics |-> entry(t)] \in [Topics -> Entries \cup {NoEntry}]
    BY <1>5, <2>1
  <2>4. subs' \in [Nodes -> [Topics -> Entries \cup {NoEntry}]]
    BY <1>1, <2>2, <2>3
  <2>5. deferred' \in [Aides -> SUBSET Topics]
    BY <1>1, <1>4, <2>2
  <2>6. QED
    BY <2>4, <2>5 DEF TablesOK
<1>7. WatchInv'
  <2>1. ASSUME NEW k \in Nodes, NEW t \in Topics, subs'[k][t] # NoEntry
        PROVE  subs'[k][t] \in EntriesAt(k)
    <3>1. subs \in [Nodes -> [Topics -> Entries \cup {NoEntry}]]
      BY DEF IInv, TablesOK
    <3>2. CASE k = n
      <4>1. subs'[k][t] = entry(t)
        BY <1>1, <3>1, <3>2
      <4>2. QED
        BY <1>5, <2>1, <3>2, <4>1
    <3>3. CASE k # n
      <4>1. subs'[k][t] = subs[k][t]
        BY <1>1, <3>1, <3>3
      <4>2. QED
        BY <2>1, <4>1 DEF IInv, WatchInv, HasEntry
    <3>4. QED
      BY <3>2, <3>3
  <2>2. QED
    BY <1>2, <2>1 DEF WatchInv, HasEntry
<1>8. QED
  BY <1>1, <1>2, <1>6, <1>7, Untouched DEF IInv

LEMMA DeferredUnsubscribeOK ==
    ASSUME IInv, NEW a \in Aides, DeferredUnsubscribe(a)
    PROVE  IInv'
<1>1. PICK t \in deferred[a] :
         /\ PushUp(a, <<Unsubscription(t)>>)
         /\ deferred' = [deferred EXCEPT ![a] = @ \ {t}]
         /\ UNCHANGED <<subs, incoming, down, linkVars, outVars, due, envVars>>
  BY DEF DeferredUnsubscribe
<1>2. t \in Topics
  BY DEF IInv, TablesOK
<1>3. Unsubscription(t) \in AideUp(a)
  BY <1>2, MadeKinds
<1>4. UpInv'
  BY <1>1, <1>3, SingletonSeq, PushUpOK DEF IInv
<1>5. TablesOK' /\ WatchInv'
  BY <1>1 DEF IInv, TablesOK, WatchInv, HasEntry
<1>6. QED
  BY <1>1, <1>4, <1>5, Untouched DEF IInv
----------------------------------------------------------------------------
(* Steps of the connections *)

\* What an aide sends is, at the guru, from the aide's connection.
LEMMA PumpOK ==
    ASSUME IInv, NEW a \in Aides, Pump(a)
    PROVE  IInv'
<1>1. PICK m : m = Head(up[a])
  OBVIOUS
<1>2. PICK x : x = [m EXCEPT !.from = Link(a)]
  OBVIOUS
<1>3. /\ up[a] # <<>> /\ up' = [up EXCEPT ![a] = Tail(@)]
      /\ Len(incoming[Guru]) < InCap
      /\ incoming' = [incoming EXCEPT ![Guru] = Append(@, x)]
      /\ UNCHANGED <<subs, down, linkVars, deferred, outVars, due, envVars>>
  BY <1>1, <1>2 DEF Pump
<1>4. UpInv' /\ m \in AideUp(a)
  BY <1>1, <1>3, UpShrinks DEF IInv
<1>5. Link(a) \in Contacts /\ Link(a) \in Aides \X Nat /\ Link(a)[1] = a /\ (Steady => Link(a)[2] = 1)
  BY ContactsOK DEF IInv, LinksOK, SteadyInv, Link
<1>6. /\ x \in Packets /\ x.from = Link(a) /\ x.type = m.type /\ x.by = m.by /\ x.self = m.self /\ x.stats = m.stats
  BY <1>2, <1>4, <1>5, ChangedPackets DEF AideUp, Packets
<1>7. x \in GuruIn
  BY <1>4, <1>5, <1>6 DEF AideUp, GuruIn, Requests, WatchersAt, FromAide
<1>8. InInv'
  BY <1>3, <1>7, KindsArePackets, InGrows DEF IInv, Nodes
<1>9. QED
  BY <1>3, <1>4, <1>8, Untouched DEF IInv

\* Taking a packet the guru sent off its way down.
LEMMA DownShrinks ==
    ASSUME DownInv, NEW a \in Aides, down[a] # <<>>, down' = [down EXCEPT ![a] = Tail(@)]
    PROVE  DownInv' /\ Head(down[a]) \in AideDown(a)
<1>1. down \in [Aides -> Seq(Packets)] /\ down[a] \in Seq(AideDown(a)) /\ Len(down[a]) <= DownCap
  BY DEF DownInv
<1>2. /\ Tail(down[a]) \in Seq(Packets) /\ Tail(down[a]) \in Seq(AideDown(a))
      /\ Len(Tail(down[a])) <= DownCap /\ Head(down[a]) \in AideDown(a)
  BY <1>1, TailElements, LookupAssumption
<1>3. QED
  BY <1>1, <1>2 DEF DownInv

LEMMA ReceiveOK ==
    ASSUME IInv, NEW a \in Aides, Receive(a)
    PROVE  IInv'
<1>1. DownInv' /\ Head(down[a]) \in AideDown(a)
  BY DownShrinks DEF Receive, IInv
<1>2. Head(down[a]) \in AideIn(a)
  BY <1>1 DEF AideDown, AideIn, Requests
<1>3. InInv'
  BY <1>2, KindsArePackets, InGrows DEF Receive, IInv, Nodes
<1>4. QED
  BY <1>1, <1>3, Untouched DEF Receive, IInv

LEMMA BreakOK ==
    ASSUME IInv, NEW a \in Aides, Break(a)
    PROVE  IInv'
<1>1. ~Steady
  <2>1. gen[a] < MaxGen /\ (Steady => gen[a] = 1)
    BY DEF Break, IInv, SteadyInv
  <2>2. Steady => MaxGen <= 1
    BY DEF Steady
  <2>3. QED
    BY <2>1, <2>2, LookupAssumption
<1>2. LinksOK' /\ SteadyInv'
  BY <1>1 DEF Break, IInv, LinksOK, SteadyInv
<1>3. DownInv'
  <2>1. \A S : <<>> \in Seq(S) /\ Len(<<>>) = 0
    BY EmptySeq
  <2>2. QED
    BY <2>1, LookupAssumption DEF Break, IInv, DownInv
<1>4. ClientsOK'
  BY DEF Break, IInv, ClientsOK, envVars
<1>5. QED
  BY <1>2, <1>3, <1>4, Untouched DEF Break, IInv

LEMMA PumpIntoTheVoidOK ==
    ASSUME IInv, NEW a \in Aides, PumpIntoTheVoid(a)
    PROVE  IInv'
<1>1. UpInv'
  BY UpShrinks DEF PumpIntoTheVoid, IInv
<1>2. QED
  BY <1>1, Untouched DEF PumpIntoTheVoid, IInv

LEMMA GuruNoticesOK ==
    ASSUME IInv, NEW k \in open, GuruNotices(k)
    PROVE  IInv'
<1>1. LinksOK' /\ SteadyInv'
  BY DEF GuruNotices, IInv, LinksOK, SteadyInv, Link
<1>2. QED
  BY <1>1, Untouched DEF GuruNotices, IInv

LEMMA RedialOK ==
    ASSUME IInv, NEW a \in Aides, Redial(a)
    PROVE  IInv'
<1>1. ~Steady
  BY DEF Redial, IInv, SteadyInv
<1>2. LinksOK' /\ SteadyInv'
  BY <1>1 DEF Redial, IInv, LinksOK, SteadyInv
<1>3. [Blank EXCEPT !.type = "resub"] \in In(a)
  BY <1>1, MadeKinds
<1>4. InInv'
  BY <1>3, InGrows DEF Redial, IInv, Nodes
<1>5. QED
  BY <1>2, <1>4, Untouched DEF Redial, IInv
----------------------------------------------------------------------------
(* Every step *)

LEMMA StepOK == IInv /\ [Next]_vars => IInv'
<1> SUFFICES ASSUME IInv, [Next]_vars PROVE IInv'
  OBVIOUS
<1>1. CASE UNCHANGED vars
  BY <1>1, Untouched DEF vars, IInv
<1>2. CASE \E c \in Clients : ClientStep(c)
  BY <1>2, ClientSubscribeOK, ClientUnsubscribeOK, ClientPublishOK, ClientCloseOK DEF ClientStep
<1>3. CASE \E n \in Nodes : Process(n)
  BY <1>3, ProcessSubscribeOK, ProcessUnsubscribeOK, ProcessPublishOK, HeartBeatCallBackOK,
     ProcessPublishDownOK, ProcessSubscribeDownOK, ReSubscribeMyTopicsOK DEF Process
<1>4. CASE \E n \in Nodes : Heartbeat(n)
  BY <1>4, HeartbeatOK
<1>5. CASE \E a \in Aides : Carry(a)
  BY <1>5, PumpOK, ReceiveOK DEF Carry
<1>6. CASE \E a \in Aides : DeferredUnsubscribe(a) \/ Break(a) \/ PumpIntoTheVoid(a) \/ Redial(a)
  BY <1>6, DeferredUnsubscribeOK, BreakOK, PumpIntoTheVoidOK, RedialOK
<1>7. CASE \E k \in open : GuruNotices(k)
  BY <1>7, GuruNoticesOK
<1>8. CASE Tick
  BY <1>8, TickOK
<1>9. QED
  BY <1>1, <1>2, <1>3, <1>4, <1>5, <1>6, <1>7, <1>8 DEF Next

\* Every variable keeps its type and no channel holds more than its capacity,
\* for any topology, any failures and any order of the goroutines.
THEOREM LookupTypeOK == Spec => []TypeOK
<1>1. IInv => TypeOK
  BY DEF IInv, TypeOK, InInv, UpInv, DownInv, QueuesOK
<1>2. QED
  BY InitOK, StepOK, <1>1, PTL DEF Spec
----------------------------------------------------------------------------
(* The order of messages *)

\* What a place on the way of a message holds: packets, or at its end what a
\* client received.
Receipts == [id : Nat, by : Clients \cup {Guru}, self : BOOLEAN]
Carried == Packets \cup Receipts

\* The way of what p publishes to client c, from its end to its start: of each
\* place the packets in it, and which of them are on this way.
Messages(type, p) == {m \in Packets : m.type = type /\ m.by = p}
Received(p) == {g \in Receipts : g.by = p}

LocalWay(c, p) == <<got[c], incoming[Home[p]]>>
OnLocalWay(p) == <<Received(p), Messages("pub", p)>>

RemoteWay(c, p) == <<got[c], incoming[Home[c]], down[Home[c]],
                     incoming[Guru], up[Home[p]], incoming[Home[p]]>>
OnRemoteWay(p) == <<Received(p), Messages("pubDown", p), Messages("pubDown", p),
                    Messages("pub", p), Messages("pub", p), Messages("pub", p)>>

\* Along way F the messages, those in R, have rising numbers, all at most max.
Ordered(F, R, max) ==
    \A k, l \in DOMAIN F : \A i \in 1..Len(F[k]), j \in 1..Len(F[l]) :
        F[k][i] \in R[k] /\ F[l][j] \in R[l] =>
           /\ F[k][i].id <= max
           /\ k < l \/ (k = l /\ i < j) => F[k][i].id < F[l][j].id

OrderInv ==
    Calm => \A c, p \in Clients :
        IF Home[c] = Home[p] THEN Ordered(LocalWay(c, p), OnLocalWay(p), ops)
                             ELSE Ordered(RemoteWay(c, p), OnRemoteWay(p), ops)

\* A place may lose its first packet, or get one that is not on the way.
Dropped(q, r) == q # <<>> /\ r = Tail(q)
Shifts(q, r, R) == \/ r = q \/ Dropped(q, r)
                   \/ \E x \in Carried : r = Append(q, x) /\ x \notin R

\* It may get the first packet of the place before it, s.
Passes(q, r, s, t, T) ==
    \E x \in Carried : r = Append(q, x) /\ Dropped(s, t) /\ Head(s) \in T /\ x.id = Head(s).id

\* The first place may get a new message.
Enters(q, r, id) == \E x \in Carried : r = Append(q, x) /\ x.id = id

Gets(q, r, R, s, t, T) == Shifts(q, r, R) \/ Passes(q, r, s, t, T)
Starts(q, r, R, max, max2) == Shifts(q, r, R) \/ (max2 = max + 1 /\ Enters(q, r, max2))

\* Where a message that is in G after a step was in F before it.
Stayed(F, G, R, k, i) ==
    \E h \in 1..Len(F[k]) : /\ F[k][h] \in R[k] /\ F[k][h].id = G[k][i].id
                            /\ Dropped(F[k], G[k]) => h > 1
Moved(F, G, R, k, i) ==
    /\ i = Len(G[k]) /\ k + 1 \in DOMAIN F
    /\ 1 \in 1..Len(F[k + 1]) /\ F[k + 1][1] \in R[k + 1]
    /\ F[k + 1][1].id = G[k][i].id /\ Dropped(F[k + 1], G[k + 1])

\* A step of a way with N places, which are what they are in F and become what
\* they are in G.
WayStep(N, F, G, R, max, max2) ==
    /\ DOMAIN F = 1..N /\ DOMAIN G = 1..N
    /\ \A k \in 1..N : F[k] \in Seq(Carried) /\ R[k] \subseteq Carried
    /\ \A k \in 1..N : \/ Shifts(F[k], G[k], R[k])
                       \/ k < N /\ Passes(F[k], G[k], F[k + 1], G[k + 1], R[k + 1])
                       \/ k = N /\ max2 = max + 1 /\ Enters(F[k], G[k], max2)

\* Such a step of each of the two ways.
LocalMoves(F, G, p, max, max2) ==
    /\ Gets(F[1], G[1], Received(p), F[2], G[2], Messages("pub", p))
    /\ Starts(F[2], G[2], Messages("pub", p), max, max2)

RemoteMoves(F, G, p, max, max2) ==
    LET P == Messages("pub", p)
        D == Messages("pubDown", p)
    IN /\ Gets(F[1], G[1], Received(p), F[2], G[2], D)
       /\ Gets(F[2], G[2], D, F[3], G[3], D)
       /\ Gets(F[3], G[3], D, F[4], G[4], P)
       /\ Gets(F[4], G[4], P, F[5], G[5], P)
       /\ Gets(F[5], G[5], P, F[6], G[6], P)
       /\ Starts(F[6], G[6], P, max, max2)

\* Steps of a way keep the messages in order.
LEMMA OrderKept ==
    ASSUME NEW N \in Nat \ {0}, NEW F, NEW G, NEW R, NEW max \in Nat, NEW max2 \in {max, max + 1},
           WayStep(N, F, G, R, max, max2), Ordered(F, R, max)
    PROVE  Ordered(G, R, max2)
<1> USE DEF WayStep
<1>1. \A x \in Carried : x.id \in Nat
  BY DEF Carried, Packets, Receipts
<1>2. ASSUME NEW k \in 1..N, NEW l \in 1..N, NEW i \in 1..Len(F[k]), NEW j \in 1..Len(F[l]),
             F[k][i] \in R[k], F[l][j] \in R[l]
      PROVE  /\ F[k][i].id <= max /\ F[k][i].id \in Nat
             /\ k < l \/ (k = l /\ i < j) => F[k][i].id < F[l][j].id
  BY <1>1, <1>2 DEF Ordered
<1>3. ASSUME NEW k \in 1..N
      PROVE  /\ Len(F[k]) \in Nat
             /\ \A x \in Carried :
                   /\ Len(Append(F[k], x)) = Len(F[k]) + 1
                   /\ \A i \in 1..Len(F[k]) : Append(F[k], x)[i] = F[k][i]
                   /\ Append(F[k], x)[Len(F[k]) + 1] = x
             /\ F[k] # <<>> => /\ Len(F[k]) \in Nat \ {0} /\ Len(Tail(F[k])) = Len(F[k]) - 1
                               /\ \A i \in 1..(Len(F[k]) - 1) : Tail(F[k])[i] = F[k][i + 1]
                               /\ Head(F[k]) = F[k][1]
  BY <1>3, AppendElements, TailElements, LenProperties
<1>4. ASSUME NEW k \in 1..N, NEW i \in 1..Len(G[k]), G[k][i] \in R[k]
      PROVE  \/ Stayed(F, G, R, k, i)
             \/ Moved(F, G, R, k, i)
             \/ k = N /\ i = Len(G[k]) /\ max2 = max + 1 /\ G[k][i].id = max2
  <2>1. CASE G[k] = F[k]
    <3>1. ~Dropped(F[k], G[k])
      BY <1>3, <2>1 DEF Dropped
    <3>2. QED
      BY <1>4, <2>1, <3>1 DEF Stayed
  <2>2. CASE Dropped(F[k], G[k])
    <3>1. i + 1 \in 1..Len(F[k]) /\ F[k][i + 1] = G[k][i] /\ i + 1 > 1
      BY <1>3, <1>4, <2>2 DEF Dropped
    <3>2. QED
      BY <1>4, <3>1 DEF Stayed
  <2>3. ASSUME NEW x \in Carried, G[k] = Append(F[k], x), i # Len(G[k])
        PROVE  Stayed(F, G, R, k, i)
    <3>1. i \in 1..Len(F[k]) /\ F[k][i] = G[k][i]
      BY <1>3, <1>4, <2>3
    <3>2. ~Dropped(F[k], G[k])
      BY <1>3, <2>3 DEF Dropped
    <3>3. QED
      BY <1>4, <3>1, <3>2 DEF Stayed
  <2>4. ASSUME NEW x \in Carried, G[k] = Append(F[k], x), i = Len(G[k])
        PROVE  G[k][i] = x
    BY <1>3, <2>4
  <2>5. CASE \E x \in Carried : G[k] = Append(F[k], x) /\ x \notin R[k]
    BY <1>4, <2>3, <2>4, <2>5
  <2>6. CASE k < N /\ Passes(F[k], G[k], F[k + 1], G[k + 1], R[k + 1])
    <3>1. PICK x \in Carried : /\ G[k] = Append(F[k], x) /\ Dropped(F[k + 1], G[k + 1])
                               /\ Head(F[k + 1]) \in R[k + 1] /\ x.id = Head(F[k + 1]).id
      BY <2>6 DEF Passes
    <3>2. CASE i = Len(G[k])
      <4>1. k + 1 \in 1..N
        BY <2>6
      <4>2. F[k + 1] # <<>>
        BY <3>1 DEF Dropped
      <4>3. Head(F[k + 1]) = F[k + 1][1] /\ 1 \in 1..Len(F[k + 1])
        BY <1>3, <4>1, <4>2
      <4>4. QED
        BY <2>4, <3>1, <3>2, <4>1, <4>3 DEF Moved
    <3>3. QED
      BY <2>3, <3>1, <3>2
  <2>7. CASE k = N /\ max2 = max + 1 /\ Enters(F[k], G[k], max2)
    BY <2>3, <2>4, <2>7 DEF Enters
  <2>8. QED
    BY <2>1, <2>2, <2>5, <2>6, <2>7 DEF Shifts
<1>5. ASSUME NEW k \in 1..N, NEW i \in 1..Len(G[k]), G[k][i] \in R[k]
      PROVE  G[k][i].id <= max2 /\ G[k][i].id \in Nat
  <2>1. CASE Stayed(F, G, R, k, i)
    BY <1>2, <2>1 DEF Stayed
  <2>2. CASE Moved(F, G, R, k, i)
    BY <1>2, <2>2 DEF Moved
  <2>3. QED
    BY <1>4, <1>5, <2>1, <2>2
<1>6. ASSUME NEW k \in 1..N, NEW i \in 1..Len(G[k]), NEW j \in 1..Len(G[k]), i < j,
             G[k][i] \in R[k], G[k][j] \in R[k]
      PROVE  G[k][i].id < G[k][j].id
  <2>1. CASE G[k] = F[k]
    BY <1>2, <1>6, <2>1
  <2>2. CASE Dropped(F[k], G[k])
    <3>1. /\ i + 1 \in 1..Len(F[k]) /\ F[k][i + 1] = G[k][i]
          /\ j + 1 \in 1..Len(F[k]) /\ F[k][j + 1] = G[k][j]
      BY <1>3, <1>6, <2>2, SMTT(30) DEF Dropped
    <3>2. QED
      BY <1>2, <1>6, <3>1, SMTT(30)
  <2>3. ASSUME NEW x \in Carried, G[k] = Append(F[k], x)
        PROVE  /\ i \in 1..Len(F[k]) /\ F[k][i] = G[k][i] /\ F[k][i] \in R[k]
               /\ G[k][i].id < G[k][j].id \/ G[k][j] = x
    <3>1. /\ Len(G[k]) = Len(F[k]) + 1 /\ i \in 1..Len(F[k]) /\ F[k][i] = G[k][i]
          /\ j \in 1..Len(F[k]) \/ j = Len(F[k]) + 1
      BY <1>3, <1>6, <2>3
    <3>2. CASE j \in 1..Len(F[k])
      <4>1. F[k][j] = G[k][j]
        BY <1>3, <2>3, <3>2
      <4>2. QED
        BY <1>2, <1>6, <3>1, <3>2, <4>1
    <3>3. CASE j = Len(F[k]) + 1
      BY <1>3, <1>6, <2>3, <3>1, <3>3
    <3>4. QED
      BY <1>6, <3>1, <3>2, <3>3
  <2>4. CASE \E x \in Carried : G[k] = Append(F[k], x) /\ x \notin R[k]
    BY <1>6, <2>3, <2>4
  <2>5. CASE k < N /\ Passes(F[k], G[k], F[k + 1], G[k + 1], R[k + 1])
    <3>1. PICK x \in Carried : /\ G[k] = Append(F[k], x) /\ Dropped(F[k + 1], G[k + 1])
                               /\ Head(F[k + 1]) \in R[k + 1] /\ x.id = Head(F[k + 1]).id
      BY <2>5 DEF Passes
    <3>2. k + 1 \in 1..N /\ F[k + 1] # <<>> /\ k < k + 1
      BY <2>5, <3>1 DEF Dropped
    <3>3. Head(F[k + 1]) = F[k + 1][1] /\ 1 \in 1..Len(F[k + 1])
      BY <1>3, <3>2
    <3>4. F[k][i].id < F[k + 1][1].id
      BY <1>2, <2>3, <3>1, <3>2, <3>3
    <3>5. QED
      BY <2>3, <3>1, <3>3, <3>4
  <2>6. CASE k = N /\ max2 = max + 1 /\ Enters(F[k], G[k], max2)
    <3>1. PICK x \in Carried : G[k] = Append(F[k], x) /\ x.id = max + 1
      BY <2>6 DEF Enters
    <3>2. F[k][i].id <= max /\ F[k][i].id \in Nat
      BY <1>2, <2>3, <3>1
    <3>3. QED
      BY <2>3, <3>1, <3>2, SMTT(30)
  <2>7. QED
    BY <2>1, <2>2, <2>4, <2>5, <2>6 DEF Shifts
<1>7. ASSUME NEW k \in 1..N, NEW l \in 1..N, k < l,
             NEW i \in 1..Len(G[k]), NEW j \in 1..Len(G[l]),
             G[k][i] \in R[k], G[l][j] \in R[l]
      PROVE  G[k][i].id < G[l][j].id
  <2>1. CASE Stayed(F, G, R, k, i) /\ Stayed(F, G, R, l, j)
    BY <1>2, <1>7, <2>1 DEF Stayed
  <2>2. CASE Stayed(F, G, R, k, i) /\ Moved(F, G, R, l, j)
    <3>1. PICK h \in 1..Len(F[k]) : F[k][h] \in R[k] /\ F[k][h].id = G[k][i].id
      BY <2>2 DEF Stayed
    <3>2. /\ l + 1 \in 1..N /\ 1 \in 1..Len(F[l + 1]) /\ F[l + 1][1] \in R[l + 1]
          /\ F[l + 1][1].id = G[l][j].id
      BY <2>2 DEF Moved
    <3>3. k < l + 1
      BY <1>7
    <3>4. QED
      BY <1>2, <3>1, <3>2, <3>3
  <2>3. CASE Moved(F, G, R, k, i) /\ Stayed(F, G, R, l, j)
    <3>1. /\ k + 1 \in 1..N /\ 1 \in 1..Len(F[k + 1]) /\ F[k + 1][1] \in R[k + 1]
          /\ F[k + 1][1].id = G[k][i].id /\ Dropped(F[k + 1], G[k + 1])
      BY <2>3 DEF Moved
    <3>2. PICK h \in 1..Len(F[l]) : /\ F[l][h] \in R[l] /\ F[l][h].id = G[l][j].id
                                    /\ Dropped(F[l], G[l]) => h > 1
      BY <2>3 DEF Stayed
    <3>3. k + 1 < l \/ (k + 1 = l /\ 1 < h)
      BY <1>7, <3>1, <3>2
    <3>4. QED
      BY <1>2, <3>1, <3>2, <3>3
  <2>4. CASE Moved(F, G, R, k, i) /\ Moved(F, G, R, l, j)
    <3>1. /\ k + 1 \in 1..N /\ 1 \in 1..Len(F[k + 1]) /\ F[k + 1][1] \in R[k + 1]
          /\ F[k + 1][1].id = G[k][i].id
      BY <2>4 DEF Moved
    <3>2. /\ l + 1 \in 1..N /\ 1 \in 1..Len(F[l + 1]) /\ F[l + 1][1] \in R[l + 1]
          /\ F[l + 1][1].id = G[l][j].id
      BY <2>4 DEF Moved
    <3>3. k + 1 < l + 1
      BY <1>7
    <3>4. QED
      BY <1>2, <3>1, <3>2, <3>3
  <2>5. CASE max2 = max + 1 /\ G[l][j].id = max2
    <3>1. G[k][i].id <= max
      <4>1. CASE Stayed(F, G, R, k, i)
        BY <1>2, <4>1 DEF Stayed
      <4>2. CASE Moved(F, G, R, k, i)
        BY <1>2, <4>2 DEF Moved
      <4>3. k # N
        BY <1>7
      <4>4. QED
        BY <1>4, <1>7, <4>1, <4>2, <4>3
    <3>2. G[k][i].id \in Nat
      BY <1>5, <1>7
    <3>3. QED
      BY <2>5, <3>1, <3>2, SMTT(30)
  <2>6. k # N
    BY <1>7
  <2>7. QED
    BY <1>4, <1>7, <2>1, <2>2, <2>3, <2>4, <2>5, <2>6
<1>8. QED
  BY <1>5, <1>6, <1>7 DEF Ordered

\* The same for the two kinds of way, place by place.
LEMMA LocalKept ==
    ASSUME NEW p, NEW max \in Nat, NEW max2 \in {max, max + 1}, NEW F, NEW G,
           DOMAIN F = 1..2, DOMAIN G = 1..2, \A k \in 1..2 : F[k] \in Seq(Carried),
           Ordered(F, OnLocalWay(p), max), LocalMoves(F, G, p, max, max2)
    PROVE  Ordered(G, OnLocalWay(p), max2)
<1>1. PICK R : R = OnLocalWay(p)
  OBVIOUS
<1>2. R[1] = Received(p) /\ R[2] = Messages("pub", p)
  BY <1>1 DEF OnLocalWay
<1>3. Received(p) \subseteq Carried /\ Messages("pub", p) \subseteq Carried
  BY DEF Received, Messages, Carried
<1>4. ASSUME NEW k \in 1..2
      PROVE  /\ R[k] \subseteq Carried
             /\ \/ Shifts(F[k], G[k], R[k])
                \/ k < 2 /\ Passes(F[k], G[k], F[k + 1], G[k + 1], R[k + 1])
                \/ k = 2 /\ max2 = max + 1 /\ Enters(F[k], G[k], max2)
  <2>1. CASE k = 1
    BY <1>2, <1>3, <2>1 DEF LocalMoves, Gets
  <2>2. CASE k = 2
    BY <1>2, <1>3, <2>2 DEF LocalMoves, Starts
  <2>3. QED
    BY <2>1, <2>2
<1>5. PICK N \in Nat \ {0} : N = 2
  OBVIOUS
<1>6. WayStep(N, F, G, R, max, max2)
  BY <1>4, <1>5 DEF WayStep
<1>7. QED
  BY <1>1, <1>6, OrderKept

LEMMA RemoteKept ==
    ASSUME NEW p, NEW max \in Nat, NEW max2 \in {max, max + 1}, NEW F, NEW G,
           DOMAIN F = 1..6, DOMAIN G = 1..6, \A k \in 1..6 : F[k] \in Seq(Carried),
           Ordered(F, OnRemoteWay(p), max), RemoteMoves(F, G, p, max, max2)
    PROVE  Ordered(G, OnRemoteWay(p), max2)
<1>1. PICK R : R = OnRemoteWay(p)
  OBVIOUS
<1>2. /\ R[1] = Received(p) /\ R[2] = Messages("pubDown", p) /\ R[3] = Messages("pubDown", p)
      /\ R[4] = Messages("pub", p) /\ R[5] = Messages("pub", p) /\ R[6] = Messages("pub", p)
  BY <1>1 DEF OnRemoteWay
<1>3. /\ Received(p) \subseteq Carried
      /\ Messages("pub", p) \subseteq Carried /\ Messages("pubDown", p) \subseteq Carried
  BY DEF Received, Messages, Carried
<1>4. ASSUME NEW k \in 1..6
      PROVE  /\ R[k] \subseteq Carried
             /\ \/ Shifts(F[k], G[k], R[k])
                \/ k < 6 /\ Passes(F[k], G[k], F[k + 1], G[k + 1], R[k + 1])
                \/ k = 6 /\ max2 = max + 1 /\ Enters(F[k], G[k], max2)
  <2>1. CASE k = 1
    BY <1>2, <1>3, <2>1 DEF RemoteMoves, Gets
  <2>2. CASE k = 2
    BY <1>2, <1>3, <2>2 DEF RemoteMoves, Gets
  <2>3. CASE k = 3
    BY <1>2, <1>3, <2>3 DEF RemoteMoves, Gets
  <2>4. CASE k = 4
    BY <1>2, <1>3, <2>4 DEF RemoteMoves, Gets
  <2>5. CASE k = 5
    BY <1>2, <1>3, <2>5 DEF RemoteMoves, Gets
  <2>6. CASE k = 6
    BY <1>2, <1>3, <2>6 DEF RemoteMoves, Starts
  <2>7. k = 1 \/ k = 2 \/ k = 3 \/ k = 4 \/ k = 5 \/ k = 6
    OBVIOUS
  <2>8. QED
    BY <2>1, <2>2, <2>3, <2>4, <2>5, <2>6, <2>7, Zenon
<1>5. PICK N \in Nat \ {0} : N = 6
  OBVIOUS
<1>6. WayStep(N, F, G, R, max, max2)
  BY <1>4, <1>5 DEF WayStep
<1>7. QED
  BY <1>1, <1>6, OrderKept

\* What each place of a way does in a step.
LocalStep(c, p) ==
    LET a == Home[p] IN
    /\ Gets(got[c], got'[c], Received(p), incoming[a], incoming'[a], Messages("pub", p))
    /\ Starts(incoming[a], incoming'[a], Messages("pub", p), ops, ops')

RemoteStep(c, p) ==
    LET a == Home[c]
        b == Home[p]
        P == Messages("pub", p)
        D == Messages("pubDown", p)
    IN /\ Gets(got[c], got'[c], Received(p), incoming[a], incoming'[a], D)
       /\ Gets(incoming[a], incoming'[a], D, down[a], down'[a], D)
       /\ Gets(down[a], down'[a], D, incoming[Guru], incoming'[Guru], P)
       /\ Gets(incoming[Guru], incoming'[Guru], P, up[b], up'[b], P)
       /\ Gets(up[b], up'[b], P, incoming[b], incoming'[b], P)
       /\ Starts(incoming[b], incoming'[b], P, ops, ops')

\* A step that does so on every way keeps the order.
LEMMA WaysKept ==
    ASSUME IInv, OrderInv, ops' \in {ops, ops + 1},
           Calm => \A c, p \in Clients : IF Home[c] = Home[p] THEN LocalStep(c, p) ELSE RemoteStep(c, p)
    PROVE  OrderInv'
<1> SUFFICES ASSUME Calm, NEW c \in Clients, NEW p \in Clients
             PROVE  IF Home[c] = Home[p] THEN Ordered(LocalWay(c, p)', OnLocalWay(p), ops')
                                         ELSE Ordered(RemoteWay(c, p)', OnRemoteWay(p), ops')
  BY DEF OrderInv, OnLocalWay, OnRemoteWay, Ordered, Received, Messages
<1>1. ops \in Nat
  BY DEF IInv, ClientsOK
<1>2. Home[c] \in Aides /\ Home[p] \in Aides /\ Aides \subseteq Nodes /\ Guru \in Nodes
  BY LookupAssumption DEF Nodes
<1>3. \A n \in Nodes : incoming[n] \in Seq(Carried)
  BY SeqMonotonic DEF IInv, InInv, Carried
<1>4. \A a \in Aides : up[a] \in Seq(Carried) /\ down[a] \in Seq(Carried)
  BY SeqMonotonic DEF IInv, UpInv, DownInv, Carried
<1>5. got[c] \in Seq(Carried)
  <2>1. got[c] \in Seq(Receipts)
    BY DEF IInv, OutputOK, Receipts
  <2>2. QED
    BY <2>1, SeqMonotonic DEF Carried
<1>6. CASE Home[c] = Home[p]
  <2>1. PICK F : F = LocalWay(c, p)
    OBVIOUS
  <2>2. PICK G : G = LocalWay(c, p)'
    OBVIOUS
  <2>3. /\ DOMAIN F = 1..2 /\ DOMAIN G = 1..2
        /\ F[1] = got[c] /\ F[2] = incoming[Home[p]]
        /\ G[1] = got'[c] /\ G[2] = incoming'[Home[p]]
    BY <2>1, <2>2 DEF LocalWay
  <2>4. \A k \in 1..2 : F[k] \in Seq(Carried)
    BY <1>2, <1>3, <1>5, <2>3
  <2>5. Ordered(F, OnLocalWay(p), ops)
    BY <1>6, <2>1 DEF OrderInv
  <2>6. LocalStep(c, p)
    BY <1>6
  <2>7. LocalMoves(F, G, p, ops, ops')
    BY <2>3, <2>6 DEF LocalStep, LocalMoves
  <2>8. Ordered(G, OnLocalWay(p), ops')
    BY <1>1, <2>3, <2>4, <2>5, <2>7, LocalKept
  <2>9. QED
    BY <1>6, <2>2, <2>8
<1>7. CASE Home[c] # Home[p]
  <2>1. PICK F : F = RemoteWay(c, p)
    OBVIOUS
  <2>2. PICK G : G = RemoteWay(c, p)'
    OBVIOUS
  <2>3. /\ DOMAIN F = 1..6 /\ DOMAIN G = 1..6
        /\ F[1] = got[c] /\ F[2] = incoming[Home[c]] /\ F[3] = down[Home[c]]
        /\ F[4] = incoming[Guru] /\ F[5] = up[Home[p]] /\ F[6] = incoming[Home[p]]
        /\ G[1] = got'[c] /\ G[2] = incoming'[Home[c]] /\ G[3] = down'[Home[c]]
        /\ G[4] = incoming'[Guru] /\ G[5] = up'[Home[p]] /\ G[6] = incoming'[Home[p]]
    BY <2>1, <2>2 DEF RemoteWay
  <2>4. \A k \in 1..6 : F[k] \in Seq(Carried)
    BY <1>2, <1>3, <1>4, <1>5, <2>3
  <2>5. Ordered(F, OnRemoteWay(p), ops)
    BY <1>7, <2>1 DEF OrderInv
  <2>6. RemoteStep(c, p)
    BY <1>7
  <2>7. RemoteMoves(F, G, p, ops, ops')
    BY <2>3, <2>6 DEF RemoteStep, RemoteMoves
  <2>8. Ordered(G, OnRemoteWay(p), ops')
    BY <1>1, <2>3, <2>4, <2>5, <2>7, RemoteKept
  <2>9. QED
    BY <1>7, <2>2, <2>8
<1>8. QED
  BY <1>6, <1>7

\* A place that gets no message.
Silent(q, r) == \/ r = q \/ Dropped(q, r)
                \/ \E x \in Packets : r = Append(q, x) /\ x.type \notin {"pub", "pubDown"}

LEMMA SilentShifts ==
    ASSUME NEW q, NEW r, Silent(q, r), NEW p
    PROVE  Shifts(q, r, Messages("pub", p)) /\ Shifts(q, r, Messages("pubDown", p))
BY DEF Silent, Shifts, Messages, Carried

\* A step that puts no message anywhere keeps the order.
LEMMA SilentSteps ==
    ASSUME IInv, OrderInv, ops' \in {ops, ops + 1}, UNCHANGED got,
           \A n \in Nodes : Silent(incoming[n], incoming'[n]),
           \A a \in Aides : Silent(up[a], up'[a]) /\ Silent(down[a], down'[a])
    PROVE  OrderInv'
<1>1. ASSUME NEW c \in Clients, NEW p \in Clients
      PROVE  LocalStep(c, p) /\ RemoteStep(c, p)
  <2>1. Home[c] \in Aides /\ Home[p] \in Aides /\ Aides \subseteq Nodes /\ Guru \in Nodes
    BY LookupAssumption DEF Nodes
  <2>2. Shifts(got[c], got'[c], Received(p))
    BY DEF Shifts
  <2>3. QED
    BY <2>1, <2>2, SilentShifts DEF LocalStep, RemoteStep, Gets, Starts
<1>2. QED
  BY <1>1, WaysKept

\* So does one that leaves all places alone.
LEMMA NoMessages ==
    ASSUME IInv, OrderInv, ops' \in {ops, ops + 1}, UNCHANGED <<incoming, up, down, got>>
    PROVE  OrderInv'
BY SilentSteps DEF Silent

\* What an operation does to the channels, place by place.
LEMMA TakenSilent ==
    ASSUME IInv, NEW n \in Nodes, incoming[n] # <<>>, incoming' = [incoming EXCEPT ![n] = Tail(@)]
    PROVE  /\ \A k \in Nodes : Silent(incoming[k], incoming'[k])
           /\ Dropped(incoming[n], incoming'[n])
           /\ \A k \in Nodes : k # n => incoming'[k] = incoming[k]
BY DEF IInv, InInv, Silent, Dropped

LEMMA AddedTo ==
    ASSUME IInv, NEW n \in Nodes, NEW x \in Packets, incoming' = [incoming EXCEPT ![n] = Append(@, x)]
    PROVE  /\ incoming'[n] = Append(incoming[n], x)
           /\ \A k \in Nodes : k # n => incoming'[k] = incoming[k]
           /\ x.type \notin {"pub", "pubDown"} => \A k \in Nodes : Silent(incoming[k], incoming'[k])
<1>1. /\ incoming'[n] = Append(incoming[n], x)
      /\ \A k \in Nodes : k # n => incoming'[k] = incoming[k]
  BY DEF IInv, InInv
<1>2. QED
  BY <1>1 DEF Silent

LEMMA PushedUp ==
    ASSUME IInv, NEW a \in Aides, NEW x \in Packets, PushUp(a, <<x>>)
    PROVE  /\ up'[a] = Append(up[a], x)
           /\ \A b \in Aides : b # a => up'[b] = up[b]
           /\ x.type \notin {"pub", "pubDown"} => \A b \in Aides : Silent(up[b], up'[b])
<1>1. up \in [Aides -> Seq(Packets)]
  BY DEF IInv, UpInv
<1>2. up[a] \o <<x>> = Append(up[a], x)
  BY <1>1, AppendIsConcat
<1>3. up'[a] = Append(up[a], x) /\ \A b \in Aides : b # a => up'[b] = up[b]
  BY <1>1, <1>2 DEF PushUp
<1>4. QED
  BY <1>3 DEF Silent

\* The guru writes no message but what it publishes.
LEMMA WrittenSilent ==
    ASSUME NEW n \in Nodes, NEW ks, NEW m \in Packets, m.type = "subDown", WriteDownstream(n, ks, m)
    PROVE  (\A a \in Aides : Silent(down[a], down'[a])) /\ UNCHANGED got
<1>1. CASE n = Guru
  <2>1. UNCHANGED got
    BY <1>1 DEF WriteDownstream, outVars
  <2>2. ASSUME NEW a \in Aides
        PROVE  down'[a] = down[a] \/ down'[a] = Append(down[a], m)
    BY <1>1 DEF WriteDownstream
  <2>3. QED
    BY <2>1, <2>2 DEF Silent
<1>2. CASE n # Guru
  BY <1>2 DEF WriteDownstream, Silent
<1>3. QED
  BY <1>1, <1>2

\* What a client gets of a message.
LEMMA WrittenToClients ==
    ASSUME NEW n \in Nodes, n # Guru, NEW ks, NEW m \in Packets, m.type # "subDown",
           WriteDownstream(n, ks, m), NEW c \in Clients
    PROVE  /\ UNCHANGED down
           /\ \/ got'[c] = got[c]
              \/ /\ ClientContact(c) \in ks
                 /\ \E g \in Receipts : got'[c] = Append(got[c], g) /\ g.id = m.id /\ g.by = m.by
<1> DEFINE g == [id |-> m.id, by |-> m.by, self |-> ClientContact(c) \in subs[n][m.topic].selfs]
<1>1. g \in Receipts /\ g.id = m.id /\ g.by = m.by
  <2>1. m.id \in Nat /\ m.by \in Clients \cup {Guru}
    BY ChangedPackets
  <2>2. QED
    BY <2>1 DEF Receipts
<1>2. UNCHANGED down /\ got'[c] = IF ClientContact(c) \in ks THEN Append(got[c], g) ELSE got[c]
  BY DEF WriteDownstream
<1> HIDE DEF g
<1>3. QED
  BY <1>1, <1>2

LEMMA SubscribeOrder ==
    ASSUME IInv, OrderInv, NEW n \in Nodes, ProcessSubscribe(n) \/ ProcessUnsubscribe(n)
    PROVE  OrderInv'
<1>1. PICK m : m = Head(incoming[n])
  OBVIOUS
<1>2. PICK d : d = [m EXCEPT !.type = "subDown"]
  OBVIOUS
<1>3. /\ Takes(n, "sub") \/ Takes(n, "unsub")
      /\ UNCHANGED <<down, outVars>> \/ WriteDownstream(n, {k \in {m.from} : IsOpen(k)}, d)
      /\ UNCHANGED up \/ MaybePushUp(n, <<m>>)
  BY <1>1, <1>2 DEF ProcessSubscribe, ProcessUnsubscribe
<1>4. /\ m \in Packets /\ m.type \in {"sub", "unsub"} /\ d \in Packets /\ d.type = "subDown"
      /\ ops' = ops
  <2>1. m \in Packets /\ m.type \in {"sub", "unsub"}
    BY <1>1, <1>3, TakesOK
  <2>2. d \in Packets /\ d.type = "subDown"
    BY <1>2, <2>1, ChangedPackets DEF Packets, PacketTypes
  <2>3. QED
    BY <1>3, <2>1, <2>2 DEF Takes, envVars
<1>5. \A k \in Nodes : Silent(incoming[k], incoming'[k])
  BY <1>3, TakenSilent DEF Takes
<1>6. \A a \in Aides : Silent(up[a], up'[a])
  <2>1. CASE UNCHANGED up
    BY <2>1 DEF Silent
  <2>2. CASE n # Guru /\ MaybePushUp(n, <<m>>)
    <3>1. n \in Aides /\ PushUp(n, <<m>>)
      BY <2>2 DEF MaybePushUp, Nodes
    <3>2. QED
      BY <1>4, <3>1, PushedUp
  <2>3. QED
    BY <1>3, <2>1, <2>2 DEF MaybePushUp
<1>7. (\A a \in Aides : Silent(down[a], down'[a])) /\ UNCHANGED got
  <2>1. CASE UNCHANGED <<down, outVars>>
    BY <2>1 DEF Silent, outVars
  <2>2. CASE WriteDownstream(n, {k \in {m.from} : IsOpen(k)}, d)
    BY <1>4, <2>2, WrittenSilent
  <2>3. QED
    BY <1>3, <2>1, <2>2
<1>8. QED
  BY <1>4, <1>5, <1>6, <1>7, SilentSteps

\* The guru sends a message down as it takes it.
LEMMA PublishOrderGuru ==
    ASSUME IInv, OrderInv, ProcessPublish(Guru)
    PROVE  OrderInv'
<1>1. PICK m : m = Head(incoming[Guru])
  OBVIOUS
<1>2. PICK d : d = [m EXCEPT !.type = "pubDown"]
  OBVIOUS
<1>3. /\ Takes(Guru, "pub") /\ UNCHANGED <<up, got>>
      /\ UNCHANGED down \/ \E ks : WriteDownstream(Guru, ks, d)
  BY <1>1, <1>2 DEF ProcessPublish, MaybePushUp, WriteDownstream, outVars
<1>4. Guru \in Nodes /\ Guru \notin Aides
  BY LookupAssumption DEF Nodes
<1>5. /\ m \in Packets /\ m.type = "pub"
      /\ d \in Packets /\ d.by = m.by /\ d.id = m.id
      /\ ops' = ops
  <2>1. m \in Packets /\ m.type = "pub"
    BY <1>1, <1>3, <1>4, TakesOK
  <2>2. d \in Packets /\ d.by = m.by /\ d.id = m.id
    BY <1>2, <2>1, ChangedPackets DEF Packets, PacketTypes
  <2>3. QED
    BY <1>3, <2>1, <2>2 DEF Takes, envVars
<1>6. /\ Dropped(incoming[Guru], incoming'[Guru])
      /\ \A a \in Aides : incoming'[a] = incoming[a]
  BY <1>3, <1>4, TakenSilent DEF Takes, Nodes
<1>7. \A a \in Aides : down'[a] = down[a] \/ down'[a] = Append(down[a], d)
  BY <1>3 DEF WriteDownstream
<1>8. ASSUME NEW c \in Clients, NEW p \in Clients
      PROVE  LocalStep(c, p) /\ RemoteStep(c, p)
  <2>1. Home[c] \in Aides /\ Home[p] \in Aides
    BY LookupAssumption
  <2>2. Gets(down[Home[c]], down'[Home[c]], Messages("pubDown", p),
             incoming[Guru], incoming'[Guru], Messages("pub", p))
    BY <1>1, <1>5, <1>6, <1>7, <2>1 DEF Gets, Shifts, Passes, Messages, Carried
  <2>3. QED
    BY <1>3, <1>5, <1>6, <2>1, <2>2 DEF LocalStep, RemoteStep, Gets, Starts, Shifts
<1>9. QED
  BY <1>5, <1>8, WaysKept

\* An aide sends a message up as it takes it, and its clients get it.
LEMMA PublishOrderAide ==
    ASSUME IInv, OrderInv, NEW n \in Aides, ProcessPublish(n)
    PROVE  OrderInv'
<1>1. PICK m : m = Head(incoming[n])
  OBVIOUS
<1>2. PICK d : d = [m EXCEPT !.type = "pubDown"]
  OBVIOUS
<1>3. PICK ks : ks = {j \in Recipients(subs[n][m.topic], m.from) : IsOpen(j)}
  OBVIOUS
<1>4. n \in Nodes /\ n # Guru /\ Guru \in Nodes /\ In(n) = AideIn(n)
  BY LookupAssumption, KindsArePackets DEF Nodes
<1>5. /\ Takes(n, "pub") /\ PushUp(n, <<m>>)
      /\ \/ UNCHANGED <<down, got>>
         \/ HasEntry(n, m.topic) /\ WriteDownstream(n, ks, d)
  BY <1>1, <1>2, <1>3, <1>4 DEF ProcessPublish, MaybePushUp, outVars
<1>6. /\ m \in Packets /\ m.type = "pub" /\ m.by \in Clients /\ Home[m.by] = n
      /\ d \in Packets /\ d.type = "pubDown" /\ d.by = m.by /\ d.id = m.id
      /\ ops' = ops
  <2>1. m \in AideIn(n) /\ m.type = "pub"
    BY <1>1, <1>4, <1>5, TakesOK
  <2>2. m \in Packets
    BY <2>1 DEF AideIn
  <2>3. d \in Packets /\ d.type = "pubDown" /\ d.by = m.by /\ d.id = m.id
    BY <1>2, <2>2, ChangedPackets DEF Packets, PacketTypes
  <2>4. QED
    BY <1>5, <2>1, <2>2, <2>3 DEF Takes, envVars, AideIn, FromAide
<1>7. /\ Dropped(incoming[n], incoming'[n])
      /\ \A k \in Nodes : k # n => incoming'[k] = incoming[k]
  BY <1>4, <1>5, TakenSilent DEF Takes
<1>8. up'[n] = Append(up[n], m) /\ \A b \in Aides : b # n => up'[b] = up[b]
  BY <1>5, <1>6, PushedUp
<1>9. UNCHANGED down
  BY <1>4, <1>5 DEF WriteDownstream
<1>10. ASSUME NEW c \in Clients, got'[c] # got[c]
       PROVE  /\ Home[c] = n
              /\ \E g \in Receipts : got'[c] = Append(got[c], g) /\ g.id = m.id /\ g.by = m.by
  <2>1. HasEntry(n, m.topic) /\ WriteDownstream(n, ks, d)
    BY <1>5, <1>10
  <2>2. /\ ClientContact(c) \in ks
        /\ \E g \in Receipts : got'[c] = Append(got[c], g) /\ g.id = m.id /\ g.by = m.by
    BY <1>4, <1>6, <1>10, <2>1, WrittenToClients
  <2>3. subs[n][m.topic] \in EntriesAt(n)
    BY <1>4, <1>6, <2>1, ChangedPackets, EntryOf DEF IInv
  <2>4. ClientContact(c) \in WatchersAt(n)
    BY <1>3, <2>2, <2>3 DEF Recipients, EntriesAt
  <2>5. QED
    BY <1>4, <2>2, <2>4 DEF WatchersAt, ClientContact
<1>11. ASSUME NEW c \in Clients, NEW p \in Clients
       PROVE  IF Home[c] = Home[p] THEN LocalStep(c, p) ELSE RemoteStep(c, p)
  <2>1. Home[c] \in Aides /\ Home[p] \in Aides /\ Home[c] \in Nodes /\ Home[p] \in Nodes
    BY LookupAssumption DEF Nodes
  <2>2. \A R : \A a \in Aides : Shifts(incoming[a], incoming'[a], R)
    BY <1>7 DEF Shifts, Nodes
  <2>3. CASE Home[c] = Home[p]
    <3>1. Gets(got[c], got'[c], Received(p), incoming[Home[p]], incoming'[Home[p]], Messages("pub", p))
      <4>1. CASE got'[c] = got[c]
        BY <4>1 DEF Gets, Shifts
      <4>2. CASE got'[c] # got[c]
        <5>1. PICK g \in Receipts : got'[c] = Append(got[c], g) /\ g.id = m.id /\ g.by = m.by
          BY <1>10, <4>2
        <5>2. Home[p] = n /\ g \in Carried
          BY <1>10, <2>3, <4>2 DEF Carried
        <5>3. CASE m.by = p
          <6>1. Head(incoming[n]) \in Messages("pub", p)
            BY <1>1, <1>6, <5>3 DEF Messages
          <6>2. QED
            BY <1>1, <1>7, <5>1, <5>2, <6>1 DEF Gets, Passes
        <5>4. CASE m.by # p
          BY <5>1, <5>2, <5>4 DEF Gets, Shifts, Received
        <5>5. QED
          BY <5>3, <5>4
      <4>3. QED
        BY <4>1, <4>2
    <3>2. QED
      BY <2>1, <2>2, <2>3, <3>1 DEF LocalStep, Starts
  <2>4. CASE Home[c] # Home[p]
    <3>1. Shifts(got[c], got'[c], Received(p))
      <4>1. CASE got'[c] # got[c]
        <5>1. PICK g \in Receipts : got'[c] = Append(got[c], g) /\ g.by = m.by
          BY <1>10, <4>1
        <5>2. m.by # p
          BY <1>6, <1>10, <2>4, <4>1
        <5>3. QED
          BY <5>1, <5>2 DEF Shifts, Received, Carried
      <4>2. QED
        BY <4>1 DEF Shifts
    <3>2. Gets(up[Home[p]], up'[Home[p]], Messages("pub", p),
               incoming[Home[p]], incoming'[Home[p]], Messages("pub", p))
      <4>1. CASE Home[p] # n
        BY <1>8, <2>1, <4>1 DEF Gets, Shifts
      <4>2. CASE Home[p] = n
        BY <1>1, <1>6, <1>7, <1>8, <4>2 DEF Gets, Shifts, Passes, Carried
      <4>3. QED
        BY <4>1, <4>2
    <3>3. incoming'[Guru] = incoming[Guru] /\ down' = down
      BY <1>4, <1>7, <1>9
    <3>4. QED
      BY <2>1, <2>2, <2>4, <3>1, <3>2, <3>3 DEF RemoteStep, Gets, Starts, Shifts
  <2>5. QED
    BY <2>3, <2>4
<1>12. QED
  BY <1>6, <1>11, WaysKept

\* The clients of an aide get what the guru sent as the aide takes it.
LEMMA PublishDownOrder ==
    ASSUME IInv, OrderInv, NEW a \in Aides, ProcessPublishDown(a)
    PROVE  OrderInv'
<1>1. PICK m : m = Head(incoming[a])
  OBVIOUS
<1>2. PICK ks : ks = {j \in subs[a][m.topic].w : IsOpen(j)}
  OBVIOUS
<1>3. a \in Nodes /\ a # Guru /\ Guru \in Nodes /\ In(a) = AideIn(a)
  BY LookupAssumption, KindsArePackets DEF Nodes
<1>4. /\ Takes(a, "pubDown")
      /\ \/ PushUp(a, <<Unsubscription(m.topic)>>) /\ UNCHANGED <<down, got>>
         \/ HasEntry(a, m.topic) /\ WriteDownstream(a, ks, m) /\ UNCHANGED up
  BY <1>1, <1>2 DEF ProcessPublishDown, outVars
<1>5. /\ m \in Packets /\ m.type = "pubDown" /\ m.by \in Clients /\ (Calm => Home[m.by] # a)
      /\ ops' = ops
  <2>1. m \in AideIn(a) /\ m.type = "pubDown"
    BY <1>1, <1>3, <1>4, TakesOK
  <2>2. QED
    BY <1>4, <2>1 DEF AideIn, Takes, envVars
<1>6. /\ \A k \in Nodes : Silent(incoming[k], incoming'[k])
      /\ Dropped(incoming[a], incoming'[a])
      /\ \A k \in Nodes : k # a => incoming'[k] = incoming[k]
  BY <1>3, <1>4, TakenSilent DEF Takes
<1>7. CASE PushUp(a, <<Unsubscription(m.topic)>>) /\ UNCHANGED <<down, got>>
  <2>1. Unsubscription(m.topic) \in Packets /\ Unsubscription(m.topic).type = "unsub"
    BY <1>5, ChangedPackets, MadePackets DEF Unsubscription, Blank
  <2>2. \A b \in Aides : Silent(up[b], up'[b])
    BY <1>7, <2>1, PushedUp
  <2>3. \A b \in Aides : Silent(down[b], down'[b])
    BY <1>7 DEF Silent
  <2>4. QED
    BY <1>5, <1>6, <1>7, <2>2, <2>3, SilentSteps
<1>8. CASE HasEntry(a, m.topic) /\ WriteDownstream(a, ks, m) /\ UNCHANGED up
  <2>1. ASSUME NEW c \in Clients, got'[c] # got[c]
        PROVE  /\ Home[c] = a
               /\ \E g \in Receipts : got'[c] = Append(got[c], g) /\ g.id = m.id /\ g.by = m.by
    <3>1. /\ ClientContact(c) \in ks
          /\ \E g \in Receipts : got'[c] = Append(got[c], g) /\ g.id = m.id /\ g.by = m.by
      BY <1>3, <1>5, <1>8, <2>1, WrittenToClients
    <3>2. subs[a][m.topic] \in EntriesAt(a)
      BY <1>3, <1>5, <1>8, ChangedPackets, EntryOf DEF IInv
    <3>3. ClientContact(c) \in WatchersAt(a)
      BY <1>2, <3>1, <3>2 DEF EntriesAt
    <3>4. QED
      BY <1>3, <3>1, <3>3 DEF WatchersAt, ClientContact
  <2>2. ASSUME NEW c \in Clients, NEW p \in Clients, Calm
        PROVE  IF Home[c] = Home[p] THEN LocalStep(c, p) ELSE RemoteStep(c, p)
    <3>1. Home[c] \in Aides /\ Home[p] \in Aides
      BY LookupAssumption
    <3>2. \A R : \A b \in Aides : Shifts(incoming[b], incoming'[b], R)
      BY <1>6 DEF Shifts, Nodes
    <3>3. CASE Home[c] = Home[p]
      <4>1. Shifts(got[c], got'[c], Received(p))
        <5>1. CASE got'[c] # got[c]
          <6>1. PICK g \in Receipts : got'[c] = Append(got[c], g) /\ g.by = m.by
            BY <2>1, <5>1
          <6>2. m.by # p
            BY <1>5, <2>1, <2>2, <3>3, <5>1
          <6>3. QED
            BY <6>1, <6>2 DEF Shifts, Received, Carried
        <5>2. QED
          BY <5>1 DEF Shifts
      <4>2. QED
        BY <3>1, <3>2, <3>3, <4>1 DEF LocalStep, Gets, Starts
    <3>4. CASE Home[c] # Home[p]
      <4>1. Gets(got[c], got'[c], Received(p),
                 incoming[Home[c]], incoming'[Home[c]], Messages("pubDown", p))
        <5>1. CASE got'[c] # got[c]
          <6>1. PICK g \in Receipts : got'[c] = Append(got[c], g) /\ g.id = m.id /\ g.by = m.by
            BY <2>1, <5>1
          <6>2. Home[c] = a /\ g \in Carried
            BY <2>1, <5>1 DEF Carried
          <6>3. CASE m.by = p
            <7>1. Head(incoming[a]) \in Messages("pubDown", p)
              BY <1>1, <1>5, <6>3 DEF Messages
            <7>2. QED
              BY <1>1, <1>6, <6>1, <6>2, <7>1 DEF Gets, Passes
          <6>4. CASE m.by # p
            BY <6>1, <6>2, <6>4 DEF Gets, Shifts, Received
          <6>5. QED
            BY <6>3, <6>4
        <5>2. QED
          BY <5>1 DEF Gets, Shifts
      <4>2. incoming'[Guru] = incoming[Guru] /\ down' = down /\ up' = up
        BY <1>3, <1>5, <1>6, <1>8, WrittenToClients
      <4>3. QED
        BY <3>1, <3>2, <3>4, <4>1, <4>2 DEF RemoteStep, Gets, Starts, Shifts
    <3>5. QED
      BY <3>3, <3>4
  <2>3. QED
    BY <1>5, <2>2, WaysKept
<1>9. QED
  BY <1>4, <1>7, <1>8

\* What an aide sends reaches the guru in the order it was pushed.
LEMMA PumpOrder ==
    ASSUME IInv, OrderInv, NEW a \in Aides, Pump(a)
    PROVE  OrderInv'
<1>1. PICK m : m = Head(up[a])
  OBVIOUS
<1>2. PICK x : x = [m EXCEPT !.from = Link(a)]
  OBVIOUS
<1>3. /\ up[a] # <<>> /\ up' = [up EXCEPT ![a] = Tail(@)]
      /\ incoming' = [incoming EXCEPT ![Guru] = Append(@, x)]
      /\ UNCHANGED <<down, got, ops>>
  BY <1>1, <1>2 DEF Pump, outVars, envVars
<1>4. m \in AideUp(a)
  BY <1>1, <1>3, UpShrinks DEF IInv
<1>5. Link(a) \in Contacts
  BY ContactsOK DEF IInv
<1>6. m \in Packets /\ x \in Packets /\ x.type = m.type /\ x.by = m.by /\ x.id = m.id
  BY <1>2, <1>4, <1>5, ChangedPackets DEF AideUp, Packets
<1>7. Guru \in Nodes /\ Guru \notin Aides
  BY LookupAssumption DEF Nodes
<1>8. /\ incoming'[Guru] = Append(incoming[Guru], x)
      /\ \A k \in Aides : incoming'[k] = incoming[k]
  BY <1>3, <1>6, <1>7, AddedTo DEF Nodes
<1>9. Dropped(up[a], up'[a]) /\ \A b \in Aides : b # a => up'[b] = up[b]
  BY <1>3 DEF Dropped, IInv, UpInv
<1>10. ASSUME NEW c \in Clients, NEW p \in Clients
       PROVE  LocalStep(c, p) /\ RemoteStep(c, p)
  <2>1. Home[c] \in Aides /\ Home[p] \in Aides
    BY LookupAssumption
  <2>2. Gets(incoming[Guru], incoming'[Guru], Messages("pub", p),
             up[Home[p]], up'[Home[p]], Messages("pub", p))
    <3>1. CASE x \in Messages("pub", p)
      <4>1. Home[p] = a /\ m \in Messages("pub", p)
        BY <1>4, <1>6, <3>1 DEF Messages, AideUp, FromAide
      <4>2. QED
        BY <1>1, <1>6, <1>8, <1>9, <4>1 DEF Gets, Passes, Carried
    <3>2. CASE x \notin Messages("pub", p)
      BY <1>6, <1>8, <3>2 DEF Gets, Shifts, Carried
    <3>3. QED
      BY <3>1, <3>2
  <2>3. Shifts(up[Home[p]], up'[Home[p]], Messages("pub", p))
    BY <1>9, <2>1 DEF Shifts
  <2>4. QED
    BY <1>3, <1>8, <2>1, <2>2, <2>3 DEF LocalStep, RemoteStep, Gets, Starts, Shifts
<1>11. QED
  BY <1>3, <1>10, WaysKept

\* An aide reads what the guru sends in the order it was sent.
LEMMA ReceiveOrder ==
    ASSUME IInv, OrderInv, NEW a \in Aides, Receive(a)
    PROVE  OrderInv'
<1>1. PICK h : h = Head(down[a])
  OBVIOUS
<1>2. /\ down[a] # <<>> /\ down' = [down EXCEPT ![a] = Tail(@)]
      /\ incoming' = [incoming EXCEPT ![a] = Append(@, h)]
      /\ UNCHANGED <<up, got, ops>>
  BY <1>1 DEF Receive, outVars, envVars
<1>3. h \in Packets /\ h.type \in {"subDown", "pubDown"}
  BY <1>1, <1>2, DownShrinks DEF IInv, AideDown
<1>4. a \in Nodes /\ a # Guru /\ Guru \in Nodes
  BY LookupAssumption DEF Nodes
<1>5. /\ incoming'[a] = Append(incoming[a], h)
      /\ \A k \in Nodes : k # a => incoming'[k] = incoming[k]
  BY <1>2, <1>3, <1>4, AddedTo
<1>6. Dropped(down[a], down'[a]) /\ \A b \in Aides : b # a => down'[b] = down[b]
  BY <1>2 DEF Dropped, IInv, DownInv
<1>7. ASSUME NEW c \in Clients, NEW p \in Clients
      PROVE  LocalStep(c, p) /\ RemoteStep(c, p)
  <2>1. /\ Home[c] \in Aides /\ Home[p] \in Aides
        /\ Home[c] \in Nodes /\ Home[p] \in Nodes
    BY LookupAssumption DEF Nodes
  <2>2. Shifts(incoming[Home[p]], incoming'[Home[p]], Messages("pub", p))
    <3>1. h \notin Messages("pub", p) /\ h \in Carried
      BY <1>3 DEF Messages, Carried
    <3>2. QED
      BY <1>5, <2>1, <3>1 DEF Shifts
  <2>3. Gets(incoming[Home[c]], incoming'[Home[c]], Messages("pubDown", p),
             down[Home[c]], down'[Home[c]], Messages("pubDown", p))
    <3>1. CASE Home[c] = a
      BY <1>1, <1>3, <1>5, <1>6, <3>1 DEF Gets, Shifts, Passes, Carried
    <3>2. CASE Home[c] # a
      BY <1>5, <2>1, <3>2 DEF Gets, Shifts
    <3>3. QED
      BY <3>1, <3>2
  <2>4. Shifts(down[Home[c]], down'[Home[c]], Messages("pubDown", p))
    BY <1>6, <2>1 DEF Shifts
  <2>5. incoming'[Guru] = incoming[Guru]
    BY <1>4, <1>5
  <2>6. QED
    BY <1>2, <2>2, <2>3, <2>4, <2>5 DEF LocalStep, RemoteStep, Gets, Starts, Shifts
<1>8. QED
  BY <1>2, <1>7, WaysKept

\* A new message has the highest number.
LEMMA ClientPublishOrder ==
    ASSUME IInv, OrderInv, NEW e \in Clients, ClientPublish(e)
    PROVE  OrderInv'
<1>1. PICK t \in Topics :
         Queue(e, [Blank EXCEPT !.type = "pub", !.topic = t, !.id = ops + 1, !.by = e])
  BY DEF ClientPublish
<1>2. PICK m : m = [Blank EXCEPT !.type = "pub", !.topic = t, !.id = ops + 1, !.by = e]
  OBVIOUS
<1>3. PICK x : x = [m EXCEPT !.from = ClientContact(e)]
  OBVIOUS
<1>4. /\ incoming' = [incoming EXCEPT ![Home[e]] = Append(@, x)] /\ ops' = ops + 1
      /\ UNCHANGED <<up, down, got>>
  BY <1>1, <1>2, <1>3 DEF Queue, outVars
<1>5. x \in Packets /\ x.type = "pub" /\ x.by = e /\ x.id = ops + 1
  <2>1. ops + 1 \in Nat
    BY DEF IInv, ClientsOK
  <2>2. m \in Packets /\ m.type = "pub" /\ m.by = e /\ m.id = ops + 1
    BY <1>2, <2>1, MadePackets DEF Blank, Packets, PacketTypes
  <2>3. QED
    BY <1>3, <2>2, ContactsOK DEF Packets
<1>6. Home[e] \in Nodes /\ Home[e] # Guru /\ Guru \in Nodes
  BY LookupAssumption DEF Nodes
<1>7. /\ incoming'[Home[e]] = Append(incoming[Home[e]], x)
      /\ \A k \in Nodes : k # Home[e] => incoming'[k] = incoming[k]
  BY <1>4, <1>5, <1>6, AddedTo
<1>8. ASSUME NEW c \in Clients, NEW p \in Clients
      PROVE  LocalStep(c, p) /\ RemoteStep(c, p)
  <2>1. Home[c] \in Nodes /\ Home[p] \in Nodes /\ x \in Carried
    BY <1>5, LookupAssumption DEF Nodes, Carried
  <2>2. Starts(incoming[Home[p]], incoming'[Home[p]], Messages("pub", p), ops, ops')
    <3>1. CASE Home[p] = Home[e]
      BY <1>4, <1>5, <1>7, <2>1, <3>1 DEF Starts, Enters
    <3>2. CASE Home[p] # Home[e]
      BY <1>7, <2>1, <3>2 DEF Starts, Shifts
    <3>3. QED
      BY <3>1, <3>2
  <2>3. Shifts(incoming[Home[c]], incoming'[Home[c]], Messages("pubDown", p))
    <3>1. x \notin Messages("pubDown", p)
      BY <1>5 DEF Messages
    <3>2. QED
      BY <1>7, <2>1, <3>1 DEF Shifts
  <2>4. incoming'[Guru] = incoming[Guru]
    BY <1>6, <1>7
  <2>5. QED
    BY <1>4, <2>2, <2>3, <2>4 DEF LocalStep, RemoteStep, Gets, Shifts
<1>9. QED
  BY <1>4, <1>8, WaysKept

LEMMA ClientSilentOrder ==
    ASSUME IInv, OrderInv, NEW c \in Clients, ClientSubscribe(c) \/ ClientUnsubscribe(c) \/ ClientClose(c)
    PROVE  OrderInv'
<1>1. CASE ClientClose(c)
  <2>1. ops' \in {ops, ops + 1} /\ UNCHANGED <<incoming, up, down, got>>
    BY <1>1 DEF ClientClose, outVars
  <2>2. QED
    BY <2>1, NoMessages
<1>2. ASSUME NEW m \in Packets, m.type \in {"sub", "unsub"}, Queue(c, m)
      PROVE  OrderInv'
  <2>1. PICK x : x = [m EXCEPT !.from = ClientContact(c)]
    OBVIOUS
  <2>2. x \in Packets /\ x.type = m.type
    BY <2>1, ContactsOK DEF Packets
  <2>3. /\ incoming' = [incoming EXCEPT ![Home[c]] = Append(@, x)] /\ ops' = ops + 1
        /\ UNCHANGED <<up, down, got>>
    BY <1>2, <2>1 DEF Queue, outVars
  <2>4. Home[c] \in Nodes
    BY LookupAssumption DEF Nodes
  <2>5. \A k \in Nodes : Silent(incoming[k], incoming'[k])
    BY <1>2, <2>2, <2>3, <2>4, AddedTo
  <2>6. \A a \in Aides : Silent(up[a], up'[a]) /\ Silent(down[a], down'[a])
    BY <2>3 DEF Silent
  <2>7. QED
    BY <2>3, <2>5, <2>6, SilentSteps
<1>3. CASE ClientSubscribe(c)
  <2>1. PICK t \in Topics, self \in SelfOption, stats \in StatsOption :
           Queue(c, [Subscription(t, FALSE) EXCEPT !.self = self, !.stats = stats])
    BY <1>3 DEF ClientSubscribe
  <2>2. PICK m : m = [Subscription(t, FALSE) EXCEPT !.self = self, !.stats = stats]
    OBVIOUS
  <2>3. Subscription(t, FALSE) \in Packets /\ Subscription(t, FALSE).type = "sub"
    BY MadePackets DEF Subscription, Blank
  <2>4. self \in BOOLEAN /\ stats \in BOOLEAN
    BY LookupAssumption
  <2>5. m \in Packets /\ m.type = "sub"
    BY <2>2, <2>3, <2>4 DEF Packets
  <2>6. QED
    BY <1>2, <2>1, <2>2, <2>5
<1>4. CASE ClientUnsubscribe(c)
  <2>1. PICK t \in Topics : Queue(c, Unsubscription(t))
    BY <1>4 DEF ClientUnsubscribe
  <2>2. Unsubscription(t) \in Packets /\ Unsubscription(t).type = "unsub"
    BY MadePackets DEF Unsubscription, Blank
  <2>3. QED
    BY <1>2, <2>1, <2>2
<1>5. QED
  BY <1>1, <1>3, <1>4

LEMMA NodeSilentOrder ==
    ASSUME IInv, OrderInv, NEW n \in Nodes,
           Heartbeat(n) \/ HeartBeatCallBack(n) \/ (n \in Aides /\ ProcessSubscribeDown(n))
    PROVE  OrderInv'
<1>1. CASE Heartbeat(n)
  <2>1. PICK x : x = [Blank EXCEPT !.type = "beat", !.id = now]
    OBVIOUS
  <2>2. x \in Packets /\ x.type = "beat"
    BY <2>1, MadePackets DEF Blank, Packets, PacketTypes, IInv, ClientsOK
  <2>3. incoming' = [incoming EXCEPT ![n] = Append(@, x)] /\ UNCHANGED <<up, down, got, ops>>
    BY <1>1, <2>1 DEF Heartbeat, outVars, envVars
  <2>4. \A k \in Nodes : Silent(incoming[k], incoming'[k])
    BY <2>2, <2>3, AddedTo
  <2>5. QED
    BY <2>3, <2>4, SilentSteps DEF Silent
<1>2. CASE HeartBeatCallBack(n) \/ (n \in Aides /\ ProcessSubscribeDown(n))
  <2>1. /\ incoming[n] # <<>> /\ incoming' = [incoming EXCEPT ![n] = Tail(@)]
        /\ UNCHANGED <<up, down, got, ops>>
    <3>1. CASE HeartBeatCallBack(n)
      BY <3>1 DEF HeartBeatCallBack, outVars, envVars
    <3>2. CASE n \in Aides /\ ProcessSubscribeDown(n)
      <4>1. n # Guru /\ Takes(n, "subDown") /\ UNCHANGED up
        BY <3>2, LookupAssumption DEF ProcessSubscribeDown
      <4>2. Head(incoming[n]).type = "subDown"
        BY <4>1 DEF Takes
      <4>3. UNCHANGED <<down, got>>
        BY <3>2, <4>1, <4>2 DEF ProcessSubscribeDown, WriteDownstream
      <4>4. QED
        BY <4>1, <4>3 DEF Takes, envVars
    <3>3. QED
      BY <1>2, <3>1, <3>2
  <2>2. \A k \in Nodes : Silent(incoming[k], incoming'[k])
    BY <2>1, TakenSilent
  <2>3. QED
    BY <2>1, <2>2, SilentSteps DEF Silent
<1>3. QED
  BY <1>1, <1>2

LEMMA DeferredOrder ==
    ASSUME IInv, OrderInv, NEW a \in Aides, DeferredUnsubscribe(a)
    PROVE  OrderInv'
<1>1. PICK t \in deferred[a] :
         PushUp(a, <<Unsubscription(t)>>) /\ UNCHANGED <<incoming, down, got, ops>>
  BY DEF DeferredUnsubscribe, outVars, envVars
<1>2. t \in Topics
  BY DEF IInv, TablesOK
<1>3. Unsubscription(t) \in Packets /\ Unsubscription(t).type = "unsub"
  BY <1>2, MadePackets DEF Unsubscription, Blank
<1>4. \A b \in Aides : Silent(up[b], up'[b])
  BY <1>1, <1>3, PushedUp
<1>5. QED
  BY <1>1, <1>4, SilentSteps DEF Silent

\* Without failures there are none of the steps that repeat or lose packets.
LEMMA FailureOrder ==
    ASSUME IInv, OrderInv, NEW a \in Aides,
           Break(a) \/ PumpIntoTheVoid(a) \/ Redial(a) \/ ReSubscribeMyTopics(a)
    PROVE  OrderInv'
<1>1. ~Calm
  <2>1. CASE Break(a)
    <3>1. gen[a] < MaxGen /\ (Calm => gen[a] = 1 /\ MaxGen <= 1)
      BY <2>1 DEF Break, IInv, SteadyInv, Calm, Steady
    <3>2. QED
      BY <3>1, LookupAssumption
  <2>2. CASE PumpIntoTheVoid(a) \/ Redial(a)
    BY <2>2 DEF PumpIntoTheVoid, Redial, IInv, SteadyInv, Calm
  <2>3. CASE ReSubscribeMyTopics(a)
    <3>1. a \in Nodes /\ In(a) = AideIn(a)
      BY KindsArePackets DEF Nodes
    <3>2. Head(incoming[a]) \in AideIn(a) /\ Head(incoming[a]).type = "resub"
      BY <2>3, <3>1, TakesOK DEF ReSubscribeMyTopics
    <3>3. QED
      BY <3>2 DEF AideIn, Calm
  <2>4. QED
    BY <2>1, <2>2, <2>3
<1>2. Calm' = Calm
  BY DEF Calm
<1>3. QED
  BY <1>1, <1>2 DEF OrderInv

LEMMA OrderInit == Init => OrderInv
<1> SUFFICES ASSUME Init, NEW c \in Clients, NEW p \in Clients
             PROVE  Ordered(LocalWay(c, p), OnLocalWay(p), ops) /\ Ordered(RemoteWay(c, p), OnRemoteWay(p), ops)
  BY DEF OrderInv
<1>1. Home[c] \in Aides /\ Home[p] \in Aides /\ Home[c] \in Nodes /\ Home[p] \in Nodes /\ Guru \in Nodes
  BY LookupAssumption DEF Nodes
<1>2. PICK F : F = LocalWay(c, p)
  OBVIOUS
<1>3. PICK G : G = RemoteWay(c, p)
  OBVIOUS
<1>4. /\ DOMAIN F = 1..2 /\ F[1] = <<>> /\ F[2] = <<>>
      /\ DOMAIN G = 1..6 /\ G[1] = <<>> /\ G[2] = <<>> /\ G[3] = <<>>
      /\ G[4] = <<>> /\ G[5] = <<>> /\ G[6] = <<>>
  BY <1>1, <1>2, <1>3 DEF Init, LocalWay, RemoteWay
<1>5. /\ \A k \in DOMAIN F : Len(F[k]) = 0
      /\ \A k \in DOMAIN G : Len(G[k]) = 0
  BY <1>4
<1>6. Ordered(F, OnLocalWay(p), ops) /\ Ordered(G, OnRemoteWay(p), ops)
  BY <1>5 DEF Ordered
<1>7. QED
  BY <1>2, <1>3, <1>6

LEMMA OrderStep == IInv /\ OrderInv /\ [Next]_vars => OrderInv'
<1> SUFFICES ASSUME IInv, OrderInv, [Next]_vars PROVE OrderInv'
  OBVIOUS
<1>1. CASE UNCHANGED vars
  BY <1>1, NoMessages DEF vars, outVars, envVars
<1>2. CASE \E c \in Clients : ClientStep(c)
  BY <1>2, ClientSilentOrder, ClientPublishOrder DEF ClientStep
<1>3. CASE \E n \in Nodes : Process(n)
  <2>1. PICK n \in Nodes : Process(n)
    BY <1>3
  <2>2. CASE ProcessPublish(n)
    BY <2>2, PublishOrderGuru, PublishOrderAide DEF Nodes
  <2>3. CASE ~ProcessPublish(n)
    BY <2>1, <2>3, SubscribeOrder, NodeSilentOrder, PublishDownOrder, FailureOrder DEF Process
  <2>4. QED
    BY <2>2, <2>3
<1>4. CASE \E n \in Nodes : Heartbeat(n)
  BY <1>4, NodeSilentOrder
<1>5. CASE \E a \in Aides : Carry(a) \/ DeferredUnsubscribe(a)
  BY <1>5, PumpOrder, ReceiveOrder, DeferredOrder DEF Carry
<1>6. CASE \E a \in Aides : Break(a) \/ PumpIntoTheVoid(a) \/ Redial(a)
  BY <1>6, FailureOrder
<1>7. CASE (\E k \in open : GuruNotices(k)) \/ Tick
  <2>1. UNCHANGED <<incoming, up, down, got, ops>>
    BY <1>7 DEF GuruNotices, Tick, outVars, envVars
  <2>2. QED
    BY <2>1, NoMessages
<1>8. QED
  BY <1>1, <1>2, <1>3, <1>4, <1>5, <1>6, <1>7 DEF Next

\* Where no connection fails and nobody asks for what it publishes itself, every
\* client gets the messages of a publisher in the order they were published and
\* none twice, on every way through the aides and the guru, and never its own.
THEOREM LookupInOrder == Spec => [](Calm => InOrder)
<1>1. IInv /\ OrderInv => (Calm => InOrder)
  <2> SUFFICES ASSUME IInv, OrderInv, Calm, NEW c \in Clients
               PROVE  /\ \A i \in DOMAIN got[c] : got[c][i].by = c => got[c][i].self
                      /\ \A i, j \in DOMAIN got[c] :
                            i < j /\ got[c][i].by = got[c][j].by => got[c][i].id < got[c][j].id
    BY DEF InOrder
  <2>1. got[c] \in Seq(Receipts)
    BY DEF IInv, OutputOK, Receipts
  <2>2. DOMAIN got[c] = 1..Len(got[c]) /\ \A i \in 1..Len(got[c]) : got[c][i] \in Receipts
    BY <2>1, LenProperties, ElementOfSeq
  <2>3. \A i \in 1..Len(got[c]) : got[c][i].by \in Clients /\ got[c][i].by # c
    BY DEF IInv, GotInv
  <2>4. ASSUME NEW i \in 1..Len(got[c]), NEW j \in 1..Len(got[c]), i < j,
               got[c][i].by = got[c][j].by
        PROVE  got[c][i].id < got[c][j].id
    <3>1. PICK p \in Clients : p = got[c][i].by
      BY <2>3
    <3>2. got[c][i] \in Received(p) /\ got[c][j] \in Received(p)
      BY <2>2, <2>4, <3>1 DEF Received
    <3>3. CASE Home[c] = Home[p]
      <4>1. PICK F : F = LocalWay(c, p)
        OBVIOUS
      <4>2. PICK R : R = OnLocalWay(p)
        OBVIOUS
      <4>3. 1 \in DOMAIN F /\ F[1] = got[c] /\ R[1] = Received(p)
        BY <4>1, <4>2 DEF LocalWay, OnLocalWay
      <4>4. Ordered(F, R, ops)
        BY <3>3, <4>1, <4>2 DEF OrderInv
      <4>5. QED
        BY <2>4, <3>2, <4>3, <4>4 DEF Ordered
    <3>4. CASE Home[c] # Home[p]
      <4>1. PICK F : F = RemoteWay(c, p)
        OBVIOUS
      <4>2. PICK R : R = OnRemoteWay(p)
        OBVIOUS
      <4>3. 1 \in DOMAIN F /\ F[1] = got[c] /\ R[1] = Received(p)
        BY <4>1, <4>2 DEF RemoteWay, OnRemoteWay
      <4>4. Ordered(F, R, ops)
        BY <3>4, <4>1, <4>2 DEF OrderInv
      <4>5. QED
        BY <2>4, <3>2, <4>3, <4>4 DEF Ordered
    <3>5. QED
      BY <3>3, <3>4
  <2>5. QED
    BY <2>2, <2>3, <2>4
<1>2. QED
  BY InitOK, StepOK, OrderInit, OrderStep, <1>1, PTL DEF Spec
----------------------------------------------------------------------------
(* Who must get a message gets it, or it is on its way                     *)

\* m is the i-th message, about topic t, in a packet of the given type.
Carries(m, type, i, t) == m.type = type /\ m.id = i /\ m.topic = t

Watching(c, t) == ClientContact(c) \in Watchers(Home[c], t)

\* Client c has not closed and is not about to unsubscribe anything.
Staying(c) ==
    /\ c \notin gone
    /\ \A m \in Range(incoming[Home[c]]) : m.type = "unsub" => m.from # ClientContact(c)

\* Aide a watches topic t at the guru, and no unsubscribe is on the way there.
GuruKnows(a, t) ==
    /\ Link(a) \in Watchers(Guru, t)
    /\ \A m \in Range(up[a]) : m.type = "unsub" => m.topic # t
    /\ \A m \in Range(incoming[Guru]) : m.type = "unsub" /\ m.from = Link(a) => m.topic # t

\* Clients of other aides than c's.
Strangers(c) == {d \in Clients : Home[d] # Home[c]}

\* The places in which the i-th message, about t, can be on its way to client c,
\* by a neighbour ...
Near(c, i, t) == \E m \in Range(incoming[Home[c]]) : Carries(m, "pub", i, t) /\ m.by # c
\* ... or by a stranger, and then up to the guru and down again.
Far(c, i, t) == \E b \in Aides : \E m \in Range(incoming[b]) :
                   Carries(m, "pub", i, t) /\ m.by \in Strangers(c)
Rising(c, i, t) == \E b \in Aides : \E m \in Range(up[b]) :
                   Carries(m, "pub", i, t) /\ m.by \in Strangers(c)
AtGuru(c, i, t) == \E m \in Range(incoming[Guru]) :
                   Carries(m, "pub", i, t) /\ m.by \in Strangers(c)
Sinking(c, i, t) == \E m \in Range(down[Home[c]]) : Carries(m, "pubDown", i, t)
Below(c, i, t) == \E m \in Range(incoming[Home[c]]) : Carries(m, "pubDown", i, t)

\* It gets there: the subscription stays in place everywhere it still has to pass.
Coming(c, i, t) ==
    /\ Watching(c, t)
    /\ \/ Near(c, i, t) \/ Below(c, i, t) \/ Sinking(c, i, t)
       \/ GuruKnows(Home[c], t) /\ (Far(c, i, t) \/ Rising(c, i, t) \/ AtGuru(c, i, t))

HasGot(c, i) == \E g \in Range(got[c]) : g.id = i

Served(c, i) == HasGot(c, i) \/ \E t \in Topics : Coming(c, i, t)

DueInv == Undisturbed =>
    \A i \in 1..MaxOps : \A c \in due[i] : Staying(c) /\ Served(c, i)
----------------------------------------------------------------------------
(* What is in a sequence *)

LEMMA RangeAppend ==
    ASSUME NEW S, NEW s \in Seq(S), NEW e \in S
    PROVE  Range(Append(s, e)) = Range(s) \cup {e}
<1>1. /\ DOMAIN s = 1..Len(s) /\ Len(s) \in Nat
      /\ DOMAIN Append(s, e) = 1..(Len(s) + 1)
      /\ \A i \in 1..Len(s) : Append(s, e)[i] = s[i]
      /\ Append(s, e)[Len(s) + 1] = e
  BY AppendElements, LenProperties
<1>2. \A i \in 1..(Len(s) + 1) : i \in 1..Len(s) \/ i = Len(s) + 1
  BY <1>1
<1>3. \A i \in 1..Len(s) : i \in 1..(Len(s) + 1)
  BY <1>1
<1>4. Len(s) + 1 \in 1..(Len(s) + 1)
  BY <1>1
<1>5. Range(Append(s, e)) \subseteq Range(s) \cup {e}
  BY <1>1, <1>2 DEF Range
<1>6. Range(s) \cup {e} \subseteq Range(Append(s, e))
  BY <1>1, <1>3, <1>4 DEF Range
<1>7. QED
  BY <1>5, <1>6

LEMMA RangeTail ==
    ASSUME NEW S, NEW s \in Seq(S), s # <<>>
    PROVE  Range(s) = {Head(s)} \cup Range(Tail(s))
<1>1. /\ DOMAIN s = 1..Len(s) /\ Len(s) \in Nat \ {0}
      /\ DOMAIN Tail(s) = 1..(Len(s) - 1)
      /\ \A i \in 1..(Len(s) - 1) : Tail(s)[i] = s[i + 1]
      /\ Head(s) = s[1]
  BY TailElements, LenProperties
<1>2. \A i \in 1..Len(s) : i = 1 \/ (i - 1 \in 1..(Len(s) - 1) /\ (i - 1) + 1 = i)
  BY <1>1
<1>3. \A i \in 1..(Len(s) - 1) : i + 1 \in 1..Len(s)
  BY <1>1
<1>4. 1 \in 1..Len(s)
  BY <1>1
<1>5. ASSUME NEW x \in Range(s)
      PROVE  x \in {Head(s)} \cup Range(Tail(s))
  <2>1. PICK i \in 1..Len(s) : x = s[i]
    BY <1>1, <1>5 DEF Range
  <2>2. CASE i = 1
    BY <1>1, <2>1, <2>2
  <2>3. CASE i - 1 \in 1..(Len(s) - 1) /\ (i - 1) + 1 = i
    <3>1. PICK j \in 1..(Len(s) - 1) : j = i - 1 /\ j + 1 = i
      BY <2>3
    <3>2. x = Tail(s)[j]
      BY <1>1, <2>1, <3>1
    <3>3. QED
      BY <1>1, <3>2 DEF Range
  <2>4. QED
    BY <1>2, <2>2, <2>3
<1>6. {Head(s)} \cup Range(Tail(s)) \subseteq Range(s)
  BY <1>1, <1>3, <1>4 DEF Range
<1>7. QED
  BY <1>5, <1>6

\* The elements of a sequence are in the set it is over.
LEMMA RangeOf ==
    ASSUME NEW S, NEW s \in Seq(S)
    PROVE  Range(s) \subseteq S
BY LenProperties, ElementOfSeq DEF Range

\* What the channels hold belongs there.
LEMMA WhatIsThere ==
    ASSUME IInv
    PROVE  /\ \A n \in Nodes : Range(incoming[n]) \subseteq In(n) /\ Range(incoming[n]) \subseteq Packets
           /\ \A a \in Aides : Range(up[a]) \subseteq AideUp(a)
           /\ \A a \in Aides : Range(down[a]) \subseteq AideDown(a)
<1>1. /\ \A n \in Nodes : incoming[n] \in Seq(In(n)) /\ incoming[n] \in Seq(Packets)
      /\ \A a \in Aides : up[a] \in Seq(AideUp(a)) /\ down[a] \in Seq(AideDown(a))
  BY DEF IInv, InInv, UpInv, DownInv
<1>2. QED
  BY <1>1, RangeOf

\* A packet put into a channel, the others being left alone.
LEMMA InRange ==
    ASSUME InInv, NEW n \in Nodes, NEW m \in Packets, incoming' = [incoming EXCEPT ![n] = Append(@, m)]
    PROVE  /\ Range(incoming'[n]) = Range(incoming[n]) \cup {m}
           /\ \A k \in Nodes : k # n => incoming'[k] = incoming[k]
<1>1. incoming \in [Nodes -> Seq(Packets)] /\ incoming[n] \in Seq(Packets)
  BY DEF InInv
<1>2. incoming'[n] = Append(incoming[n], m) /\ \A k \in Nodes : k # n => incoming'[k] = incoming[k]
  BY <1>1
<1>3. QED
  BY <1>1, <1>2, RangeAppend

\* A packet taken out of one.
LEMMA TakenRange ==
    ASSUME InInv, NEW n \in Nodes, incoming[n] # <<>>, incoming' = [incoming EXCEPT ![n] = Tail(@)]
    PROVE  /\ Range(incoming[n]) = {Head(incoming[n])} \cup Range(incoming'[n])
           /\ \A k \in Nodes : k # n => incoming'[k] = incoming[k]
<1>1. incoming \in [Nodes -> Seq(Packets)] /\ incoming[n] \in Seq(Packets)
  BY DEF InInv
<1>2. incoming'[n] = Tail(incoming[n]) /\ \A k \in Nodes : k # n => incoming'[k] = incoming[k]
  BY <1>1
<1>3. QED
  BY <1>1, <1>2, RangeTail

\* A packet pushed up.
LEMMA UpRange ==
    ASSUME UpInv, NEW a \in Aides, NEW m \in Packets, PushUp(a, <<m>>)
    PROVE  /\ Range(up'[a]) = Range(up[a]) \cup {m}
           /\ \A b \in Aides : b # a => up'[b] = up[b]
<1>1. up \in [Aides -> Seq(Packets)] /\ up[a] \in Seq(Packets)
  BY DEF UpInv
<1>2. up'[a] = up[a] \o <<m>> /\ \A b \in Aides : b # a => up'[b] = up[b]
  BY <1>1 DEF PushUp
<1>3. up[a] \o <<m>> = Append(up[a], m)
  BY <1>1, AppendIsConcat
<1>4. up'[a] = Append(up[a], m)
  BY <1>2, <1>3
<1>5. Range(Append(up[a], m)) = Range(up[a]) \cup {m}
  BY <1>1, RangeAppend
<1>6. QED
  BY <1>2, <1>4, <1>5

\* Node n takes the next packet.
LEMMA TakesRange ==
    ASSUME IInv, NEW n \in Nodes, NEW type, Takes(n, type)
    PROVE  LET m == Head(incoming[n])
           IN /\ m \in Range(incoming[n]) /\ m \in In(n) /\ m \in Packets /\ m.type = type
              /\ Range(incoming[n]) = {m} \cup Range(incoming'[n])
              /\ \A k \in Nodes : k # n => incoming'[k] = incoming[k]
              /\ UNCHANGED <<due, gone>>
<1>1. /\ incoming[n] # <<>> /\ incoming' = [incoming EXCEPT ![n] = Tail(@)]
      /\ Head(incoming[n]).type = type /\ UNCHANGED <<due, gone>>
  BY DEF Takes, envVars
<1>2. /\ Range(incoming[n]) = {Head(incoming[n])} \cup Range(incoming'[n])
      /\ \A k \in Nodes : k # n => incoming'[k] = incoming[k]
  BY <1>1, TakenRange DEF IInv
<1>3. Head(incoming[n]) \in Range(incoming[n])
  BY <1>2
<1>4. QED
  BY <1>1, <1>2, <1>3, WhatIsThere

\* Who watches what after an entry was set.
LEMMA WatchersAfter ==
    ASSUME TablesOK, NEW n \in Nodes, NEW t \in Topics, NEW e, SetEntry(n, t, e)
    PROVE  /\ e = NoEntry => Watchers(n, t)' = {}
           /\ e \in Entries => Watchers(n, t)' = e.w
           /\ \A k \in Nodes, u \in Topics : ~(k = n /\ u = t) => Watchers(k, u)' = Watchers(k, u)
<1>1. subs \in [Nodes -> [Topics -> Entries \cup {NoEntry}]] /\ subs' = [subs EXCEPT ![n][t] = e]
  BY DEF TablesOK, SetEntry
<1>2. subs'[n][t] = e /\ \A k \in Nodes, u \in Topics : ~(k = n /\ u = t) => subs'[k][u] = subs[k][u]
  BY <1>1
<1>3. QED
  BY <1>2, NoEntryAssumption DEF Watchers, HasEntry
----------------------------------------------------------------------------
(* Steps that lose no message on its way                                   *)

\* No message is lost from the channel of n, from up[a], from down[a] or by c.
KeepsIn(n) == \A m \in Range(incoming[n]) :
                 m.type \in {"pub", "pubDown"} => m \in Range(incoming'[n])
KeepsUp(a) == \A m \in Range(up[a]) : m.type \in {"pub", "pubDown"} => m \in Range(up'[a])
KeepsDown(a) == \A m \in Range(down[a]) : m.type \in {"pub", "pubDown"} => m \in Range(down'[a])
KeepsGot(c) == \A g \in Range(got[c]) : g \in Range(got'[c])

\* Then it stays where it is.
LEMMA Stays ==
    ASSUME NEW c \in Clients, NEW i, NEW t
    PROVE  /\ KeepsIn(Home[c]) => /\ Near(c, i, t) => Near(c, i, t)'
                                  /\ Below(c, i, t) => Below(c, i, t)'
           /\ KeepsDown(Home[c]) => (Sinking(c, i, t) => Sinking(c, i, t)')
           /\ KeepsIn(Guru) => (AtGuru(c, i, t) => AtGuru(c, i, t)')
           /\ (\A b \in Aides : KeepsUp(b)) => (Rising(c, i, t) => Rising(c, i, t)')
           /\ (\A b \in Aides : KeepsIn(b)) => (Far(c, i, t) => Far(c, i, t)')
           /\ KeepsGot(c) => (HasGot(c, i) => HasGot(c, i)')
<1>1. KeepsIn(Home[c]) => /\ Near(c, i, t) => Near(c, i, t)'
                          /\ Below(c, i, t) => Below(c, i, t)'
  BY DEF KeepsIn, Near, Below, Carries
<1>2. KeepsDown(Home[c]) => (Sinking(c, i, t) => Sinking(c, i, t)')
  BY DEF KeepsDown, Sinking, Carries
<1>3. KeepsIn(Guru) => (AtGuru(c, i, t) => AtGuru(c, i, t)')
  BY DEF KeepsIn, AtGuru, Carries, Strangers
<1>4. (\A b \in Aides : KeepsUp(b)) => (Rising(c, i, t) => Rising(c, i, t)')
  BY DEF KeepsUp, Rising, Carries, Strangers
<1>5. (\A b \in Aides : KeepsIn(b)) => (Far(c, i, t) => Far(c, i, t)')
  BY DEF KeepsIn, Far, Carries, Strangers
<1>6. KeepsGot(c) => (HasGot(c, i) => HasGot(c, i)')
  BY DEF KeepsGot, HasGot
<1>7. QED
  BY <1>1, <1>2, <1>3, <1>4, <1>5, <1>6

\* What a client received it keeps.
LEMMA GotRange ==
    ASSUME OutputOK, NEW c \in Clients, NEW g \in [id : Nat, by : Clients \cup {Guru}, self : BOOLEAN],
           got'[c] = Append(got[c], g)
    PROVE  Range(got'[c]) = Range(got[c]) \cup {g}
<1>1. PICK G : G = [id : Nat, by : Clients \cup {Guru}, self : BOOLEAN]
  OBVIOUS
<1>2. got[c] \in Seq(G) /\ g \in G
  BY <1>1 DEF OutputOK
<1>3. QED
  BY <1>2, RangeAppend

\* A step takes each message on its way to c one place further, or leaves it.
Onward(c, i, t) ==
    /\ Near(c, i, t) => Near(c, i, t)' \/ HasGot(c, i)'
    /\ Below(c, i, t) => Below(c, i, t)' \/ HasGot(c, i)'
    /\ Sinking(c, i, t) => Sinking(c, i, t)' \/ Below(c, i, t)'
    /\ GuruKnows(Home[c], t) /\ AtGuru(c, i, t) => AtGuru(c, i, t)' \/ Sinking(c, i, t)'
    /\ Rising(c, i, t) => Rising(c, i, t)' \/ AtGuru(c, i, t)'
    /\ Far(c, i, t) => Far(c, i, t)' \/ Rising(c, i, t)'

\* A step keeps the tables on the way to c.
TablesKept(c, t) ==
    /\ Watching(c, t) => Watching(c, t)'
    /\ Watching(c, t) /\ GuruKnows(Home[c], t) => GuruKnows(Home[c], t)'

\* A step keeps every promise to c.
Kept(c) ==
    /\ KeepsGot(c)
    /\ \A t \in Topics : TablesKept(c, t)
    /\ \A t \in Topics, i \in 1..MaxOps : Watching(c, t) => Onward(c, i, t)

LEMMA ServedStill ==
    ASSUME NEW c \in Clients, NEW i \in 1..MaxOps, Kept(c), Served(c, i)
    PROVE  Served(c, i)'
<1>1. HasGot(c, i) => HasGot(c, i)'
  BY Stays DEF Kept
<1>2. ASSUME NEW t \in Topics, Coming(c, i, t)
      PROVE  Coming(c, i, t)' \/ HasGot(c, i)'
  <2>1. Onward(c, i, t) /\ TablesKept(c, t)
    BY <1>2 DEF Kept, Coming
  <2>2. QED
    BY <1>2, <2>1 DEF Coming, Onward, TablesKept
<1>3. QED
  BY <1>1, <1>2 DEF Served

\* Nobody is expected to get a message anew, and the promises are kept to those
\* who stay.
LEMMA DueKept ==
    ASSUME ClientsOK, ClientsOK', DueInv,
           \A i \in 1..MaxOps : due'[i] \subseteq due[i],
           \A c \in Clients : Undisturbed /\ (\E i \in 1..MaxOps : c \in due'[i]) /\ Staying(c) =>
               Staying(c)' /\ Kept(c)
    PROVE  DueInv'
<1> SUFFICES ASSUME Undisturbed, NEW i \in 1..MaxOps, NEW c \in due'[i]
             PROVE  Staying(c)' /\ Served(c, i)'
  BY DEF DueInv, Undisturbed, Steady
<1>1. c \in Clients /\ Staying(c) /\ Served(c, i)
  BY DEF DueInv, ClientsOK
<1>2. Staying(c)' /\ Kept(c)
  BY <1>1
<1>3. QED
  BY <1>1, <1>2, ServedStill

\* A step that loses nothing keeps every promise if it keeps the tables.
LEMMA NothingLost ==
    ASSUME NEW c \in Clients, \A n \in Nodes : KeepsIn(n),
           \A a \in Aides : KeepsUp(a) /\ KeepsDown(a), KeepsGot(c),
           \A t \in Topics : TablesKept(c, t)
    PROVE  Kept(c)
<1>1. Home[c] \in Aides /\ Home[c] \in Nodes /\ Guru \in Nodes /\ Aides \subseteq Nodes
  BY LookupAssumption DEF Nodes
<1>2. ASSUME NEW t \in Topics, NEW i \in 1..MaxOps
      PROVE  Onward(c, i, t)
  BY <1>1, Stays DEF Onward
<1>3. QED
  BY <1>2 DEF Kept

\* A client hands its aide a packet.
LEMMA QueueKept ==
    ASSUME IInv, NEW c \in Clients, NEW m, NEW n, n = [m EXCEPT !.from = ClientContact(c)],
           n \in Packets, n.from = ClientContact(c), Queue(c, m)
    PROVE  /\ Range(incoming'[Home[c]]) = Range(incoming[Home[c]]) \cup {n}
           /\ UNCHANGED <<subs, up, down, link, gen, open, got, gone, incoming[Guru]>>
           /\ \A d \in Clients : Kept(d)
           /\ \A d \in Clients : Staying(d) /\ (n.type = "unsub" => d # c) => Staying(d)'
<1>1. Home[c] \in Nodes /\ Home[c] # Guru /\ Guru \in Nodes
  BY LookupAssumption DEF Nodes
<1>2. /\ incoming' = [incoming EXCEPT ![Home[c]] = Append(@, n)]
      /\ UNCHANGED <<subs, up, down, link, gen, open, got, gone>>
  BY DEF Queue, linkVars, outVars
<1>3. /\ Range(incoming'[Home[c]]) = Range(incoming[Home[c]]) \cup {n}
      /\ \A k \in Nodes : k # Home[c] => incoming'[k] = incoming[k]
  BY <1>1, <1>2, InRange DEF IInv
<1>4. ASSUME NEW d \in Clients PROVE Kept(d)
  <2>1. \A k \in Nodes : KeepsIn(k)
    BY <1>3 DEF KeepsIn
  <2>2. \A a \in Aides : KeepsUp(a) /\ KeepsDown(a)
    BY <1>2 DEF KeepsUp, KeepsDown
  <2>3. KeepsGot(d)
    BY <1>2 DEF KeepsGot
  <2>4. \A t \in Topics : TablesKept(d, t)
    BY <1>1, <1>2, <1>3 DEF TablesKept, Watching, GuruKnows, Watchers, HasEntry, Link
  <2>5. QED
    BY <2>1, <2>2, <2>3, <2>4, NothingLost
<1>5. ASSUME NEW d \in Clients, Staying(d), n.type = "unsub" => d # c
      PROVE  Staying(d)'
  <2>1. Home[d] \in Nodes
    BY LookupAssumption DEF Nodes
  <2>2. n.type = "unsub" => n.from # ClientContact(d)
    BY <1>5 DEF ClientContact
  <2>3. \A m0 \in Range(incoming'[Home[d]]) : m0 \in Range(incoming[Home[d]]) \/ m0 = n
    BY <1>3, <2>1
  <2>4. QED
    BY <1>2, <1>5, <2>2, <2>3 DEF Staying
<1>6. QED
  BY <1>1, <1>2, <1>3, <1>4, <1>5

LEMMA ClientSubscribeDue ==
    ASSUME IInv, IInv', DueInv, NEW c \in Clients, ClientSubscribe(c)
    PROVE  DueInv'
<1>1. PICK t \in Topics, self \in SelfOption, stats \in StatsOption :
         Queue(c, [Subscription(t, FALSE) EXCEPT !.self = self, !.stats = stats])
  BY DEF ClientSubscribe
<1>2. PICK m : m = [Subscription(t, FALSE) EXCEPT !.self = self, !.stats = stats]
  OBVIOUS
<1>3. PICK n : n = [m EXCEPT !.from = ClientContact(c)]
  OBVIOUS
<1>4. Subscription(t, FALSE) \in Packets /\ Subscription(t, FALSE).type = "sub"
  BY MadePackets DEF Subscription, Blank
<1>5. m \in Packets /\ m.type = "sub"
  BY <1>2, <1>4, LookupAssumption DEF Packets
<1>6. n \in Packets /\ n.type = "sub" /\ n.from = ClientContact(c)
  BY <1>3, <1>5, ContactsOK DEF Packets
<1>7. \A d \in Clients : Kept(d) /\ (Staying(d) => Staying(d)')
  BY <1>1, <1>2, <1>3, <1>6, QueueKept
<1>8. QED
  BY <1>7, DueKept DEF ClientSubscribe, IInv

\* Who is released is expected to get nothing.
LEMMA Released ==
    ASSUME ClientsOK, NEW c \in Clients, Release(c)
    PROVE  \A i \in 1..MaxOps : due'[i] = due[i] \ {c}
BY DEF ClientsOK, Release

LEMMA ClientUnsubscribeDue ==
    ASSUME IInv, IInv', DueInv, NEW c \in Clients, ClientUnsubscribe(c)
    PROVE  DueInv'
<1>1. PICK t \in Topics : Queue(c, Unsubscription(t))
  BY DEF ClientUnsubscribe
<1>2. PICK m : m = Unsubscription(t)
  OBVIOUS
<1>3. PICK n : n = [m EXCEPT !.from = ClientContact(c)]
  OBVIOUS
<1>4. m \in Packets /\ m.type = "unsub"
  BY <1>2, MadePackets DEF Unsubscription, Blank
<1>5. n \in Packets /\ n.type = "unsub" /\ n.from = ClientContact(c)
  BY <1>3, <1>4, ContactsOK DEF Packets
<1>6. \A d \in Clients : Kept(d) /\ (Staying(d) /\ d # c => Staying(d)')
  BY <1>1, <1>2, <1>3, <1>5, QueueKept
<1>7. \A i \in 1..MaxOps : due'[i] = due[i] \ {c}
  BY Released DEF ClientUnsubscribe, IInv
<1>8. QED
  BY <1>6, <1>7, DueKept DEF IInv

LEMMA ClientCloseDue ==
    ASSUME IInv, IInv', DueInv, NEW c \in Clients, ClientClose(c)
    PROVE  DueInv'
<1>1. /\ gone' = gone \cup {c}
      /\ UNCHANGED <<subs, incoming, up, down, link, gen, open, got>>
  BY DEF ClientClose, linkVars, outVars
<1>2. \A i \in 1..MaxOps : due'[i] = due[i] \ {c}
  BY Released DEF ClientClose, IInv
<1>3. ASSUME NEW d \in Clients PROVE Kept(d)
  <2>1. \A k \in Nodes : KeepsIn(k)
    BY <1>1 DEF KeepsIn
  <2>2. (\A a \in Aides : KeepsUp(a) /\ KeepsDown(a)) /\ KeepsGot(d)
    BY <1>1 DEF KeepsUp, KeepsDown, KeepsGot
  <2>3. \A t \in Topics : TablesKept(d, t)
    BY <1>1 DEF TablesKept, Watching, GuruKnows, Watchers, HasEntry, Link
  <2>4. QED
    BY <2>1, <2>2, <2>3, NothingLost
<1>4. \A d \in Clients : Staying(d) /\ d # c => Staying(d)'
  BY <1>1 DEF Staying
<1>5. QED
  BY <1>2, <1>3, <1>4, DueKept DEF IInv

\* A step of the clock, of the guru's side of a connection, or of nobody.
LEMMA IdleDue ==
    ASSUME IInv, IInv', DueInv,
           UNCHANGED <<subs, incoming, up, down, link, gen, got, due, gone>>
    PROVE  DueInv'
<1>1. ASSUME NEW d \in Clients PROVE Kept(d)
  <2>1. \A k \in Nodes : KeepsIn(k)
    BY DEF KeepsIn
  <2>2. (\A a \in Aides : KeepsUp(a) /\ KeepsDown(a)) /\ KeepsGot(d)
    BY DEF KeepsUp, KeepsDown, KeepsGot
  <2>3. \A t \in Topics : TablesKept(d, t)
    BY DEF TablesKept, Watching, GuruKnows, Watchers, HasEntry, Link
  <2>4. QED
    BY <2>1, <2>2, <2>3, NothingLost
<1>2. \A d \in Clients : Staying(d) => Staying(d)'
  BY DEF Staying
<1>3. QED
  BY <1>1, <1>2, DueKept DEF IInv

\* A subscription that is settled stays, and the guru knows of it.
LEMMA SettledMeans ==
    ASSUME IInv, NEW d \in Clients, NEW t \in Topics, d \notin gone, Settled(d, t)
    PROVE  Staying(d) /\ Watching(d, t) /\ GuruKnows(Home[d], t)
<1>1. PICK a : a = Home[d]
  OBVIOUS
<1>2. /\ ClientContact(d) \in Watchers(a, t)
      /\ \A m \in Range(incoming[a]) : m.type = "unsub" => m.from # ClientContact(d)
      /\ Link(a) \in Watchers(Guru, t)
      /\ \A m \in Range(incoming[Guru]) : m.from = Link(a) => ~(m.topic = t /\ m.type \in {"sub", "unsub"})
      /\ \A m \in Range(up[a]) : ~(m.topic = t /\ m.type \in {"sub", "unsub"})
  BY <1>1 DEF Settled
<1>3. QED
  BY <1>1, <1>2 DEF Staying, Watching, GuruKnows

\* A message is due to those whose subscription is settled, and on its way to
\* them.
LEMMA ClientPublishDue ==
    ASSUME IInv, IInv', DueInv, NEW c \in Clients, ClientPublish(c)
    PROVE  DueInv'
<1>1. PICK t \in Topics :
         /\ Queue(c, [Blank EXCEPT !.type = "pub", !.topic = t, !.id = ops + 1, !.by = c])
         /\ due' = [due EXCEPT ![ops + 1] = {d \in Clients \ (gone \cup {c}) : Settled(d, t)}]
  BY DEF ClientPublish
<1>2. PICK m : m = [Blank EXCEPT !.type = "pub", !.topic = t, !.id = ops + 1, !.by = c]
  OBVIOUS
<1>3. PICK n : n = [m EXCEPT !.from = ClientContact(c)]
  OBVIOUS
<1>4. ops + 1 \in Nat
  BY DEF IInv, ClientsOK
<1>5. m \in Packets /\ m.type = "pub" /\ m.by = c /\ m.id = ops + 1 /\ m.topic = t
  BY <1>2, <1>4, MadePackets DEF Packets, PacketTypes
<1>6. n \in Packets /\ n.type = "pub" /\ n.by = c /\ n.id = ops + 1 /\ n.topic = t
      /\ n.from = ClientContact(c)
  BY <1>3, <1>5, ContactsOK DEF Packets
<1>7. /\ Range(incoming'[Home[c]]) = Range(incoming[Home[c]]) \cup {n}
      /\ \A d \in Clients : Kept(d) /\ (Staying(d) => Staying(d)')
  BY <1>1, <1>2, <1>3, <1>6, QueueKept
<1>8. /\ due \in [1..MaxOps -> SUBSET Clients] /\ due' \in [1..MaxOps -> SUBSET Clients]
  BY DEF IInv, ClientsOK
<1>9. ASSUME Undisturbed, NEW i \in 1..MaxOps, NEW d \in due'[i]
      PROVE  Staying(d)' /\ Served(d, i)'
  <2>1. CASE i # ops + 1
    <3>1. due'[i] = due[i] /\ d \in Clients
      BY <1>1, <1>8, <1>9, <2>1
    <3>2. QED
      BY <1>7, <1>9, <3>1, ServedStill DEF DueInv
  <2>2. CASE i = ops + 1
    <3>1. d \in Clients /\ d \notin gone /\ d # c /\ Settled(d, t)
      BY <1>1, <1>8, <1>9, <2>2
    <3>2. Staying(d) /\ Watching(d, t) /\ GuruKnows(Home[d], t)
      BY <3>1, SettledMeans
    <3>3. Staying(d)' /\ Watching(d, t)' /\ GuruKnows(Home[d], t)'
      BY <1>7, <3>1, <3>2 DEF Kept, TablesKept
    <3>4. n \in Range(incoming'[Home[c]]) /\ Carries(n, "pub", i, t) /\ n.by = c
      BY <1>6, <1>7, <2>2 DEF Carries
    <3>5. CASE Home[d] = Home[c]
      <4>1. Near(d, i, t)'
        BY <3>1, <3>4, <3>5 DEF Near, Carries
      <4>2. QED
        BY <3>3, <4>1 DEF Served, Coming
    <3>6. CASE Home[d] # Home[c]
      <4>1. c \in Strangers(d) /\ Home[c] \in Aides
        BY <3>6, LookupAssumption DEF Strangers
      <4>2. Far(d, i, t)'
        BY <3>4, <4>1 DEF Far, Carries, Strangers
      <4>3. QED
        BY <3>3, <4>2 DEF Served, Coming
    <3>7. QED
      BY <3>5, <3>6
  <2>3. QED
    BY <2>1, <2>2
<1>10. QED
  BY <1>9 DEF DueInv, Undisturbed, Steady
----------------------------------------------------------------------------
(* Steps of nodes                                                          *)

\* A node that takes a packet takes no other, and nobody leaves by that.
LEMMA TakenKeeps ==
    ASSUME IInv, NEW n \in Nodes, NEW type, Takes(n, type)
    PROVE  /\ \A k \in Nodes : Range(incoming'[k]) \subseteq Range(incoming[k])
           /\ \A k \in Nodes : k # n => KeepsIn(k)
           /\ type \notin {"pub", "pubDown"} => KeepsIn(n)
           /\ \A c \in Clients : Staying(c) => Staying(c)'
           /\ UNCHANGED due
<1>1. PICK m : m = Head(incoming[n])
  OBVIOUS
<1>2. /\ m.type = type
      /\ Range(incoming[n]) = {m} \cup Range(incoming'[n])
      /\ \A k \in Nodes : k # n => incoming'[k] = incoming[k]
      /\ UNCHANGED <<due, gone>>
  BY <1>1, TakesRange
<1>3. \A k \in Nodes : Range(incoming'[k]) \subseteq Range(incoming[k])
  BY <1>2
<1>4. \A c \in Clients : Home[c] \in Nodes
  BY LookupAssumption DEF Nodes
<1>5. \A c \in Clients : Staying(c) => Staying(c)'
  BY <1>2, <1>3, <1>4 DEF Staying
<1>6. (\A k \in Nodes : k # n => KeepsIn(k)) /\ (type \notin {"pub", "pubDown"} => KeepsIn(n))
  BY <1>2 DEF KeepsIn
<1>7. QED
  BY <1>2, <1>3, <1>5, <1>6

\* What is in upc.up after a node pushed a packet up.
LEMMA UpAfter ==
    ASSUME IInv, NEW n \in Nodes, NEW m \in Packets, MaybePushUp(n, <<m>>)
    PROVE  /\ \A a \in Aides : KeepsUp(a)
           /\ \A a \in Aides : a # n => up'[a] = up[a]
           /\ n # Guru => n \in Aides /\ Range(up'[n]) = Range(up[n]) \cup {m}
<1>1. CASE n = Guru
  BY <1>1, LookupAssumption DEF MaybePushUp, KeepsUp
<1>2. CASE n # Guru
  <2>1. n \in Aides /\ PushUp(n, <<m>>)
    BY <1>2 DEF Nodes, MaybePushUp
  <2>2. Range(up'[n]) = Range(up[n]) \cup {m} /\ \A b \in Aides : b # n => up'[b] = up[b]
    BY <2>1, UpRange DEF IInv
  <2>3. QED
    BY <1>2, <2>1, <2>2 DEF KeepsUp
<1>3. QED
  BY <1>1, <1>2

\* The guru writes a packet to aides.
LEMMA WrittenDown ==
    ASSUME IInv, NEW ks, NEW m \in Packets, WriteDownstream(Guru, ks, m)
    PROVE  /\ \A a \in Aides : KeepsDown(a)
           /\ \A a \in Aides : Link(a) \in ks /\ link[a] = "up" => m \in Range(down'[a])
           /\ UNCHANGED got
<1> DEFINE to == {a \in Aides : Link(a) \in ks /\ link[a] # "down"}
<1>1. /\ down' = [a \in Aides |-> IF a \in to THEN Append(down[a], m) ELSE down[a]]
      /\ UNCHANGED got
  BY DEF WriteDownstream, outVars
<1>2. \A a \in Aides : Link(a) \in ks /\ link[a] = "up" => a \in to
  OBVIOUS
<1> HIDE DEF to
<1>3. ASSUME NEW a \in Aides
      PROVE  /\ down'[a] = down[a] \/ Range(down'[a]) = Range(down[a]) \cup {m}
             /\ a \in to => Range(down'[a]) = Range(down[a]) \cup {m}
  <2>1. down[a] \in Seq(Packets)
    BY DEF IInv, DownInv
  <2>2. Range(Append(down[a], m)) = Range(down[a]) \cup {m}
    BY <2>1, RangeAppend
  <2>3. down'[a] = IF a \in to THEN Append(down[a], m) ELSE down[a]
    BY <1>1
  <2>4. QED
    BY <2>2, <2>3
<1>4. QED
  BY <1>1, <1>2, <1>3 DEF KeepsDown

\* An aide writes a packet to clients.
LEMMA WrittenOut ==
    ASSUME IInv, NEW n \in Nodes, n # Guru, NEW ks, NEW m \in Packets, WriteDownstream(n, ks, m)
    PROVE  /\ \A c \in Clients : KeepsGot(c)
           /\ \A c \in Clients : ClientContact(c) \in ks /\ m.type # "subDown" => HasGot(c, m.id)'
           /\ UNCHANGED down
<1>1. CASE m.type = "subDown"
  BY <1>1 DEF WriteDownstream, KeepsGot
<1>2. CASE m.type # "subDown"
  <2> DEFINE g(c) == [id |-> m.id, by |-> m.by, self |-> ClientContact(c) \in subs[n][m.topic].selfs]
  <2>1. /\ got' = [c \in Clients |-> IF ClientContact(c) \in ks THEN Append(got[c], g(c)) ELSE got[c]]
        /\ UNCHANGED down
    BY <1>2 DEF WriteDownstream
  <2>2. \A c \in Clients : g(c) \in [id : Nat, by : Clients \cup {Guru}, self : BOOLEAN] /\ g(c).id = m.id
    <3>1. m.id \in Nat /\ m.by \in Clients \cup {Guru}
      BY ChangedPackets
    <3>2. QED
      BY <3>1
  <2> HIDE DEF g
  <2>3. ASSUME NEW c \in Clients, ClientContact(c) \in ks
        PROVE  KeepsGot(c) /\ HasGot(c, m.id)'
    <3>1. got'[c] = Append(got[c], g(c))
      BY <2>1, <2>3
    <3>2. Range(got'[c]) = Range(got[c]) \cup {g(c)}
      BY <2>2, <3>1, GotRange DEF IInv
    <3>3. m.id' = m.id
      OBVIOUS
    <3>4. QED
      BY <2>2, <3>2 DEF KeepsGot, HasGot
  <2>4. ASSUME NEW c \in Clients, ClientContact(c) \notin ks
        PROVE  KeepsGot(c)
    BY <2>1, <2>4 DEF KeepsGot
  <2>5. QED
    BY <2>1, <2>3, <2>4
<1>3. QED
  BY <1>1, <1>2

\* What the guru knows it knows after a step that keeps the watchers and sends
\* no unsubscribe.
LEMMA GuruStillKnows ==
    ASSUME NEW a \in Aides, NEW t \in Topics, UNCHANGED gen, GuruKnows(a, t),
           Range(incoming'[Guru]) \subseteq Range(incoming[Guru]),
           \A m \in Range(up'[a]) : m \in Range(up[a]) \/ m.type # "unsub" \/ m.topic # t,
           Link(a) \in Watchers(Guru, t)'
    PROVE  GuruKnows(a, t)'
BY DEF GuruKnows, Link

LEMMA ProcessSubscribeDue ==
    ASSUME IInv, IInv', DueInv, NEW n \in Nodes, ProcessSubscribe(n)
    PROVE  DueInv'
<1>1. PICK m : m = Head(incoming[n])
  OBVIOUS
<1>2. PICK e : e = IF HasEntry(n, m.topic) THEN subs[n][m.topic] ELSE FreshEntry
  OBVIOUS
<1>3. PICK x : x = [e EXCEPT !.w = @ \cup {m.from},
                             !.selfs = IF m.self /\ m.from \notin e.w THEN @ \cup {m.from} ELSE @,
                             !.bill = @ \/ m.stats,
                             !.exp = now + SubTTL]
  OBVIOUS
<1>4. PICK d : d = [m EXCEPT !.type = "subDown"]
  OBVIOUS
<1>5. /\ Takes(n, "sub")
      /\ SetEntry(n, m.topic, x)
      /\ IF Acks(n, m) THEN WriteDownstream(n, {k \in {m.from} : IsOpen(k)}, d)
                       ELSE UNCHANGED <<down, outVars>>
      /\ MaybePushUp(n, <<m>>)
      /\ UNCHANGED linkVars
  BY <1>1, <1>2, <1>3, <1>4 DEF ProcessSubscribe
<1>6. /\ m \in In(n) /\ m \in Packets /\ m.type = "sub"
  BY <1>1, <1>5, TakesRange
<1>7. /\ \A k \in Nodes : KeepsIn(k) /\ Range(incoming'[k]) \subseteq Range(incoming[k])
      /\ \A c \in Clients : Staying(c) => Staying(c)'
      /\ UNCHANGED due
  BY <1>5, TakenKeeps
<1>8. /\ \A a \in Aides : KeepsUp(a)
      /\ \A a \in Aides : \A p \in Range(up'[a]) : p \in Range(up[a]) \/ p.type # "unsub"
  <2>1. /\ \A a \in Aides : KeepsUp(a)
        /\ \A a \in Aides : a # n => up'[a] = up[a]
        /\ n # Guru => n \in Aides /\ Range(up'[n]) = Range(up[n]) \cup {m}
    BY <1>5, <1>6, UpAfter
  <2>2. QED
    BY <1>6, <2>1, LookupAssumption
<1>9. (\A a \in Aides : KeepsDown(a)) /\ \A c \in Clients : KeepsGot(c)
  <2>1. CASE ~Acks(n, m)
    BY <1>5, <2>1 DEF outVars, KeepsDown, KeepsGot
  <2>2. CASE Acks(n, m)
    <3>1. d \in Packets /\ n = Guru
      BY <1>4, <1>6, <2>2, ChangedPackets DEF Acks, PacketTypes
    <3>2. QED
      BY <1>5, <2>2, <3>1, WrittenDown DEF KeepsGot
  <2>3. QED
    BY <2>1, <2>2
<1>10. \A k \in Nodes, u \in Topics : Watchers(k, u) \subseteq Watchers(k, u)'
  <2>1. m.topic \in Topics /\ m.stats \in BOOLEAN /\ m.from \in Contacts
    <3>1. m.from \in WatchersAt(n)
      BY <1>6 DEF In, GuruIn, AideIn, Requests
    <3>2. QED
      BY <1>6, <3>1, ChangedPackets, WatchersAreContacts
  <2>2. now + SubTTL \in Nat
    BY LookupAssumption DEF IInv, ClientsOK
  <2>3. e \in Entries /\ Watchers(n, m.topic) = e.w
    <3>1. CASE HasEntry(n, m.topic)
      BY <1>2, <2>1, <3>1, EntryOf DEF IInv, Watchers
    <3>2. CASE ~HasEntry(n, m.topic)
      BY <1>2, <3>2 DEF FreshEntry, Entries, Watchers
    <3>3. QED
      BY <3>1, <3>2
  <2>4. x \in Entries /\ x.w = e.w \cup {m.from}
    BY <1>3, <2>1, <2>2, <2>3 DEF Entries
  <2>5. /\ Watchers(n, m.topic)' = e.w \cup {m.from}
        /\ \A k \in Nodes, u \in Topics : ~(k = n /\ u = m.topic) => Watchers(k, u)' = Watchers(k, u)
    BY <1>5, <2>1, <2>4, WatchersAfter DEF IInv
  <2>6. QED
    BY <2>3, <2>5
<1>11. ASSUME NEW c \in Clients PROVE Kept(c)
  <2>1. Home[c] \in Aides /\ Home[c] \in Nodes /\ Guru \in Nodes
    BY LookupAssumption DEF Nodes
  <2>2. ASSUME NEW t \in Topics PROVE TablesKept(c, t)
    <3>1. Watching(c, t) => Watching(c, t)'
      BY <1>10, <2>1 DEF Watching
    <3>2. GuruKnows(Home[c], t) => Link(Home[c]) \in Watchers(Guru, t)'
      BY <1>10, <2>1 DEF GuruKnows
    <3>3. GuruKnows(Home[c], t) => GuruKnows(Home[c], t)'
      BY <1>5, <1>7, <1>8, <2>1, <3>2, GuruStillKnows DEF linkVars
    <3>4. QED
      BY <3>1, <3>3 DEF TablesKept
  <2>3. QED
    BY <1>7, <1>8, <1>9, <2>2, NothingLost
<1>12. QED
  BY <1>7, <1>11, DueKept DEF IInv

\* A topic loses the watcher that leaves, and is forgotten with its last one.
LEMMA ProcessUnsubscribeDue ==
    ASSUME IInv, IInv', DueInv, NEW n \in Nodes, ProcessUnsubscribe(n)
    PROVE  DueInv'
<1>1. PICK m : m = Head(incoming[n])
  OBVIOUS
<1>2. PICK e : e = subs[n][m.topic]
  OBVIOUS
<1>3. PICK left : left = [e EXCEPT !.w = @ \ {m.from}, !.selfs = @ \ {m.from}]
  OBVIOUS
<1>4. Takes(n, "unsub") /\ UNCHANGED <<down, link, gen, open, acked, got>>
  BY DEF ProcessUnsubscribe, linkVars, outVars
<1>5. \/ UNCHANGED <<subs, up>>
      \/ /\ HasEntry(n, m.topic) /\ SetEntry(n, m.topic, left)
         /\ UNCHANGED up \/ (e.owned /\ MaybePushUp(n, <<m>>))
      \/ /\ HasEntry(n, m.topic) /\ e.w \ {m.from} = {}
         /\ SetEntry(n, m.topic, NoEntry) /\ MaybePushUp(n, <<m>>)
  BY <1>1, <1>2, <1>3 DEF ProcessUnsubscribe, LastWatcherGone
<1>6. /\ m \in Range(incoming[n]) /\ m \in In(n) /\ m \in Packets /\ m.type = "unsub" /\ m.topic \in Topics
  BY <1>1, <1>4, TakesRange, ChangedPackets
<1>7. /\ \A k \in Nodes : KeepsIn(k) /\ Range(incoming'[k]) \subseteq Range(incoming[k])
      /\ \A c \in Clients : Staying(c) => Staying(c)'
      /\ UNCHANGED due
  BY <1>4, TakenKeeps
<1>8. \A a \in Aides : KeepsUp(a)
  BY <1>5, <1>6, UpAfter DEF KeepsUp
<1>9. (\A a \in Aides : KeepsDown(a)) /\ \A c \in Clients : KeepsGot(c)
  BY <1>4 DEF KeepsDown, KeepsGot
\* Only m.from stops watching, and only what it was the last to watch is sent on.
<1>10. /\ \A k \in Nodes, u \in Topics : ~(k = n /\ u = m.topic) => Watchers(k, u)' = Watchers(k, u)
       /\ Watchers(n, m.topic) \ {m.from} \subseteq Watchers(n, m.topic)'
  <2>1. CASE UNCHANGED subs
    BY <2>1 DEF Watchers, HasEntry
  <2>2. CASE HasEntry(n, m.topic)
    <3>1. e \in EntriesAt(n) /\ e \in Entries /\ Watchers(n, m.topic) = e.w
      BY <1>2, <1>6, <2>2, EntryOf DEF IInv, Watchers
    <3>2. left \in Entries /\ left.w = e.w \ {m.from}
      BY <1>3, <3>1 DEF Entries
    <3>3. CASE SetEntry(n, m.topic, left)
      BY <1>6, <3>1, <3>2, <3>3, WatchersAfter DEF IInv
    <3>4. CASE SetEntry(n, m.topic, NoEntry) /\ e.w \ {m.from} = {}
      BY <1>6, <3>1, <3>4, WatchersAfter DEF IInv
    <3>5. QED
      BY <1>5, <2>1, <3>3, <3>4
  <2>3. QED
    BY <1>5, <2>1, <2>2
<1>11. /\ \A a \in Aides : a # n => up'[a] = up[a]
       /\ n # Guru => \/ up'[n] = up[n]
                      \/ Range(up'[n]) = Range(up[n]) \cup {m} /\ Watchers(n, m.topic) \ {m.from} = {}
  <2>1. CASE UNCHANGED up
    BY <2>1
  <2>2. CASE HasEntry(n, m.topic) /\ MaybePushUp(n, <<m>>) /\ (e.owned \/ e.w \ {m.from} = {})
    <3>1. e \in EntriesAt(n) /\ Watchers(n, m.topic) = e.w
      BY <1>2, <1>6, <2>2, EntryOf DEF IInv, Watchers
    <3>2. n # Guru => Watchers(n, m.topic) \ {m.from} = {}
      BY <2>2, <3>1 DEF EntriesAt
    <3>3. QED
      BY <1>6, <2>2, <3>2, UpAfter
  <2>3. QED
    BY <1>5, <2>1, <2>2
<1>12. ASSUME NEW c \in Clients, Staying(c) PROVE Kept(c)
  <2>1. Home[c] \in Aides /\ Home[c] \in Nodes /\ Home[c] # Guru /\ Guru \in Nodes
    BY LookupAssumption DEF Nodes
  <2>2. n = Home[c] => m.from # ClientContact(c)
    BY <1>6, <1>12 DEF Staying
  <2>3. ASSUME NEW t \in Topics PROVE TablesKept(c, t)
    <3>1. Watching(c, t) => Watching(c, t)'
      BY <1>10, <2>1, <2>2 DEF Watching
    <3>2. ASSUME Watching(c, t), GuruKnows(Home[c], t)
          PROVE  GuruKnows(Home[c], t)'
      <4>1. Link(Home[c]) \in Watchers(Guru, t)'
        <5>1. n = Guru /\ m.topic = t => m.from # Link(Home[c])
          BY <1>6, <3>2 DEF GuruKnows
        <5>2. Link(Home[c]) \in Watchers(Guru, t)
          BY <3>2 DEF GuruKnows
        <5>3. QED
          BY <1>10, <2>1, <5>1, <5>2
      <4>2. \A p \in Range(up'[Home[c]]) : p \in Range(up[Home[c]]) \/ p.type # "unsub" \/ p.topic # t
        <5>1. n = Home[c] /\ m.topic = t => Watchers(n, m.topic) \ {m.from} # {}
          BY <2>2, <3>2 DEF Watching
        <5>2. QED
          BY <1>11, <2>1, <5>1
      <4>3. Range(incoming'[Guru]) \subseteq Range(incoming[Guru])
        BY <1>7, <2>1
      <4>4. QED
        BY <1>4, <2>1, <3>2, <4>1, <4>2, <4>3, GuruStillKnows
    <3>3. QED
      BY <3>1, <3>2 DEF TablesKept
  <2>4. QED
    BY <1>7, <1>8, <1>9, <2>3, NothingLost
<1>13. QED
  BY <1>7, <1>12, DueKept DEF IInv

LEMMA ProcessSubscribeDownDue ==
    ASSUME IInv, IInv', DueInv, NEW a \in Aides, ProcessSubscribeDown(a)
    PROVE  DueInv'
<1>1. PICK m : m = Head(incoming[a])
  OBVIOUS
<1>2. PICK ks : ks = {j \in Watchers(a, m.topic) : IsOpen(j)}
  OBVIOUS
<1>3. Takes(a, "subDown") /\ UNCHANGED <<subs, up, link, gen, open>> /\ WriteDownstream(a, ks, m)
  BY <1>1, <1>2 DEF ProcessSubscribeDown, linkVars
<1>4. a \in Nodes /\ a # Guru
  BY LookupAssumption DEF Nodes
<1>5. m \in Packets /\ m.type = "subDown"
  BY <1>1, <1>3, <1>4, TakesRange
<1>6. /\ \A k \in Nodes : KeepsIn(k) /\ Range(incoming'[k]) \subseteq Range(incoming[k])
      /\ \A c \in Clients : Staying(c) => Staying(c)'
      /\ UNCHANGED due
  BY <1>3, <1>4, TakenKeeps
<1>7. (\A c \in Clients : KeepsGot(c)) /\ UNCHANGED down
  BY <1>3, <1>4, <1>5, WrittenOut
<1>8. ASSUME NEW c \in Clients PROVE Kept(c)
  <2>1. Home[c] \in Aides /\ Guru \in Nodes
    BY LookupAssumption DEF Nodes
  <2>2. ASSUME NEW t \in Topics PROVE TablesKept(c, t)
    <3>1. \A k, u : Watchers(k, u)' = Watchers(k, u)
      BY <1>3 DEF Watchers, HasEntry
    <3>2. GuruKnows(Home[c], t) => GuruKnows(Home[c], t)'
      BY <1>3, <1>6, <2>1, <3>1 DEF GuruKnows, Link
    <3>3. QED
      BY <3>1, <3>2 DEF TablesKept, Watching
  <2>3. QED
    BY <1>3, <1>6, <1>7, <2>2, NothingLost DEF KeepsUp, KeepsDown
<1>9. QED
  BY <1>6, <1>8, DueKept DEF IInv

\* What a node does with the tables when it takes a message somebody published:
\* nobody who is there is forgotten.
LEMMA PublishTables ==
    ASSUME IInv, Undisturbed, NEW n \in Nodes, ProcessPublish(n),
           NEW m, m = Head(incoming[n])
    PROVE  \A k \in Nodes, t \in Topics : \A j \in Watchers(k, t) : IsOpen(j) => j \in Watchers(k, t)'
<1>1. PICK e : e = subs[n][m.topic]
  OBVIOUS
<1>2. PICK w : w = e.w \ {j \in e.w \ e.selfs : j # m.from /\ ~IsOpen(j)}
  OBVIOUS
<1>3. Takes(n, "pub") /\ \/ UNCHANGED subs
                         \/ /\ HasEntry(n, m.topic)
                            /\ SetEntry(n, m.topic, [e EXCEPT !.exp = now + BillTTL])
                         \/ /\ HasEntry(n, m.topic)
                            /\ SetEntry(n, m.topic, [e EXCEPT !.exp = now + PubTTL, !.w = w])
  BY <1>1, <1>2 DEF ProcessPublish
<1>4. m.topic \in Topics /\ now + BillTTL \in Nat /\ now + PubTTL \in Nat
  BY <1>3, TakesRange, ChangedPackets, LookupAssumption DEF IInv, ClientsOK
<1>5. CASE UNCHANGED subs
  BY <1>5 DEF Watchers, HasEntry
<1>6. CASE HasEntry(n, m.topic) /\ ~(UNCHANGED subs)
  <2>1. e \in Entries /\ Watchers(n, m.topic) = e.w
    BY <1>1, <1>4, <1>6, EntryOf DEF IInv, Watchers
  <2>2. /\ [e EXCEPT !.exp = now + BillTTL] \in Entries
        /\ [e EXCEPT !.exp = now + BillTTL].w = e.w
        /\ [e EXCEPT !.exp = now + PubTTL, !.w = w] \in Entries
        /\ [e EXCEPT !.exp = now + PubTTL, !.w = w].w = w
    BY <1>2, <1>4, <2>1 DEF Entries
  <2>3. Watchers(n, m.topic)' \in {e.w, w}
        /\ \A k \in Nodes, t \in Topics : ~(k = n /\ t = m.topic) => Watchers(k, t)' = Watchers(k, t)
    BY <1>3, <1>4, <1>6, <2>2, WatchersAfter DEF IInv
  <2>4. \A j \in e.w : IsOpen(j) => j \in w
    BY <1>2
  <2>5. QED
    BY <2>1, <2>3, <2>4
<1>7. QED
  BY <1>3, <1>5, <1>6

\* Who watches the topic of a message gets it, unless it comes from there.
LEMMA PublishWrites ==
    ASSUME IInv, Undisturbed, NEW n \in Nodes, ProcessPublish(n),
           NEW m, m = Head(incoming[n])
    PROVE  \/ /\ \A j : j \notin Watchers(n, m.topic)
              /\ UNCHANGED <<down, got>>
           \/ \E ks : /\ WriteDownstream(n, ks, [m EXCEPT !.type = "pubDown"])
                      /\ \A j \in Watchers(n, m.topic) : IsOpen(j) /\ j # m.from => j \in ks
<1>1. PICK e : e = subs[n][m.topic]
  OBVIOUS
<1>2. PICK ks : ks = {j \in Recipients(e, m.from) : IsOpen(j)}
  OBVIOUS
<1>3. Takes(n, "pub") /\ \/ ~HasEntry(n, m.topic) /\ UNCHANGED <<down, got>>
                         \/ HasEntry(n, m.topic) /\ e.bill
                         \/ HasEntry(n, m.topic) /\ WriteDownstream(n, ks, [m EXCEPT !.type = "pubDown"])
  BY <1>1, <1>2 DEF ProcessPublish, outVars
<1>4. m.topic \in Topics
  BY <1>3, TakesRange, ChangedPackets
<1>5. HasEntry(n, m.topic) => ~e.bill /\ Watchers(n, m.topic) = e.w
  BY <1>1, <1>4, EntryOf DEF IInv, EntriesAt, Watchers
<1>6. ~HasEntry(n, m.topic) => Watchers(n, m.topic) = {}
  BY DEF Watchers
<1>7. CASE ~HasEntry(n, m.topic) /\ UNCHANGED <<down, got>>
  BY <1>6, <1>7
<1>8. CASE HasEntry(n, m.topic) /\ WriteDownstream(n, ks, [m EXCEPT !.type = "pubDown"])
  BY <1>2, <1>5, <1>8 DEF Recipients
<1>9. QED
  BY <1>3, <1>5, <1>7, <1>8

\* The contacts that promises are about are open.
LEMMA OpenContacts ==
    ASSUME IInv, Undisturbed
    PROVE  /\ \A c \in Clients : Staying(c) => IsOpen(ClientContact(c))
           /\ \A a \in Aides : IsOpen(Link(a)) /\ link[a] = "up"
<1>1. \A c \in Clients : Staying(c) => IsOpen(ClientContact(c))
  BY DEF Staying, IsOpen, ClientContact
<1>2. \A a \in Aides : a \notin Clients /\ Link(a) = <<a, 1>> /\ <<a, 1>> \in open /\ link[a] = "up"
  BY LookupAssumption DEF IInv, SteadyInv, Undisturbed, Link
<1>3. ASSUME NEW a \in Aides PROVE IsOpen(Link(a))
  <2>1. PICK k : k = Link(a)
    OBVIOUS
  <2>2. k = <<a, 1>> /\ a \notin Clients /\ k \in open
    BY <1>2, <2>1
  <2>3. k[1] = a
    BY <2>2
  <2>4. IsOpen(k)
    BY <2>2, <2>3 DEF IsOpen
  <2>5. QED
    BY <2>1, <2>4
<1>4. QED
  BY <1>1, <1>2, <1>3

\* A step that keeps open watchers, takes packets only, and sends no unsubscribe.
LEMMA TablesStay ==
    ASSUME IInv, Undisturbed, NEW c \in Clients, Staying(c), UNCHANGED gen,
           \A k \in Nodes, t \in Topics : \A j \in Watchers(k, t) : IsOpen(j) => j \in Watchers(k, t)',
           Range(incoming'[Guru]) \subseteq Range(incoming[Guru]),
           \A t \in Topics : Watching(c, t) =>
               \A p \in Range(up'[Home[c]]) : p \in Range(up[Home[c]]) \/ p.type # "unsub" \/ p.topic # t
    PROVE  \A t \in Topics : TablesKept(c, t)
<1>1. Home[c] \in Aides /\ Home[c] \in Nodes /\ Guru \in Nodes
  BY LookupAssumption DEF Nodes
<1>2. ASSUME NEW t \in Topics, Watching(c, t)
      PROVE  Watching(c, t)' /\ (GuruKnows(Home[c], t) => GuruKnows(Home[c], t)')
  <2>1. Watching(c, t)'
    BY <1>1, <1>2, OpenContacts DEF Watching
  <2>2. GuruKnows(Home[c], t) => Link(Home[c]) \in Watchers(Guru, t)'
    BY <1>1, OpenContacts DEF GuruKnows
  <2>3. GuruKnows(Home[c], t) => GuruKnows(Home[c], t)'
    BY <1>1, <1>2, <2>2, GuruStillKnows
  <2>4. QED
    BY <2>1, <2>3
<1>3. QED
  BY <1>2 DEF TablesKept

LEMMA ProcessPublishDue ==
    ASSUME IInv, IInv', DueInv, NEW n \in Nodes, ProcessPublish(n)
    PROVE  DueInv'
<1>1. PICK m : m = Head(incoming[n])
  OBVIOUS
<1>2. PICK d : d = [m EXCEPT !.type = "pubDown"]
  OBVIOUS
<1>3. Takes(n, "pub") /\ MaybePushUp(n, <<m>>) /\ UNCHANGED <<link, gen, open>>
  BY <1>1 DEF ProcessPublish, linkVars
<1>4. /\ m \in Range(incoming[n]) /\ m \in In(n) /\ m \in Packets /\ m.type = "pub" /\ m.topic \in Topics
      /\ Range(incoming[n]) = {m} \cup Range(incoming'[n])
  BY <1>1, <1>3, TakesRange, ChangedPackets
<1>5. /\ \A k \in Nodes : Range(incoming'[k]) \subseteq Range(incoming[k])
      /\ \A k \in Nodes : k # n => KeepsIn(k)
      /\ \A c \in Clients : Staying(c) => Staying(c)'
      /\ UNCHANGED due
  BY <1>3, TakenKeeps
<1>6. /\ \A a \in Aides : KeepsUp(a)
      /\ \A a \in Aides : a # n => up'[a] = up[a]
      /\ n # Guru => n \in Aides /\ Range(up'[n]) = Range(up[n]) \cup {m}
  BY <1>3, <1>4, UpAfter
<1>7. d \in Packets /\ d.type = "pubDown" /\ d.id = m.id /\ d.topic = m.topic
  BY <1>2, <1>4, ChangedPackets DEF Packets, PacketTypes
<1>8. ASSUME Undisturbed
      PROVE  \/ /\ \A j : j \notin Watchers(n, m.topic)
                /\ UNCHANGED <<down, got>>
             \/ \E ks : /\ WriteDownstream(n, ks, d)
                        /\ \A j \in Watchers(n, m.topic) : IsOpen(j) /\ j # m.from => j \in ks
  BY <1>1, <1>2, <1>8, PublishWrites
\* Nothing that is on its way down or out is lost.
<1>9. ASSUME Undisturbed
      PROVE  (\A a \in Aides : KeepsDown(a)) /\ (\A c \in Clients : KeepsGot(c))
  <2>1. CASE UNCHANGED <<down, got>>
    BY <2>1 DEF KeepsDown, KeepsGot
  <2>2. ASSUME NEW ks, WriteDownstream(n, ks, d)
        PROVE  (\A a \in Aides : KeepsDown(a)) /\ (\A c \in Clients : KeepsGot(c))
    <3>1. CASE n = Guru
      BY <1>7, <2>2, <3>1, WrittenDown DEF KeepsGot
    <3>2. CASE n # Guru
      BY <1>7, <2>2, <3>2, WrittenOut DEF KeepsDown
    <3>3. QED
      BY <3>1, <3>2
  <2>3. QED
    BY <1>8, <1>9, <2>1, <2>2
<1>10. ASSUME NEW c \in Clients, Staying(c), Undisturbed PROVE Kept(c)
  <2>1. Home[c] \in Aides /\ Home[c] \in Nodes /\ Home[c] # Guru /\ Guru \in Nodes /\ Guru \notin Aides
    BY LookupAssumption DEF Nodes
  <2>2. \A t \in Topics : TablesKept(c, t)
    <3>1. \A k \in Nodes, t \in Topics : \A j \in Watchers(k, t) : IsOpen(j) => j \in Watchers(k, t)'
      BY <1>1, <1>10, PublishTables
    <3>2. \A p \in Range(up'[Home[c]]) : p \in Range(up[Home[c]]) \/ p.type # "unsub"
      BY <1>4, <1>6, <2>1
    <3>3. QED
      BY <1>3, <1>5, <1>10, <2>1, <3>1, <3>2, TablesStay
  <2>3. ASSUME NEW t \in Topics, NEW i \in 1..MaxOps, Watching(c, t)
        PROVE  Onward(c, i, t)
    <3>1. Near(c, i, t) => Near(c, i, t)' \/ HasGot(c, i)'
      <4>1. CASE n # Home[c]
        BY <1>5, <2>1, <4>1, Stays
      <4>2. CASE n = Home[c]
        <5>1. SUFFICES ASSUME Carries(m, "pub", i, t), m.by # c
                       PROVE  HasGot(c, i)'
          BY <1>4, <4>2 DEF Near, Carries
        <5>2. m.from = ClientContact(m.by) /\ m.from # ClientContact(c)
          BY <1>4, <2>1, <4>2, <5>1 DEF In, AideIn, ClientContact
        <5>3. ClientContact(c) \in Watchers(n, m.topic) /\ IsOpen(ClientContact(c))
          BY <1>10, <2>3, <4>2, <5>1, OpenContacts DEF Watching, Carries
        <5>4. PICK ks : WriteDownstream(n, ks, d) /\ ClientContact(c) \in ks
          BY <1>8, <1>10, <5>2, <5>3
        <5>5. HasGot(c, d.id)'
          BY <1>7, <2>1, <4>2, <5>4, WrittenOut
        <5>6. d.id = i
          BY <1>7, <5>1 DEF Carries
        <5>7. QED
          BY <5>5, <5>6
      <4>3. QED
        BY <4>1, <4>2
    <3>2. Below(c, i, t) => Below(c, i, t)'
      <4>1. CASE n # Home[c]
        BY <1>5, <2>1, <4>1, Stays
      <4>2. CASE n = Home[c]
        BY <1>4, <4>2 DEF Below, Carries
      <4>3. QED
        BY <4>1, <4>2
    <3>3. Sinking(c, i, t) => Sinking(c, i, t)'
      BY <1>9, <1>10, <2>1, Stays
    <3>4. GuruKnows(Home[c], t) /\ AtGuru(c, i, t) => AtGuru(c, i, t)' \/ Sinking(c, i, t)'
      <4>1. CASE n # Guru
        BY <1>5, <2>1, <4>1, Stays
      <4>2. CASE n = Guru
        <5>1. SUFFICES ASSUME Carries(m, "pub", i, t), m.by \in Strangers(c), GuruKnows(Home[c], t)
                       PROVE  Sinking(c, i, t)'
          BY <1>4, <4>2 DEF AtGuru, Carries, Strangers
        <5>2. m.from # Link(Home[c])
          BY <1>4, <4>2, <5>1, KindsArePackets DEF GuruIn, FromAide, Strangers, Link
        <5>3. Link(Home[c]) \in Watchers(n, m.topic) /\ IsOpen(Link(Home[c])) /\ link[Home[c]] = "up"
          BY <1>10, <2>1, <4>2, <5>1, OpenContacts DEF GuruKnows, Carries
        <5>4. PICK ks : WriteDownstream(n, ks, d) /\ Link(Home[c]) \in ks
          BY <1>8, <1>10, <5>2, <5>3
        <5>5. d \in Range(down'[Home[c]])
          BY <1>7, <2>1, <4>2, <5>3, <5>4, WrittenDown
        <5>6. Carries(d, "pubDown", i, t)
          BY <1>7, <5>1 DEF Carries
        <5>7. QED
          BY <5>5, <5>6 DEF Sinking, Carries
      <4>3. QED
        BY <4>1, <4>2
    <3>5. Rising(c, i, t) => Rising(c, i, t)'
      BY <1>6, Stays
    <3>6. Far(c, i, t) => Far(c, i, t)' \/ Rising(c, i, t)'
      <4>1. ASSUME NEW b \in Aides, NEW p \in Range(incoming[b]),
                   Carries(p, "pub", i, t), p.by \in Strangers(c)
            PROVE  Far(c, i, t)' \/ Rising(c, i, t)'
        <5>1. CASE p \in Range(incoming'[b])
          BY <4>1, <5>1 DEF Far, Carries, Strangers
        <5>2. CASE p \notin Range(incoming'[b])
          <6>1. n = b
            BY <1>5, <4>1, <5>2 DEF Carries, KeepsIn, Nodes
          <6>2. p = m /\ n \in Aides /\ p \in Range(up'[n])
            BY <1>4, <1>6, <4>1, <5>2, <6>1, LookupAssumption
          <6>3. QED
            BY <4>1, <6>2 DEF Rising, Carries, Strangers
        <5>3. QED
          BY <5>1, <5>2
      <4>2. QED
        BY <4>1 DEF Far
    <3>7. QED
      BY <3>1, <3>2, <3>3, <3>4, <3>5, <3>6 DEF Onward
  <2>4. QED
    BY <1>9, <1>10, <2>2, <2>3 DEF Kept
<1>11. QED
  BY <1>5, <1>10, DueKept DEF IInv

LEMMA ProcessPublishDownDue ==
    ASSUME IInv, IInv', DueInv, NEW a \in Aides, ProcessPublishDown(a)
    PROVE  DueInv'
<1>1. PICK m : m = Head(incoming[a])
  OBVIOUS
<1>2. PICK e : e = subs[a][m.topic]
  OBVIOUS
<1>3. PICK ks : ks = {j \in e.w : IsOpen(j)}
  OBVIOUS
<1>4. PICK u : u = Unsubscription(m.topic)
  OBVIOUS
<1>5. PICK x : x = [e EXCEPT !.exp = now + PubTTL]
  OBVIOUS
<1>6. /\ Takes(a, "pubDown") /\ UNCHANGED <<link, gen, open>>
      /\ \/ ~HasEntry(a, m.topic) /\ PushUp(a, <<u>>) /\ UNCHANGED <<subs, down, got>>
         \/ /\ HasEntry(a, m.topic) /\ SetEntry(a, m.topic, x)
            /\ WriteDownstream(a, ks, m) /\ UNCHANGED up
  BY <1>1, <1>2, <1>3, <1>4, <1>5 DEF ProcessPublishDown, linkVars, outVars
<1>7. a \in Nodes /\ a # Guru /\ Guru \in Nodes
  BY LookupAssumption DEF Nodes
<1>8. /\ m \in Packets /\ m.type = "pubDown" /\ m.topic \in Topics
      /\ Range(incoming[a]) = {m} \cup Range(incoming'[a])
  BY <1>1, <1>6, <1>7, TakesRange, ChangedPackets
<1>9. /\ \A k \in Nodes : Range(incoming'[k]) \subseteq Range(incoming[k])
      /\ \A k \in Nodes : k # a => KeepsIn(k)
      /\ \A c \in Clients : Staying(c) => Staying(c)'
      /\ UNCHANGED due
  BY <1>6, <1>7, TakenKeeps
<1>10. u \in Packets /\ u.topic = m.topic
  BY <1>4, <1>8, MadePackets DEF Unsubscription, Blank
<1>11. /\ \A b \in Aides : KeepsUp(b) /\ (b # a => up'[b] = up[b])
       /\ \A p \in Range(up'[a]) : p \in Range(up[a]) \/ (p.topic = m.topic /\ ~HasEntry(a, m.topic))
  <2>1. CASE ~HasEntry(a, m.topic) /\ PushUp(a, <<u>>)
    BY <1>10, <2>1, UpRange DEF IInv, KeepsUp
  <2>2. CASE UNCHANGED up
    BY <2>2 DEF KeepsUp
  <2>3. QED
    BY <1>6, <2>1, <2>2
<1>12. (\A b \in Aides : KeepsDown(b)) /\ (\A c \in Clients : KeepsGot(c))
  <2>1. CASE UNCHANGED <<down, got>>
    BY <2>1 DEF KeepsDown, KeepsGot
  <2>2. CASE WriteDownstream(a, ks, m)
    BY <1>7, <1>8, <2>2, WrittenOut DEF KeepsDown
  <2>3. QED
    BY <1>6, <2>1, <2>2
<1>13. \A k \in Nodes, t \in Topics : Watchers(k, t)' = Watchers(k, t)
  <2>1. CASE UNCHANGED subs
    BY <2>1 DEF Watchers, HasEntry
  <2>2. CASE HasEntry(a, m.topic) /\ SetEntry(a, m.topic, x)
    <3>1. e \in Entries /\ Watchers(a, m.topic) = e.w /\ now + PubTTL \in Nat
      BY <1>2, <1>7, <1>8, <2>2, EntryOf, LookupAssumption DEF IInv, Watchers, ClientsOK
    <3>2. x \in Entries /\ x.w = e.w
      BY <1>5, <3>1 DEF Entries
    <3>3. QED
      BY <1>7, <1>8, <2>2, <3>1, <3>2, WatchersAfter DEF IInv
  <2>3. QED
    BY <1>6, <2>1, <2>2
<1>14. ASSUME NEW c \in Clients, Staying(c), Undisturbed PROVE Kept(c)
  <2>1. Home[c] \in Aides /\ Home[c] \in Nodes
    BY LookupAssumption DEF Nodes
  <2>2. \A t \in Topics : TablesKept(c, t)
    <3>1. ASSUME NEW t \in Topics, Watching(c, t)
          PROVE  \A p \in Range(up'[Home[c]]) : p \in Range(up[Home[c]]) \/ p.type # "unsub" \/ p.topic # t
      BY <1>11, <2>1, <3>1 DEF Watching, Watchers
    <3>2. QED
      BY <1>6, <1>7, <1>9, <1>13, <1>14, <3>1, TablesStay
  <2>3. ASSUME NEW t \in Topics, NEW i \in 1..MaxOps, Watching(c, t)
        PROVE  Onward(c, i, t)
    <3>1. Near(c, i, t) => Near(c, i, t)'
      <4>1. CASE a # Home[c]
        BY <1>9, <2>1, <4>1, Stays
      <4>2. CASE a = Home[c]
        BY <1>8, <4>2 DEF Near, Carries
      <4>3. QED
        BY <4>1, <4>2
    <3>2. Below(c, i, t) => Below(c, i, t)' \/ HasGot(c, i)'
      <4>1. CASE a # Home[c]
        BY <1>9, <2>1, <4>1, Stays
      <4>2. CASE a = Home[c]
        <5>1. SUFFICES ASSUME Carries(m, "pubDown", i, t)
                       PROVE  HasGot(c, i)'
          BY <1>8, <4>2 DEF Below, Carries
        <5>2. ClientContact(c) \in Watchers(a, m.topic) /\ IsOpen(ClientContact(c))
          BY <1>14, <2>3, <4>2, <5>1, OpenContacts DEF Watching, Carries
        <5>3. HasEntry(a, m.topic) /\ ClientContact(c) \in ks
          BY <1>2, <1>3, <5>2 DEF Watchers
        <5>4. HasGot(c, m.id)'
          BY <1>6, <1>7, <1>8, <5>3, WrittenOut
        <5>5. QED
          BY <5>1, <5>4 DEF Carries
      <4>3. QED
        BY <4>1, <4>2
    <3>3. Sinking(c, i, t) => Sinking(c, i, t)'
      BY <1>12, <2>1, Stays
    <3>4. AtGuru(c, i, t) => AtGuru(c, i, t)'
      BY <1>7, <1>9, Stays
    <3>5. Rising(c, i, t) => Rising(c, i, t)'
      BY <1>11, Stays
    <3>6. Far(c, i, t) => Far(c, i, t)'
      <4>1. ASSUME NEW b \in Aides, NEW p \in Range(incoming[b]), Carries(p, "pub", i, t)
            PROVE  p \in Range(incoming'[b])
        <5>1. CASE b # a
          BY <1>9, <4>1, <5>1 DEF KeepsIn, Carries, Nodes
        <5>2. CASE b = a
          BY <1>8, <4>1, <5>2 DEF Carries
        <5>3. QED
          BY <5>1, <5>2
      <4>2. QED
        BY <4>1 DEF Far, Carries, Strangers
    <3>7. QED
      BY <3>1, <3>2, <3>3, <3>4, <3>5, <3>6 DEF Onward
  <2>4. QED
    BY <1>12, <2>2, <2>3 DEF Kept
<1>15. QED
  BY <1>9, <1>14, DueKept DEF IInv
----------------------------------------------------------------------------
(* Steps of the connections                                                *)

LEMMA PumpDue ==
    ASSUME IInv, IInv', DueInv, NEW a \in Aides, Pump(a)
    PROVE  DueInv'
<1>1. PICK m : m = Head(up[a])
  OBVIOUS
<1>2. PICK x : x = [m EXCEPT !.from = Link(a)]
  OBVIOUS
<1>3. /\ up[a] # <<>> /\ up' = [up EXCEPT ![a] = Tail(@)]
      /\ incoming' = [incoming EXCEPT ![Guru] = Append(@, x)]
      /\ UNCHANGED <<subs, down, link, gen, open, got, due, gone>>
  BY <1>1, <1>2 DEF Pump, linkVars, outVars, envVars
<1>4. up \in [Aides -> Seq(Packets)] /\ up[a] \in Seq(Packets)
  BY DEF IInv, UpInv
<1>5. Range(up[a]) = {m} \cup Range(up'[a]) /\ \A b \in Aides : b # a => up'[b] = up[b]
  BY <1>1, <1>3, <1>4, RangeTail
<1>6. m \in Packets /\ Link(a) \in Contacts
  BY <1>4, <1>5, RangeOf, ContactsOK DEF IInv
<1>7. /\ x \in Packets /\ x.from = Link(a) /\ x.type = m.type /\ x.by = m.by /\ x.id = m.id
      /\ x.topic = m.topic
  BY <1>2, <1>6, ChangedPackets DEF Packets
<1>8. Guru \in Nodes /\ Aides \subseteq Nodes /\ Guru \notin Aides
  BY LookupAssumption DEF Nodes
<1>9. /\ Range(incoming'[Guru]) = Range(incoming[Guru]) \cup {x}
      /\ \A k \in Nodes : k # Guru => incoming'[k] = incoming[k]
  BY <1>3, <1>7, <1>8, InRange DEF IInv
<1>10. (\A k \in Nodes : KeepsIn(k)) /\ (\A b \in Aides : KeepsDown(b)) /\ (\A c \in Clients : KeepsGot(c))
  BY <1>3, <1>9 DEF KeepsIn, KeepsDown, KeepsGot
<1>11. ASSUME NEW c \in Clients, Staying(c), Undisturbed PROVE Staying(c)' /\ Kept(c)
  <2>1. Home[c] \in Aides /\ Home[c] \in Nodes
    BY <1>8, LookupAssumption
  <2>2. Staying(c)'
    BY <1>3, <1>8, <1>9, <1>11, <2>1 DEF Staying
  <2>3. ASSUME NEW t \in Topics PROVE TablesKept(c, t)
    <3>1. /\ \A k, v : Watchers(k, v)' = Watchers(k, v)
          /\ Link(Home[c])' = Link(Home[c])
      BY <1>3 DEF Watchers, HasEntry, Link
    <3>2. Link(a) = Link(Home[c]) => a = Home[c]
      BY DEF Link
    <3>3. ASSUME GuruKnows(Home[c], t) PROVE GuruKnows(Home[c], t)'
      <4>1. x.type = "unsub" /\ x.from = Link(Home[c]) => x.topic # t
        BY <1>5, <1>7, <3>2, <3>3 DEF GuruKnows
      <4>2. Range(up'[Home[c]]) \subseteq Range(up[Home[c]])
        BY <1>5, <2>1
      <4>3. QED
        BY <1>9, <3>1, <3>3, <4>1, <4>2 DEF GuruKnows
    <3>4. QED
      BY <3>1, <3>3 DEF TablesKept, Watching
  <2>4. ASSUME NEW t \in Topics, NEW i \in 1..MaxOps
        PROVE  Onward(c, i, t)
    <3>1. Rising(c, i, t) => Rising(c, i, t)' \/ AtGuru(c, i, t)'
      <4>1. ASSUME NEW b \in Aides, NEW p \in Range(up[b]), Carries(p, "pub", i, t), p.by \in Strangers(c)
            PROVE  Rising(c, i, t)' \/ AtGuru(c, i, t)'
        <5>1. CASE p \in Range(up'[b])
          BY <4>1, <5>1 DEF Rising, Carries, Strangers
        <5>2. CASE p \notin Range(up'[b])
          <6>1. p = m
            BY <1>5, <4>1, <5>2
          <6>2. QED
            BY <1>7, <1>9, <4>1, <6>1 DEF AtGuru, Carries, Strangers
        <5>3. QED
          BY <5>1, <5>2
      <4>2. QED
        BY <4>1 DEF Rising
    <3>2. QED
      BY <1>8, <1>10, <2>1, <3>1, Stays DEF Onward
  <2>5. QED
    BY <1>10, <2>2, <2>3, <2>4 DEF Kept
<1>12. QED
  BY <1>3, <1>11, DueKept DEF IInv

LEMMA ReceiveDue ==
    ASSUME IInv, IInv', DueInv, NEW a \in Aides, Receive(a)
    PROVE  DueInv'
<1>1. PICK m : m = Head(down[a])
  OBVIOUS
<1>2. /\ down[a] # <<>> /\ down' = [down EXCEPT ![a] = Tail(@)]
      /\ incoming' = [incoming EXCEPT ![a] = Append(@, m)]
      /\ UNCHANGED <<subs, up, link, gen, open, got, due, gone>>
  BY <1>1 DEF Receive, linkVars, outVars, envVars
<1>3. down \in [Aides -> Seq(Packets)] /\ down[a] \in Seq(Packets)
  BY DEF IInv, DownInv
<1>4. Range(down[a]) = {m} \cup Range(down'[a]) /\ \A b \in Aides : b # a => down'[b] = down[b]
  BY <1>1, <1>2, <1>3, RangeTail
<1>5. m \in Packets /\ m.type \in {"subDown", "pubDown"}
  BY <1>4, WhatIsThere DEF AideDown
<1>6. a \in Nodes /\ Guru \in Nodes /\ Aides \subseteq Nodes /\ a # Guru
  BY LookupAssumption DEF Nodes
<1>7. /\ Range(incoming'[a]) = Range(incoming[a]) \cup {m}
      /\ \A k \in Nodes : k # a => incoming'[k] = incoming[k]
  BY <1>2, <1>5, <1>6, InRange DEF IInv
<1>8. (\A k \in Nodes : KeepsIn(k)) /\ (\A b \in Aides : KeepsUp(b)) /\ (\A c \in Clients : KeepsGot(c))
  BY <1>2, <1>7 DEF KeepsIn, KeepsUp, KeepsGot
<1>9. ASSUME NEW c \in Clients, Staying(c), Undisturbed PROVE Staying(c)' /\ Kept(c)
  <2>1. Home[c] \in Aides /\ Home[c] \in Nodes
    BY <1>6, LookupAssumption
  <2>2. Staying(c)'
    BY <1>2, <1>5, <1>7, <1>9, <2>1 DEF Staying
  <2>3. ASSUME NEW t \in Topics PROVE TablesKept(c, t)
    BY <1>2, <1>6, <1>7 DEF TablesKept, Watching, GuruKnows, Watchers, HasEntry, Link
  <2>4. ASSUME NEW t \in Topics, NEW i \in 1..MaxOps
        PROVE  Onward(c, i, t)
    <3>1. Sinking(c, i, t) => Sinking(c, i, t)' \/ Below(c, i, t)'
      BY <1>4, <1>7, <2>1 DEF Sinking, Below, Carries
    <3>2. QED
      BY <1>6, <1>8, <2>1, <3>1, Stays DEF Onward
  <2>5. QED
    BY <1>8, <2>2, <2>3, <2>4 DEF Kept
<1>10. QED
  BY <1>2, <1>9, DueKept DEF IInv
----------------------------------------------------------------------------
(* Every step                                                              *)

\* Heartbeats, failures and what follows them happen only when something
\* disturbs.
LEMMA DisturbedSteps ==
    ASSUME IInv, Undisturbed
    PROVE  /\ \A n \in Nodes : ~Heartbeat(n) /\ ~HeartBeatCallBack(n)
           /\ \A a \in Aides : /\ ~ReSubscribeMyTopics(a) /\ ~DeferredUnsubscribe(a)
                               /\ ~Break(a) /\ ~PumpIntoTheVoid(a) /\ ~Redial(a)
<1>1. \A n \in Nodes : ~Heartbeat(n)
  BY DEF Heartbeat, Undisturbed
<1>2. ASSUME NEW n \in Nodes, NEW m \in Packets, m \in In(n)
      PROVE  m.type \notin {"beat", "resub"}
  BY <1>2 DEF In, GuruIn, AideIn, Undisturbed, Requests
<1>3. \A n \in Nodes : incoming[n] # <<>> => Head(incoming[n]) \in In(n) /\ Head(incoming[n]) \in Packets
  <2>1. \A n \in Nodes : incoming[n] \in Seq(In(n)) /\ incoming[n] \in Seq(Packets)
    BY DEF IInv, InInv
  <2>2. QED
    BY <2>1, TailElements
<1>4. (\A n \in Nodes : ~HeartBeatCallBack(n)) /\ (\A a \in Aides : ~ReSubscribeMyTopics(a))
  BY <1>2, <1>3 DEF HeartBeatCallBack, ReSubscribeMyTopics, Takes, Nodes
<1>5. \A a \in Aides : ~DeferredUnsubscribe(a)
  BY DEF DeferredUnsubscribe, IInv, WatchInv
<1>6. \A a \in Aides : link[a] = "up" /\ gen[a] = 1 /\ MaxGen <= 1
  BY DEF IInv, SteadyInv, Undisturbed, Steady
<1>7. \A a \in Aides : ~Break(a) /\ ~PumpIntoTheVoid(a) /\ ~Redial(a)
  BY <1>6, LookupAssumption DEF Break, PumpIntoTheVoid, Redial
<1>8. QED
  BY <1>1, <1>4, <1>5, <1>7

LEMMA DueInit == Init => DueInv
BY DEF Init, DueInv

LEMMA DueStep == IInv /\ IInv' /\ DueInv /\ [Next]_vars => DueInv'
<1> SUFFICES ASSUME IInv, IInv', DueInv, [Next]_vars PROVE DueInv'
  OBVIOUS
<1>1. CASE ~Undisturbed
  <2>1. ~Undisturbed'
    BY <1>1 DEF Undisturbed, Steady
  <2>2. QED
    BY <2>1 DEF DueInv
<1>2. CASE Undisturbed
  <2>1. CASE UNCHANGED vars \/ Tick \/ \E k \in open : GuruNotices(k)
    BY <2>1, IdleDue DEF vars, linkVars, outVars, envVars, Tick, GuruNotices
  <2>2. CASE \E c \in Clients : ClientStep(c)
    BY <2>2, ClientSubscribeDue, ClientUnsubscribeDue, ClientPublishDue, ClientCloseDue DEF ClientStep
  <2>3. CASE \E n \in Nodes : Process(n) \/ Heartbeat(n)
    BY <1>2, <2>3, ProcessSubscribeDue, ProcessUnsubscribeDue, ProcessPublishDue,
       ProcessPublishDownDue, ProcessSubscribeDownDue, DisturbedSteps DEF Process
  <2>4. CASE \E a \in Aides : Carry(a) \/ DeferredUnsubscribe(a) \/ Break(a) \/ PumpIntoTheVoid(a) \/ Redial(a)
    BY <1>2, <2>4, PumpDue, ReceiveDue, DisturbedSteps DEF Carry
  <2>5. QED
    BY <2>1, <2>2, <2>3, <2>4 DEF Next
<1>3. QED
  BY <1>1, <1>2

\* If no connection fails, no topic is one of billing and no heartbeat forgets
\* one, then a message reaches everybody whose subscription was in place when it
\* was published, however the packets overtake each other and whatever other
\* clients of the same topics do: once nothing is on its way, it has been
\* written to each of them.
THEOREM LookupSettledDelivery == Spec => [](Undisturbed => SettledDelivery)
<1>1. IInv /\ DueInv => (Undisturbed => SettledDelivery)
  <2> SUFFICES ASSUME IInv, DueInv, Undisturbed, Quiet, NEW i \in DOMAIN due, NEW c \in due[i]
               PROVE  \E j \in DOMAIN got[c] : got[c][j].id = i
    BY DEF SettledDelivery
  <2>1. i \in 1..MaxOps /\ c \in Clients /\ Home[c] \in Aides /\ Home[c] \in Nodes /\ Aides \subseteq Nodes
        /\ Guru \in Nodes
    BY LookupAssumption DEF IInv, ClientsOK, Nodes
  <2>2. Served(c, i)
    BY <2>1 DEF DueInv
  <2>3. /\ \A n \in Nodes : \A m \in Range(incoming[n]) : m.type = "beat"
        /\ \A a \in Aides : Range(up[a]) = {} /\ Range(down[a]) = {}
    BY DEF Quiet, Range
  <2>4. ASSUME NEW t \in Topics PROVE ~Coming(c, i, t)
    BY <2>1, <2>3 DEF Coming, Near, Far, Rising, AtGuru, Sinking, Below, Carries
  <2>5. HasGot(c, i)
    BY <2>2, <2>4 DEF Served
  <2>6. QED
    BY <2>5 DEF HasGot, Range
<1>2. IInv /\ DueInv /\ [Next]_vars => DueInv'
  BY StepOK, DueStep
<1>3. QED
  BY InitOK, StepOK, DueInit, <1>1, <1>2, PTL DEF Spec
=============================================================================

---------------------------- MODULE RouterProofs ----------------------------
(***************************************************************************)
(* Proofs about Router, for any gurus, topics and lists of gurus, any      *)
(* function from topics to places, and any number of changes and losses.   *)
(***************************************************************************)
EXTENDS Router, SequenceTheorems, FiniteSetTheorems, TLAPS

Packets == [op : {"sub", "unsub"}, topic : Topics]
Channel == [name : Gurus, index : Nat, at : DialerStates, up : Seq(Packets), closed : BOOLEAN, ping : BOOLEAN]
BucketCommands == Packets \cup [op : {"remap"}] \cup [op : {"mine"}, channel : Ids]

Types ==
    /\ desired \in Lists /\ running \subseteq Gurus /\ names \in Lists \cup {<<>>}
    /\ setting \in {"idle", "stale", "push", "cut"}
    /\ channels \in Seq(Ids) /\ old \in Seq(Ids)
    /\ maglev \in Lists \cup {<<>>} /\ previousmaglev \in Lists \cup {<<>>}
    /\ upc \in [Ids -> {NoChannel} \cup Channel]
    /\ bucket \in Seq(BucketCommands)
    /\ watched \subseteq Topics
    /\ guruMaglev \in [Gurus -> Lists \cup {<<>>}]
    /\ guruQueue \in [Gurus -> Seq(1..Cardinality(Gurus))]
    /\ guruTable \in [Gurus -> SUBSET (Ids \X Topics)]

InUse(i) == upc[i].at # "none"

\* The channels are numbered in the order they were made.
MadeInv == \E u \in 0..MaxChannels : \A i \in Ids : InUse(i) <=> i <= u

\* The router's channels know their places, and were made from the list of the
\* maglev or, while SetUpstreamNames is between the two, from its argument;
\* unless the last call was cut off there.
ChannelsInv ==
    /\ \A n \in DOMAIN channels : InUse(channels[n]) /\ upc[channels[n]].index = n
    /\ \A i \in Range(old) : InUse(i)
    /\ setting \in {"idle", "push"} => ChannelNames = maglev
    /\ setting = "stale" => ChannelNames = names

IInv == Types /\ MadeInv /\ ChannelsInv
----------------------------------------------------------------------------
(* Lists, sequences and sets *)

LEMMA Enumerated ==
    ASSUME NEW S, IsFiniteSet(S)
    PROVE  SetToSeq(S) \in Seq(S) /\ (S = {} => SetToSeq(S) = <<>>)
<1>1. Cardinality(S) \in Nat /\ \E f \in [1..Cardinality(S) -> S] : IsInjective(f)
  BY FS_CardinalityType DEF ExistsBijection, Bijection, Injection
<1>2. SetToSeq(S) \in [1..Cardinality(S) -> S]
  BY <1>1 DEF SetToSeq
<1>3. SetToSeq(S) \in Seq(S)
  BY <1>1, <1>2
<1>4. S = {} => Cardinality(S) = 0
  BY FS_EmptySet
<1>5. Len(SetToSeq(S)) = Cardinality(S)
  BY <1>1, <1>2, <1>3, LenProperties
<1>6. S = {} => SetToSeq(S) = <<>>
  BY <1>3, <1>4, <1>5, EmptySeq
<1> QED
  BY <1>3, <1>6

LEMMA Elements ==
    ASSUME NEW S, NEW s \in Seq(S)
    PROVE  Range(s) \subseteq S /\ Len(s) \in Nat /\ DOMAIN s = 1..Len(s) /\ \A i \in DOMAIN s : s[i] \in S
BY LenProperties, ElementOfSeq DEF Range

\* What a list of gurus is.
LEMMA GuruList ==
    ASSUME NEW l \in Lists
    PROVE  /\ l \in Seq(Gurus) /\ l # <<>> /\ l \in [DOMAIN l -> Gurus]
           /\ Len(l) \in 1..Cardinality(Gurus) /\ DOMAIN l = 1..Len(l)
<1>1. l \in Seq(Gurus) /\ l # <<>> /\ IsInjective(l) /\ IsFiniteSet(Gurus)
  BY RouterAssumption
<1>2. Len(l) \in Nat \ {0} /\ DOMAIN l = 1..Len(l) /\ l \in [1..Len(l) -> Gurus]
  BY <1>1, LenProperties, EmptySeq
<1>3. l \in Injection(1..Len(l), Gurus)
  BY <1>1, <1>2 DEF Injection
<1>4. Cardinality(1..Len(l)) <= Cardinality(Gurus)
  BY <1>1, <1>3, FS_Injection
<1>5. Cardinality(1..Len(l)) = Len(l)
  BY <1>2, FS_Interval
<1>6. Cardinality(Gurus) \in Nat
  BY <1>1, FS_CardinalityType
<1> QED
  BY <1>1, <1>2, <1>4, <1>5, <1>6

\* How many channels there are.
LEMMA MadeCount ==
    ASSUME NEW u \in 0..MaxChannels, \A i \in Ids : InUse(i) <=> i <= u
    PROVE  Made = u
<1>1. u \in Int /\ MaxChannels \in Nat
  BY RouterAssumption
<1>2. {i \in Ids : upc[i].at # "none"} = 1..u
  BY <1>1 DEF InUse, Ids
<1>3. Cardinality(1..u) = u
  BY <1>1, FS_Interval
<1> QED
  BY <1>2, <1>3 DEF Made

\* The packets for one channel.
LEMMA Pushed ==
    ASSUME Types, NEW i \in Ids, NEW op \in {"sub", "unsub"}, NEW ts \in SUBSET Topics,
           \A t \in ts : ~OutOfRange(t)
    PROVE  PushUp(i, op, ts) \in Seq(Packets) /\ (i \notin Range(channels) => PushUp(i, op, ts) = <<>>)
<1> DEFINE mine == IF maglev = <<>> \/ channels = <<>> THEN {} ELSE {t \in ts : channels[Place(maglev, t)] = i}
           S == [op : {op}, topic : mine]
<1>1. PushUp(i, op, ts) = SetToSeq(S)
  BY DEF PushUp
<1>2. mine \subseteq Topics
  OBVIOUS
<1>3. i \notin Range(channels) => mine = {}
  <2>1. SUFFICES ASSUME NEW t \in mine PROVE i \in Range(channels)
    OBVIOUS
  <2>2. maglev # <<>> /\ channels # <<>> /\ t \in ts /\ channels[Place(maglev, t)] = i
    BY <2>1
  <2>3. Place(maglev, t) \in Nat \ {0} /\ Place(maglev, t) <= Len(channels)
    <3>1. maglev \in Lists /\ t \in Topics
      BY <2>2 DEF Types
    <3>2. Place(maglev, t) \in 1..Len(maglev) /\ Len(maglev) \in Nat
      BY <3>1, RouterAssumption, GuruList
    <3>3. Len(channels) \in Nat
      BY Elements DEF Types
    <3> QED
      BY <2>2, <3>2, <3>3 DEF OutOfRange
  <2>4. Place(maglev, t) \in DOMAIN channels
    BY <2>3, Elements DEF Types
  <2> QED
    BY <2>2, <2>4 DEF Range
<1> HIDE DEF mine
<1>4. IsFiniteSet(S)
  <2> DEFINE f == [r \in S |-> r.topic]
  <2>1. f \in Injection(S, Topics)
    <3>1. f \in [S -> Topics]
      BY <1>2
    <3>2. ASSUME NEW a \in S, NEW b \in S, f[a] = f[b] PROVE a = b
      BY <3>2
    <3>3. IsInjective(f)
      BY <3>1, <3>2 DEF IsInjective
    <3> QED
      BY <3>1, <3>3 DEF Injection
  <2>2. IsFiniteSet(Topics)
    BY RouterAssumption
  <2> HIDE DEF S, f
  <2> QED
    BY <2>1, <2>2, FS_Injection
<1>5. S \subseteq Packets
  BY <1>2 DEF Packets
<1>6. mine = {} => S = {}
  OBVIOUS
<1> HIDE DEF S
<1> QED
  BY <1>1, <1>3, <1>4, <1>5, <1>6, Enumerated, SeqMonotonic
----------------------------------------------------------------------------
(* Steps that keep the channels of the router *)

SameChannels ==
    \A i \in Ids : upc'[i].name = upc[i].name /\ upc'[i].index = upc[i].index /\ (InUse(i)' <=> InUse(i))

LEMMA ChannelsSame ==
    ASSUME IInv, SameChannels, UNCHANGED <<setting, names, old, channels, maglev>>
    PROVE  MadeInv' /\ ChannelsInv'
<1>1. \A n \in DOMAIN channels : channels[n] \in Ids
  BY Elements DEF IInv, Types
<1>2. MadeInv'
  BY DEF IInv, MadeInv, SameChannels
<1>3. ChannelNames' = ChannelNames
  BY <1>1 DEF ChannelNames, SameChannels
<1>4. ASSUME NEW n \in DOMAIN channels PROVE upc'[channels[n]].at # "none" /\ upc'[channels[n]].index = n
  <2>1. InUse(channels[n]) /\ upc[channels[n]].index = n /\ channels[n] \in Ids
    BY <1>1 DEF IInv, ChannelsInv
  <2> QED
    BY <2>1 DEF SameChannels, InUse
<1>5. \A i \in Range(old) : upc'[i].at # "none"
  <2>1. \A i \in Range(old) : i \in Ids /\ InUse(i)
    BY Elements DEF IInv, Types, ChannelsInv
  <2> QED
    BY <2>1 DEF SameChannels, InUse
<1> QED
  BY <1>2, <1>3, <1>4, <1>5 DEF IInv, ChannelsInv, InUse

\* A channel that is changed, but for its name and place.
Changed(u, w) == w \in Channel /\ w.name = u.name /\ w.index = u.index

LEMMA ChannelChanged ==
    ASSUME NEW u \in Channel
    PROVE  /\ \A at \in DialerStates : Changed(u, [u EXCEPT !.at = at])
           /\ \A at \in DialerStates : Changed(u, [u EXCEPT !.closed = TRUE, !.at = at])
           /\ \A p \in BOOLEAN : Changed(u, [u EXCEPT !.closed = TRUE, !.ping = p])
           /\ \A at \in DialerStates, p \in BOOLEAN : Changed(u, [u EXCEPT !.at = at, !.ping = p])
           /\ \A q \in Seq(Packets) : Changed(u, [u EXCEPT !.up = q])
           /\ \A at \in DialerStates, q \in Seq(Packets) : Changed(u, [u EXCEPT !.up = q, !.at = at])
BY DEF Channel, Changed

\* A channel that is in use has its type.
LEMMA ChannelOf ==
    ASSUME Types, NEW i \in Ids, InUse(i)
    PROVE  upc[i] \in Channel
<1>1. upc[i] = NoChannel \/ upc[i] \in Channel
  BY DEF Types
<1>2. NoChannel.at = "none"
  BY DEF NoChannel
<1> QED
  BY <1>1, <1>2 DEF InUse

\* A step that changes some channels in use.
ChannelsChange ==
    /\ DOMAIN upc' = Ids /\ upc' \in [Ids -> {upc'[i] : i \in Ids}]
    /\ \A i \in Ids : upc'[i] = upc[i] \/ (InUse(i) /\ Changed(upc[i], upc'[i]))

LEMMA SomeChanged ==
    ASSUME Types, ChannelsChange
    PROVE  upc' \in [Ids -> {NoChannel} \cup Channel] /\ SameChannels
<1>1. ASSUME NEW i \in Ids
      PROVE  /\ upc'[i] \in {NoChannel} \cup Channel
             /\ upc'[i].name = upc[i].name /\ upc'[i].index = upc[i].index
             /\ InUse(i) <=> upc'[i].at # "none"
  <2>1. CASE upc'[i] = upc[i]
    BY <2>1 DEF Types, InUse
  <2>2. CASE InUse(i) /\ Changed(upc[i], upc'[i])
    <3>1. upc'[i].at \in DialerStates
      BY <2>2 DEF Changed, Channel
    <3> QED
      BY <2>2, <3>1 DEF Changed, DialerStates
  <2> QED
    BY <2>1, <2>2 DEF ChannelsChange
<1>2. upc' \in [Ids -> {NoChannel} \cup Channel]
  BY <1>1 DEF ChannelsChange
<1> QED
  BY <1>1, <1>2 DEF SameChannels, InUse

\* A channel whose connection ends.
LEMMA Disconnects ==
    ASSUME NEW u \in Channel
    PROVE  Changed(u, Disconnected(u))
<1>1. PICK at : at = IF u.at = "ask" THEN "void" ELSE IF u.closed THEN "ended" ELSE "dial"
  OBVIOUS
<1>2. at \in DialerStates
  BY <1>1 DEF DialerStates
<1>3. Disconnected(u) = [u EXCEPT !.at = at]
  BY <1>1 DEF Disconnected
<1> QED
  BY <1>2, <1>3, ChannelChanged

LEMMA ListChanges ==
    ASSUME IInv, ChangeList
    PROVE  IInv'
<1>1. PICK l \in Lists : desired' = l /\ running' = running \cup Range(l)
  BY DEF ChangeList
<1>2. UNCHANGED <<setting, names, old, channels, maglev, previousmaglev, upc, bucket, watched,
                  guruMaglev, guruQueue, guruTable>>
  BY DEF ChangeList, routerVars, guruVars
<1>3. running' \subseteq Gurus
  BY <1>1, GuruList, Elements DEF IInv, Types
<1>4. Types'
  BY <1>1, <1>2, <1>3 DEF IInv, Types, NoChannel, Channel, BucketCommands, Packets
<1>5. SameChannels
  BY <1>2 DEF SameChannels, InUse
<1> QED
  BY <1>2, <1>4, <1>5, ChannelsSame DEF IInv

LEMMA GuruGone ==
    ASSUME IInv, NEW g \in Gurus, GuruEnds(g)
    PROVE  IInv'
<1>t. Types
  BY DEF IInv
<1>1. /\ running' = running \ {g}
      /\ guruMaglev' = [guruMaglev EXCEPT ![g] = <<>>] /\ guruQueue' = [guruQueue EXCEPT ![g] = <<>>]
      /\ guruTable' = [guruTable EXCEPT ![g] = {}]
      /\ upc' = [i \in Ids |-> IF Serves(i, g) THEN Disconnected(upc[i]) ELSE upc[i]]
      /\ UNCHANGED <<desired, setting, names, old, channels, maglev, previousmaglev, bucket, watched>>
  BY DEF GuruEnds, routerVars
<1>2. ASSUME NEW i \in Ids PROVE upc'[i] = upc[i] \/ (InUse(i) /\ Changed(upc[i], upc'[i]))
  <2>1. CASE Serves(i, g)
    <3>1. InUse(i)
      BY <2>1 DEF Serves, InUse
    <3>2. upc'[i] = Disconnected(upc[i])
      BY <1>1, <2>1
    <3> QED
      BY <1>t, <3>1, <3>2, ChannelOf, Disconnects
  <2>2. CASE ~Serves(i, g)
    BY <1>1, <2>2
  <2> QED
    BY <2>1, <2>2
<1>3. ChannelsChange
  BY <1>1, <1>2 DEF ChannelsChange
<1>4. upc' \in [Ids -> {NoChannel} \cup Channel] /\ SameChannels
  BY <1>t, <1>3, SomeChanged
<1>5. guruQueue' \in [Gurus -> Seq(1..Cardinality(Gurus))]
  BY <1>t, <1>1, EmptySeq DEF Types
<1>6. guruMaglev' \in [Gurus -> Lists \cup {<<>>}] /\ guruTable' \in [Gurus -> SUBSET (Ids \X Topics)]
  BY <1>t, <1>1 DEF Types
<1>7. Types'
  BY <1>t, <1>1, <1>4, <1>5, <1>6 DEF Types, NoChannel, Channel, BucketCommands, Packets
<1> QED
  BY <1>1, <1>4, <1>7, ChannelsSame DEF IInv

LEMMA GurusTold ==
    ASSUME IInv, TellGurus
    PROVE  IInv'
<1>1. /\ guruMaglev' = [g \in Gurus |-> IF g \in Range(desired) THEN desired ELSE guruMaglev[g]]
      /\ guruQueue' = [g \in Gurus |-> guruQueue[g] \o Commands(g)]
      /\ UNCHANGED <<desired, running, setting, names, old, channels, maglev, previousmaglev, upc, bucket, watched, guruTable>>
  BY DEF TellGurus, routerVars
<1>2. \A g : Commands(g) \in Seq(1..Cardinality(Gurus))
  <2>1. SUFFICES ASSUME NEW g PROVE Commands(g) \in Seq(1..Cardinality(Gurus))
    OBVIOUS
  <2>2. Len(desired) \in 1..Cardinality(Gurus) /\ DOMAIN desired = 1..Len(desired) /\ Cardinality(Gurus) \in Nat
    BY GuruList, RouterAssumption, FS_CardinalityType DEF IInv, Types
  <2>3. Places(g) \subseteq 1..Cardinality(Gurus)
    BY <2>2 DEF Places
  <2>4. IsFiniteSet(1..Cardinality(Gurus))
    BY <2>2, FS_Interval
  <2>5. IsFiniteSet(Places(g))
    BY <2>3, <2>4, FS_Subset
  <2>6. Commands(g) \in Seq(Places(g))
    BY <2>5, Enumerated DEF Commands
  <2> QED
    BY <2>3, <2>6, SeqMonotonic
<1>3. guruQueue' \in [Gurus -> Seq(1..Cardinality(Gurus))]
  BY <1>1, <1>2, ConcatProperties DEF IInv, Types
<1>4. guruMaglev' \in [Gurus -> Lists \cup {<<>>}]
  BY <1>1 DEF IInv, Types
<1>5. Types'
  BY <1>1, <1>3, <1>4 DEF IInv, Types, NoChannel, Channel, BucketCommands, Packets
<1>6. SameChannels
  BY <1>1 DEF SameChannels, InUse
<1> QED
  BY <1>1, <1>5, <1>6, ChannelsSame DEF IInv

\* Steps that only add a command to the bucket.
LEMMA BucketGets ==
    ASSUME IInv, NEW c \in BucketCommands, bucket' = Append(bucket, c),
           UNCHANGED <<desired, running, setting, names, old, channels, maglev, previousmaglev, upc, watched, guruVars>>
    PROVE  IInv'
<1>1. bucket' \in Seq(BucketCommands)
  BY AppendProperties DEF IInv, Types
<1>2. Types'
  BY <1>1 DEF IInv, Types, guruVars, NoChannel, Channel, BucketCommands, Packets
<1>3. SameChannels
  BY DEF SameChannels, InUse
<1> QED
  BY <1>2, <1>3, ChannelsSame DEF IInv

LEMMA ClientStep ==
    ASSUME IInv, ClientSubscribes \/ ClientLeaves
    PROVE  IInv'
<1>1. PICK t \in Topics : \/ bucket' = Append(bucket, [op |-> "sub", topic |-> t])
                          \/ bucket' = Append(bucket, [op |-> "unsub", topic |-> t])
  BY DEF ClientSubscribes, ClientLeaves, IInv, Types
<1>2. [op |-> "sub", topic |-> t] \in BucketCommands /\ [op |-> "unsub", topic |-> t] \in BucketCommands
  BY DEF BucketCommands, Packets
<1> QED
  BY <1>1, <1>2, BucketGets DEF ClientSubscribes, ClientLeaves, routerVars

LEMMA TakenOff ==
    ASSUME NEW S, NEW s \in Seq(S), s # <<>>
    PROVE  Head(s) \in S /\ Tail(s) \in Seq(S)
BY HeadTailProperties, EmptySeq

\* A dialer that the bucket lets go on.
LEMMA Resumes ==
    ASSUME NEW u \in Channel
    PROVE  Changed(u, Resumed(u))
<1>1. PICK at, p : /\ at = IF u.closed THEN "ended" ELSE IF u.at = "ask" THEN "serve" ELSE "dial"
                   /\ p = (u.ping \/ ~u.closed)
  OBVIOUS
<1>2. at \in DialerStates /\ p \in BOOLEAN
  BY <1>1 DEF DialerStates, Channel
<1>3. PICK w : w = [u EXCEPT !.at = at, !.ping = p]
  OBVIOUS
<1>4. Changed(u, w)
  BY <1>2, <1>3, ChannelChanged
<1>5. Resumed(u) = w
  BY <1>1, <1>3 DEF Resumed
<1> QED
  BY <1>4, <1>5

LEMMA SameIsChanged ==
    ASSUME NEW u \in Channel
    PROVE  Changed(u, u)
BY DEF Changed

\* What the bucket does for a command.
LEMMA BucketStep ==
    ASSUME IInv, BucketRuns
    PROVE  IInv'
<1> DEFINE c == Head(bucket)
           op == IF c.op = "unsub" THEN "unsub" ELSE "sub"
<1>t. Types
  BY DEF IInv
<1>1. /\ \A t \in Pushes(c) : ~OutOfRange(t)
      /\ upc' = [i \in Ids |->
                   [(IF c.op = "mine" /\ c.channel = i /\ Waits(upc[i]) THEN Resumed(upc[i]) ELSE upc[i])
                       EXCEPT !.up = @ \o PushUp(i, op, Pushes(c))]]
      /\ watched' = CASE c.op = "sub" -> watched \cup {c.topic}
                      [] c.op = "unsub" -> watched \ {c.topic}
                      [] OTHER -> watched
      /\ bucket' = Tail(bucket) /\ bucket # <<>>
      /\ UNCHANGED <<desired, running, setting, names, old, channels, maglev, previousmaglev, guruMaglev, guruQueue, guruTable>>
  BY DEF BucketRuns, routerVars, guruVars
<1>2. c \in BucketCommands /\ Tail(bucket) \in Seq(BucketCommands)
  BY <1>t, <1>1, TakenOff DEF Types
<1>3. /\ c.op \in {"sub", "unsub", "remap", "mine"}
      /\ c.op \in {"sub", "unsub"} => c.topic \in Topics
  BY <1>2 DEF BucketCommands, Packets
<1>4. watched' \subseteq Topics
  BY <1>t, <1>1, <1>3 DEF Types
<1>5. Pushes(c) \subseteq Topics
  <2>1. watched \subseteq Topics /\ Remapped \subseteq watched /\ TopicsOf(c) \subseteq watched
    BY <1>t DEF Types, Remapped, TopicsOf
  <2>2. c.op = "sub" => Pushes(c) = {c.topic}
    BY DEF Pushes
  <2>3. c.op = "unsub" => Pushes(c) = watched \cap {c.topic}
    BY DEF Pushes
  <2>4. c.op = "remap" => Pushes(c) = Remapped
    BY DEF Pushes
  <2>5. c.op = "mine" => Pushes(c) = TopicsOf(c)
    BY DEF Pushes
  <2> QED
    BY <1>3, <2>1, <2>2, <2>3, <2>4, <2>5
<1>6. op \in {"sub", "unsub"}
  OBVIOUS
<1> DEFINE ps == Pushes(c)
<1> HIDE DEF op, ps
<1>7. \A i \in Ids : PushUp(i, op, ps) \in Seq(Packets) /\ (i \notin Range(channels) => PushUp(i, op, ps) = <<>>)
  BY <1>t, <1>1, <1>5, <1>6, Pushed DEF ps
<1>8. ASSUME NEW i \in Ids
      PROVE  upc'[i] = upc[i] \/ (InUse(i) /\ Changed(upc[i], upc'[i]))
  <2>1. PICK u : u = IF c.op = "mine" /\ c.channel = i /\ Waits(upc[i]) THEN Resumed(upc[i]) ELSE upc[i]
    OBVIOUS
  <2>2. PICK q : q = u.up \o PushUp(i, op, ps)
    OBVIOUS
  <2>3. upc'[i] = [u EXCEPT !.up = q]
    BY <1>1, <2>1, <2>2 DEF ps
  <2>4. CASE InUse(i)
    <3>1. upc[i] \in Channel
      BY <1>t, <2>4, ChannelOf
    <3>2. Changed(upc[i], u)
      BY <2>1, <3>1, Resumes, SameIsChanged
    <3>3. u \in Channel /\ q \in Seq(Packets)
      BY <1>7, <2>2, <3>2, ConcatProperties DEF Changed, Channel
    <3>4. Changed(u, upc'[i])
      BY <2>3, <3>3, ChannelChanged
    <3> QED
      BY <2>4, <3>2, <3>4 DEF Changed
  <2>5. CASE ~InUse(i)
    <3>1. upc[i] = NoChannel
      <4>1. upc[i] \in {NoChannel} \cup Channel
        BY <1>t DEF Types
      <4> QED
        BY <2>5, <4>1 DEF InUse, Channel, DialerStates
    <3>2. i \notin Range(channels)
      BY <2>5 DEF IInv, ChannelsInv, Range
    <3>3. NoChannel.up = <<>> /\ NoChannel.at = "none" /\ [NoChannel EXCEPT !.up = <<>>] = NoChannel
      <4>1. PICK r : r = [name |-> "", index |-> 0, at |-> "none", up |-> <<>>, closed |-> FALSE, ping |-> FALSE]
        OBVIOUS
      <4>2. r.up = <<>> /\ r.at = "none"
        BY <4>1
      <4>3. [r EXCEPT !.up = r.up] = r
        BY <4>1
      <4> QED
        BY <4>1, <4>2, <4>3 DEF NoChannel
    <3>4. u = NoChannel
      <4>1. ~Waits(upc[i])
        BY <3>1, <3>3 DEF Waits
      <4> QED
        BY <2>1, <3>1, <4>1
    <3>5. q = <<>>
      <4>1. PushUp(i, op, ps) = <<>>
        BY <1>7, <3>2
      <4>2. <<>> \o <<>> = <<>>
        BY EmptySeq, ConcatEmptySeq
      <4> QED
        BY <2>2, <3>3, <3>4, <4>1, <4>2
    <3> QED
      BY <2>3, <3>1, <3>3, <3>4, <3>5
  <2> QED
    BY <2>4, <2>5
<1>9. upc' \in [Ids -> {NoChannel} \cup Channel] /\ SameChannels
  <2>1. ChannelsChange
    BY <1>1, <1>8 DEF ChannelsChange
  <2> QED
    BY <1>t, <2>1, SomeChanged
<1>10. Types'
  BY <1>t, <1>1, <1>2, <1>4, <1>9 DEF Types, NoChannel, Channel, BucketCommands, Packets
<1> QED
  BY <1>1, <1>9, <1>10, ChannelsSame DEF IInv

\* A dialer: its channel changes, and nothing of the router.
LEMMA DialerStep ==
    ASSUME IInv, NEW i \in Ids, Dial(i) \/ Pump(i) \/ DialerEnds(i) \/ Break(i)
    PROVE  IInv'
<1>t. Types
  BY DEF IInv
<1>1. InUse(i) /\ upc[i] \in Channel
  <2>1. CASE Dial(i) \/ Pump(i) \/ Break(i)
    <3>1. InUse(i)
      BY <2>1 DEF Dial, Pump, Break, InUse
    <3> QED
      BY <1>t, <3>1, ChannelOf
  <2>2. CASE DialerEnds(i)
    <3>1. InUse(i)
      BY <2>2 DEF DialerEnds, InUse
    <3> QED
      BY <1>t, <3>1, ChannelOf
  <2> QED
    BY <2>1, <2>2
<1>2. UNCHANGED <<desired, running, setting, names, old, channels, maglev, previousmaglev, watched, guruMaglev, guruQueue>>
  BY DEF Dial, Pump, DialerEnds, Break, routerVars, guruVars
<1>3. PICK w : upc' = [upc EXCEPT ![i] = w] /\ Changed(upc[i], w)
  <2>1. ASSUME NEW at \in DialerStates, upc' = [upc EXCEPT ![i].at = at]
        PROVE  \E w : upc' = [upc EXCEPT ![i] = w] /\ Changed(upc[i], w)
    <3>1. PICK w : w = [upc[i] EXCEPT !.at = at]
      OBVIOUS
    <3>2. Changed(upc[i], w)
      BY <1>1, <3>1, ChannelChanged
    <3> QED
      BY <2>1, <3>1, <3>2
  <2>2. CASE Pump(i)
    <3>1. PICK at : at = IF upc[i].closed THEN "ended" ELSE upc[i].at
      OBVIOUS
    <3>2. PICK w : w = [upc[i] EXCEPT !.up = Tail(upc[i].up), !.at = at]
      OBVIOUS
    <3>3. Tail(upc[i].up) \in Seq(Packets)
      BY <1>1, <2>2, TakenOff DEF Channel, Pump
    <3>4. at \in DialerStates
      BY <1>1, <3>1 DEF Channel, DialerStates
    <3>5. Changed(upc[i], w)
      BY <1>1, <3>2, <3>3, <3>4, ChannelChanged
    <3>6. upc' = [upc EXCEPT ![i].up = Tail(@), ![i].at = IF upc[i].closed THEN "ended" ELSE @]
      BY <2>2 DEF Pump
    <3>7. upc' = [upc EXCEPT ![i] = w]
      BY <3>1, <3>2, <3>6, <1>t DEF Types
    <3> QED
      BY <3>5, <3>7
  <2>3. CASE Break(i)
    <3>1. PICK w : w = Disconnected(upc[i])
      OBVIOUS
    <3>2. Changed(upc[i], w)
      BY <1>1, <3>1, Disconnects
    <3> QED
      BY <2>3, <3>1, <3>2 DEF Break
  <2>4. "ask" \in DialerStates /\ "ended" \in DialerStates
    BY DEF DialerStates
  <2> QED
    BY <2>1, <2>2, <2>3, <2>4 DEF Dial, DialerEnds
<1>4. bucket' \in Seq(BucketCommands)
  <2>1. [op |-> "mine", channel |-> i] \in BucketCommands /\ bucket \in Seq(BucketCommands)
    BY <1>t DEF Types, BucketCommands
  <2>2. bucket' = bucket \/ bucket' = Append(bucket, [op |-> "mine", channel |-> i])
    BY DEF Dial, Pump, DialerEnds, Break
  <2> QED
    BY <2>1, <2>2, AppendProperties
<1>5. guruTable' \in [Gurus -> SUBSET (Ids \X Topics)]
  <2>1. PICK g : g = upc[i].name /\ g \in Gurus
    BY <1>1 DEF Channel
  <2>2. guruTable \in [Gurus -> SUBSET (Ids \X Topics)]
    BY <1>t DEF Types
  <2>3. CASE Pump(i)
    <3>1. PICK p : p = Head(upc[i].up)
      OBVIOUS
    <3>2. p \in Packets
      <4>1. upc[i].up \in Seq(Packets) /\ upc[i].up # <<>>
        BY <1>1, <2>3 DEF Channel, Pump
      <4> QED
        BY <3>1, <4>1, TakenOff
    <3>3. <<i, p.topic>> \in Ids \X Topics
      BY <3>2 DEF Packets
    <3>4. \/ guruTable' = [guruTable EXCEPT ![g] = @ \cup {<<i, p.topic>>}]
          \/ guruTable' = [guruTable EXCEPT ![g] = @ \ {<<i, p.topic>>}]
      BY <2>1, <2>3, <3>1 DEF Pump
    <3> QED
      BY <2>1, <2>2, <3>3, <3>4
  <2>4. CASE Dial(i) \/ DialerEnds(i)
    BY <2>2, <2>4 DEF Dial, DialerEnds, guruVars
  <2>5. CASE Break(i)
    <3>1. guruTable' = [guruTable EXCEPT ![g] = {e \in @ : e[1] # i}]
      BY <2>1, <2>5 DEF Break
    <3> QED
      BY <2>1, <2>2, <3>1
  <2> QED
    BY <2>3, <2>4, <2>5
<1>6. upc' \in [Ids -> {NoChannel} \cup Channel] /\ SameChannels
  <2>1. upc \in [Ids -> {NoChannel} \cup Channel]
    BY <1>t DEF Types
  <2>2. ChannelsChange
    BY <1>1, <1>3, <2>1 DEF ChannelsChange
  <2> QED
    BY <1>t, <2>2, SomeChanged
<1>7. Types'
  BY <1>t, <1>2, <1>4, <1>5, <1>6 DEF Types, NoChannel, Channel, BucketCommands, Packets
<1> QED
  BY <1>2, <1>6, <1>7, ChannelsSame DEF IInv

LEMMA GuruStep ==
    ASSUME IInv, NEW g \in Gurus, GuruDeletes(g)
    PROVE  IInv'
<1>t. Types
  BY DEF IInv
<1>1. /\ guruQueue[g] # <<>>
      /\ guruTable' = [guruTable EXCEPT ![g] = {e \in @ : ~Drops(g, e[2], Head(guruQueue[g]))}]
      /\ guruQueue' = [guruQueue EXCEPT ![g] = Tail(@)]
      /\ UNCHANGED <<desired, running, setting, names, old, channels, maglev, previousmaglev, upc, bucket, watched, guruMaglev>>
  BY DEF GuruDeletes, routerVars
<1>2. Tail(guruQueue[g]) \in Seq(1..Cardinality(Gurus))
  BY <1>t, <1>1, TakenOff DEF Types
<1>3. guruQueue' \in [Gurus -> Seq(1..Cardinality(Gurus))]
  BY <1>t, <1>1, <1>2 DEF Types
<1>4. guruTable' \in [Gurus -> SUBSET (Ids \X Topics)]
  BY <1>t, <1>1 DEF Types
<1>5. Types'
  BY <1>t, <1>1, <1>3, <1>4 DEF Types, NoChannel, Channel, BucketCommands, Packets
<1>6. SameChannels
  BY <1>1 DEF SameChannels, InUse
<1> QED
  BY <1>1, <1>5, <1>6, ChannelsSame DEF IInv
----------------------------------------------------------------------------
(* SetUpstreamNames, and a crash *)

\* The new channels are numbered on from those there were, and each gets the
\* name at its place.
LEMMA NamesSet ==
    ASSUME IInv, SetNames
    PROVE  IInv'
<1>t. Types
  BY DEF IInv
<1>1. PICK u \in 0..MaxChannels : (\A i \in Ids : InUse(i) <=> i <= u) /\ Made = u
  BY MadeCount DEF IInv, MadeInv
<1>2. PICK d, m : d = desired /\ m = Len(desired)
  OBVIOUS
<1>3. /\ d \in Lists /\ d \in [1..m -> Gurus] /\ DOMAIN d = 1..m /\ m \in Nat \ {0} /\ d # <<>>
      /\ u \in Nat /\ u + m <= MaxChannels /\ MaxChannels \in Nat
  <2>1. d \in Lists
    BY <1>t, <1>2 DEF Types
  <2>2. d \in [DOMAIN d -> Gurus] /\ Len(d) \in 1..Cardinality(Gurus) /\ DOMAIN d = 1..Len(d) /\ d # <<>>
    BY <2>1, GuruList
  <2>3. Cardinality(Gurus) \in Nat /\ MaxChannels \in Nat
    BY RouterAssumption, FS_CardinalityType
  <2>4. u + m <= MaxChannels
    BY <1>1, <1>2 DEF SetNames
  <2> QED
    BY <1>1, <1>2, <2>1, <2>2, <2>3, <2>4
<1>4. /\ names' = d /\ old' = channels /\ setting' = "stale"
      /\ channels' = [n \in 1..m |-> u + n]
      /\ upc' = [i \in Ids |->
                   IF i - u \in 1..m
                   THEN [name |-> d[i - u], index |-> i - u, at |-> "new", up |-> <<>>, closed |-> FALSE, ping |-> FALSE]
                   ELSE upc[i]]
      /\ UNCHANGED <<desired, running, maglev, previousmaglev, bucket, watched, guruMaglev, guruQueue, guruTable>>
  BY <1>1, <1>2, <1>3 DEF SetNames, NewChannel, guruVars
<1>5. channels' \in [1..m -> Ids] /\ channels' \in Seq(Ids)
  <2>1. \A n \in 1..m : u + n \in Ids
    BY <1>3 DEF Ids
  <2>2. channels' \in [1..m -> Ids]
    BY <1>4, <2>1
  <2> QED
    BY <1>3, <2>2
<1>6. upc' \in [Ids -> {NoChannel} \cup Channel]
  <2>1. <<>> \in Seq(Packets)
    BY EmptySeq
  <2>2. \A i \in Ids : i - u \in 1..m => [name |-> d[i - u], index |-> i - u, at |-> "new", up |-> <<>>, closed |-> FALSE, ping |-> FALSE] \in Channel
    BY <1>3, <2>1 DEF Channel, DialerStates
  <2> QED
    BY <1>t, <1>4, <2>2 DEF Types
<1>7. Types'
  BY <1>t, <1>3, <1>4, <1>5, <1>6 DEF Types, NoChannel, Channel, BucketCommands, Packets
<1>8. ASSUME NEW n \in 1..m
      PROVE  /\ channels'[n] \in Ids /\ channels'[n] = u + n
             /\ upc'[channels'[n]].name = d[n] /\ upc'[channels'[n]].index = n /\ upc'[channels'[n]].at = "new"
  <2>1. channels'[n] = u + n /\ channels'[n] \in Ids
    BY <1>4, <1>5
  <2>2. (u + n) - u = n
    BY <1>3
  <2>3. upc'[u + n] = [name |-> d[n], index |-> n, at |-> "new", up |-> <<>>, closed |-> FALSE, ping |-> FALSE]
    BY <1>4, <2>1, <2>2
  <2> QED
    BY <2>1, <2>3
<1>9. MadeInv'
  <2>1. u + m \in 0..MaxChannels
    BY <1>3
  <2>2. ASSUME NEW i \in Ids PROVE upc'[i].at # "none" <=> i <= u + m
    <3>1. i \in Nat \ {0}
      BY DEF Ids
    <3>2. CASE i - u \in 1..m
      <4>1. upc'[i].at = "new"
        BY <1>4, <3>2
      <4> QED
        BY <1>3, <3>1, <3>2, <4>1
    <3>3. CASE i - u \notin 1..m
      <4>1. upc'[i] = upc[i]
        BY <1>4, <3>3
      <4>2. i <= u <=> i <= u + m
        BY <1>3, <3>1, <3>3
      <4> QED
        BY <1>1, <4>1, <4>2 DEF InUse
    <3> QED
      BY <3>2, <3>3
  <2> QED
    BY <2>1, <2>2 DEF MadeInv, InUse
<1>10. ChannelNames' = d
  <2>1. ChannelNames' = [i \in 1..m |-> upc'[channels'[i]].name]
    BY <1>5 DEF ChannelNames
  <2> QED
    BY <1>3, <1>8, <2>1
<1>11. ChannelsInv'
  <2>1. \A n \in DOMAIN channels' : upc'[channels'[n]].at # "none" /\ upc'[channels'[n]].index = n
    BY <1>5, <1>8
  <2>2. ASSUME NEW i \in Range(channels) PROVE upc'[i].at # "none"
    <3>1. i \in Ids /\ InUse(i)
      BY <1>t, Elements DEF Types, IInv, ChannelsInv, Range
    <3>2. i \in Nat /\ i <= u
      BY <1>1, <3>1 DEF Ids
    <3>3. upc'[i] = upc[i]
      BY <1>3, <1>4, <3>1, <3>2
    <3> QED
      BY <3>1, <3>3 DEF InUse
  <2> QED
    BY <1>4, <1>10, <2>1, <2>2 DEF ChannelsInv, InUse
<1> QED
  BY <1>7, <1>9, <1>11 DEF IInv

\* A stale channel is lost, or closing it panics.
LEMMA StaleClosed ==
    ASSUME IInv, NEW i \in Ids, LoseStale(i) \/ PanicOnStale(i)
    PROVE  IInv'
<1>t. Types
  BY DEF IInv
<1>1. InUse(i) /\ upc[i] \in Channel /\ setting = "stale"
  <2>1. NextStale(i)
    BY DEF LoseStale, PanicOnStale
  <2>2. InUse(i) /\ setting = "stale"
    BY <2>1 DEF NextStale, Stale, IInv, ChannelsInv
  <2> QED
    BY <1>t, <2>2, ChannelOf
<1>2. PICK w : upc' = [upc EXCEPT ![i] = w] /\ Changed(upc[i], w)
  <2>1. CASE LoseStale(i)
    <3>1. PICK w : w = [upc[i] EXCEPT !.closed = TRUE, !.at = "ended"]
      OBVIOUS
    <3>2. Changed(upc[i], w)
      BY <1>1, <3>1, ChannelChanged DEF DialerStates
    <3>3. upc' = [upc EXCEPT ![i] = w]
      BY <1>t, <2>1, <3>1 DEF LoseStale, Types
    <3> QED
      BY <3>2, <3>3
  <2>2. CASE PanicOnStale(i)
    <3>1. PICK pings \in BOOLEAN : upc' = [upc EXCEPT ![i].closed = TRUE, ![i].ping = @ /\ pings]
      BY <2>2 DEF PanicOnStale
    <3>2. PICK p : p = (upc[i].ping /\ pings)
      OBVIOUS
    <3>3. PICK w : w = [upc[i] EXCEPT !.closed = TRUE, !.ping = p]
      OBVIOUS
    <3>4. p \in BOOLEAN
      BY <3>2
    <3>5. Changed(upc[i], w)
      BY <1>1, <3>3, <3>4, ChannelChanged
    <3>6. upc' = [upc EXCEPT ![i] = w]
      BY <1>t, <3>1, <3>2, <3>3 DEF Types
    <3> QED
      BY <3>5, <3>6
  <2> QED
    BY <2>1, <2>2
<1>3. /\ UNCHANGED <<desired, running, channels, maglev, previousmaglev, bucket, watched, guruMaglev, guruQueue, guruTable>>
      /\ \/ UNCHANGED <<setting, names, old>>
         \/ setting' = "cut" /\ names' = <<>> /\ old' = <<>>
  BY DEF LoseStale, PanicOnStale, routerVars, guruVars
<1>4. upc' \in [Ids -> {NoChannel} \cup Channel] /\ SameChannels
  <2>1. upc \in [Ids -> {NoChannel} \cup Channel]
    BY <1>t DEF Types
  <2>2. ChannelsChange
    BY <1>1, <1>2, <2>1 DEF ChannelsChange
  <2> QED
    BY <1>t, <2>2, SomeChanged
<1>5. <<>> \in Seq(Ids)
  BY EmptySeq
<1>6. Types'
  BY <1>t, <1>3, <1>4, <1>5 DEF Types, NoChannel, Channel, BucketCommands, Packets
<1>7. CASE UNCHANGED <<setting, names, old>>
  BY <1>3, <1>4, <1>6, <1>7, ChannelsSame DEF IInv
<1>8. CASE setting' = "cut" /\ names' = <<>> /\ old' = <<>>
  <2>1. MadeInv'
    BY <1>4 DEF IInv, MadeInv, SameChannels
  <2>2. \A n \in DOMAIN channels : upc'[channels[n]].at # "none" /\ upc'[channels[n]].index = n
    <3>1. \A n \in DOMAIN channels : channels[n] \in Ids
      BY <1>t, Elements DEF Types
    <3> QED
      BY <1>4, <3>1 DEF IInv, ChannelsInv, SameChannels, InUse
  <2>3. Range(<<>>) = {}
    BY EmptySeq, LenProperties DEF Range
  <2>4. ChannelsInv'
    BY <1>3, <1>8, <2>2, <2>3 DEF ChannelsInv, InUse
  <2> QED
    BY <1>6, <2>1, <2>4 DEF IInv
<1> QED
  BY <1>3, <1>7, <1>8

\* The maglev follows, and then the command for the bucket.
LEMMA MaglevSet ==
    ASSUME IInv, SetMaglev
    PROVE  IInv'
<1>1. /\ setting = "stale" /\ setting' = "push" /\ maglev' = names /\ previousmaglev' = maglev
      /\ UNCHANGED <<desired, running, names, old, channels, upc, bucket, watched, guruMaglev, guruQueue, guruTable>>
  BY DEF SetMaglev, guruVars
<1>2. Types'
  BY <1>1 DEF IInv, Types, NoChannel, Channel, BucketCommands, Packets
<1>3. MadeInv'
  BY <1>1 DEF IInv, MadeInv, InUse
<1>4. ChannelsInv'
  BY <1>1 DEF IInv, ChannelsInv, ChannelNames, InUse
<1> QED
  BY <1>2, <1>3, <1>4 DEF IInv

LEMMA RemapPushed ==
    ASSUME IInv, PushRemap
    PROVE  IInv'
<1>1. /\ setting = "push" /\ setting' = "idle" /\ names' = <<>> /\ old' = <<>>
      /\ bucket' = Append(bucket, [op |-> "remap"])
      /\ UNCHANGED <<desired, running, channels, maglev, previousmaglev, upc, watched, guruMaglev, guruQueue, guruTable>>
  BY DEF PushRemap, guruVars
<1>2. bucket' \in Seq(BucketCommands)
  <2>1. [op |-> "remap"] \in BucketCommands
    BY DEF BucketCommands
  <2> QED
    BY <1>1, <2>1, AppendProperties DEF IInv, Types
<1>3. <<>> \in Seq(Ids)
  BY EmptySeq
<1>4. Types'
  BY <1>1, <1>2, <1>3 DEF IInv, Types, NoChannel, Channel, BucketCommands, Packets
<1>5. MadeInv'
  BY <1>1 DEF IInv, MadeInv, InUse
<1>6. ChannelsInv'
  <2>1. Range(<<>>) = {}
    BY EmptySeq, LenProperties DEF Range
  <2> QED
    BY <1>1, <2>1 DEF IInv, ChannelsInv, ChannelNames, InUse
<1> QED
  BY <1>4, <1>5, <1>6 DEF IInv

\* An aide that has just started: no channels.
NothingYet ==
    /\ setting = "idle" /\ names = <<>> /\ old = <<>> /\ channels = <<>> /\ maglev = <<>> /\ previousmaglev = <<>>
    /\ upc = [i \in Ids |-> NoChannel] /\ bucket = <<>> /\ watched = {}

LEMMA Started ==
    NothingYet => MadeInv /\ ChannelsInv
<1> SUFFICES ASSUME NothingYet PROVE MadeInv /\ ChannelsInv
  OBVIOUS
<1>1. 0 \in 0..MaxChannels /\ \A i \in Ids : ~(i <= 0)
  BY RouterAssumption DEF Ids
<1>2. \A i \in Ids : ~InUse(i)
  BY DEF NothingYet, InUse, NoChannel
<1>3. MadeInv
  BY <1>1, <1>2 DEF MadeInv
<1>4. DOMAIN <<>> = {} /\ Range(<<>>) = {}
  BY EmptySeq, LenProperties DEF Range
<1>5. ChannelsInv
  BY <1>4 DEF NothingYet, ChannelsInv, ChannelNames
<1> QED
  BY <1>3, <1>5

LEMMA CrashStep ==
    ASSUME IInv, Crash
    PROVE  IInv'
<1>1. NothingYet' /\ guruTable' = [g \in Gurus |-> {}] /\ UNCHANGED <<desired, running, guruMaglev, guruQueue>>
  BY DEF Crash, NothingYet, AideStarts, NoChannel
<1>2. <<>> \in Seq(Ids) /\ <<>> \in Seq(BucketCommands)
  BY EmptySeq
<1>3. Types'
  BY <1>1, <1>2 DEF IInv, Types, NothingYet, NoChannel, Channel, BucketCommands, Packets
<1>4. (MadeInv /\ ChannelsInv)'
  BY <1>1, Started, PTL
<1> QED
  BY <1>3, <1>4 DEF IInv

LEMMA InitIInv == Init => IInv
<1> SUFFICES ASSUME Init PROVE IInv
  OBVIOUS
<1>1. NothingYet
  BY DEF Init, NothingYet, AideStarts
<1>2. <<>> \in Seq(Ids) /\ <<>> \in Seq(BucketCommands) /\ <<>> \in Seq(1..Cardinality(Gurus))
  BY EmptySeq
<1>3. running \subseteq Gurus
  BY GuruList, Elements DEF Init
<1>4. Types
  BY <1>1, <1>2, <1>3 DEF Init, Types, NothingYet
<1> QED
  BY <1>1, <1>4, Started DEF IInv

LEMMA NextIInv == IInv /\ [Next]_vars => IInv'
<1> SUFFICES ASSUME IInv, [Next]_vars PROVE IInv'
  OBVIOUS
<1>1. CASE UNCHANGED vars
  <2>1. UNCHANGED <<desired, running, setting, names, old, channels, maglev, previousmaglev, upc, bucket, watched,
                    guruMaglev, guruQueue, guruTable>>
    BY <1>1 DEF vars, routerVars, guruVars
  <2>2. Types'
    BY <2>1 DEF IInv, Types, NoChannel, Channel, BucketCommands, Packets
  <2>3. SameChannels
    BY <2>1 DEF SameChannels, InUse
  <2> QED
    BY <2>1, <2>2, <2>3, ChannelsSame DEF IInv
<1> QED
  BY <1>1, ListChanges, GuruGone, StaleClosed, GurusTold, ClientStep, BucketStep, DialerStep, GuruStep, NamesSet, MaglevSet, RemapPushed, CrashStep
     DEF Next, SetUpstreamNames
----------------------------------------------------------------------------
(* The theorems *)

\* Channels, table, commands and queues are what the parts of IInv say, through
\* changes of the list, calls that were cut off and crashes of the aide
\* (upper-channels.go).
THEOREM RouterInvariant == Spec => []IInv
BY InitIInv, NextIInv, PTL DEF Spec

\* Every variable has its type, and a router never has one channel twice.
THEOREM RouterTypeOK == Spec => []TypeOK
<1>1. IInv => TypeOK
  <2> SUFFICES ASSUME IInv PROVE TypeOK
    OBVIOUS
  <2>1. Types
    BY DEF IInv
  <2>2. IsInjective(channels)
    BY DEF IInv, ChannelsInv, IsInjective
  <2>3. ASSUME NEW i \in Ids
        PROVE  /\ \/ upc[i] = NoChannel
                  \/ /\ upc[i].name \in Gurus /\ upc[i].index \in Nat /\ upc[i].at \in DialerStates
                     /\ upc[i].closed \in BOOLEAN /\ upc[i].ping \in BOOLEAN
               /\ \A p \in Range(upc[i].up) : p.op \in {"sub", "unsub"} /\ p.topic \in Topics
    <3>1. upc[i] = NoChannel \/ upc[i] \in Channel
      BY <2>1 DEF Types
    <3>2. NoChannel.up = <<>> /\ <<>> \in Seq(Packets)
      BY EmptySeq DEF NoChannel
    <3>3. upc[i].up \in Seq(Packets)
      BY <3>1, <3>2 DEF Channel
    <3>4. \A p \in Range(upc[i].up) : p \in Packets
      BY <3>3, Elements
    <3> QED
      BY <3>1, <3>4 DEF Channel, Packets
  <2>4. \A c \in Range(bucket) : c.op \in {"sub", "unsub", "remap", "mine"}
    <3>1. \A c \in Range(bucket) : c \in BucketCommands
      BY <2>1, Elements DEF Types
    <3> QED
      BY <3>1 DEF BucketCommands, Packets
  <2>5. \A g \in Gurus : guruTable[g] \subseteq Ids \X Topics /\ \A i \in Range(guruQueue[g]) : i \in 1..Cardinality(Gurus)
    BY <2>1, Elements DEF Types
  <2> QED
    BY <2>1, <2>2, <2>3, <2>4, <2>5 DEF TypeOK, Types
<1> QED
  BY <1>1, RouterInvariant, PTL

\* Whenever SetUpstreamNames is not between its first loop and the new maglev,
\* where a stale channel may have cut it off, the channel at the place of a topic
\* is the one for the guru at that place; and a channel always knows its place.
THEOREM RouterAlwaysAgrees == Spec => []RouterAgrees
<1>1. IInv => RouterAgrees
  BY DEF IInv, ChannelsInv, RouterAgrees
<1> QED
  BY <1>1, RouterInvariant, PTL
=============================================================================

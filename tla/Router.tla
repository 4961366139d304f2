------------------------------- MODULE Router -------------------------------
(***************************************************************************)
(* How an aide follows changes of the list of gurus, in TCP mode           *)
(* (iot/upper-channels.go, iot/guru-dialer.go, the callbacks at the end of *)
(* iot/lookup-table.go), and how a guru drops the topics that moved.       *)
(*                                                                         *)
(* SetUpstreamNames runs in a goroutine of the web server while the        *)
(* buckets read the same router without a lock, so its steps are actions   *)
(* of their own.  Its panics are recovered by the web server (the handler  *)
(* of /api2/set in iot/TCPUtil.go): the call is cut off and the aide runs  *)
(* on.  The panic of another goroutine ends the process.                   *)
(*                                                                         *)
(* An upper channel is a number here, with the queue upc.up and a dialer;  *)
(* it is also its contact at the guru.  All topics are in one bucket.      *)
(* What lies between the pump of a channel and the bucket of the guru is   *)
(* in Lookup.                                                              *)
(***************************************************************************)
EXTENDS Integers, Sequences, FiniteSets, SequencesExt

CONSTANTS
    Gurus, Topics,
    Lists,          \* the lists of gurus that the executive may choose
    Place(_, _),    \* maglev.New(list).Lookup(topic), from 1
    MaxChannels,    \* bound on the upper channels of one run of the aide
    MaxChanges,     \* bound on the changes of the list
    MaxOps,         \* bound on the subscribes of clients
    MaxLosses       \* bound on the clients that leave and connections that break

ASSUME RouterAssumption ==
    /\ IsFiniteSet(Gurus) /\ IsFiniteSet(Topics)
    /\ Lists \subseteq Seq(Gurus) \ {<<>>}
    /\ \A l \in Lists : IsInjective(l)
    /\ \A l \in Lists, t \in Topics : Place(l, t) \in 1..Len(l)
    /\ MaxChannels \in Nat /\ MaxChanges \in Nat /\ MaxOps \in Nat /\ MaxLosses \in Nat

Ids == 1..MaxChannels
DialerStates == {"new", "dial", "ask", "void", "serve", "ended"}

VARIABLES
    desired,         \* the list of the executive
    running,         \* the gurus whose processes run
    setting,         \* where SetUpstreamNames is, or that the last call was "cut" off
    names, old,      \* its argument, and the channels there were before
    channels,        \* router.channels
    maglev,          \* the list router.maglev was made from, <<>> for nil
    previousmaglev,
    upc,             \* the upper channels
    bucket,          \* incoming of the bucket of the aide
    watched,         \* its topics
    guruMaglev,      \* the list each guru has
    guruQueue,       \* its commands guruDeleteRemappedAndGoneTopics: command.index
    guruTable,       \* per guru: which channel watches which topic
    changes, ops, losses

routerVars == <<setting, names, old, channels, maglev, previousmaglev>>
guruVars == <<guruMaglev, guruQueue, guruTable>>
bounds == <<changes, ops, losses>>
vars == <<desired, running, routerVars, upc, bucket, watched, guruVars, bounds>>

\* An upper channel: where its dialer is, whether it was closed (upc.stopped
\* and upc.up are) and whether it has got a goroutine that sends pings.  A
\* dialer is "new" until its first connection, waits for the bucket ("ask", or
\* "void" when its connection broke meanwhile), serves, and dials again.
NoChannel == [name |-> "", index |-> 0, at |-> "none", up |-> <<>>, closed |-> FALSE, ping |-> FALSE]

\* What a process of the aide starts with.
AideStarts ==
    [setting |-> "idle", channels |-> <<>>, maglev |-> <<>>, upc |-> [i \in Ids |-> NoChannel], bucket |-> <<>>]

Init ==
    /\ desired \in Lists /\ running = Range(desired)
    /\ setting = AideStarts.setting /\ names = <<>> /\ old = <<>>
    /\ channels = AideStarts.channels /\ maglev = AideStarts.maglev /\ previousmaglev = AideStarts.maglev
    /\ upc = AideStarts.upc /\ bucket = AideStarts.bucket /\ watched = {}
    /\ guruMaglev = [g \in Gurus |-> <<>>] /\ guruQueue = [g \in Gurus |-> <<>>]
    /\ guruTable = [g \in Gurus |-> {}]
    /\ changes = 0 /\ ops = 0 /\ losses = 0

ChannelNames == [i \in DOMAIN channels |-> upc[channels[i]].name]
Serves(i, g) == upc[i].at \in {"ask", "serve"} /\ upc[i].name = g

\* A channel whose connection ends.
Disconnected(u) ==
    [u EXCEPT !.at = IF @ = "ask" THEN "void" ELSE IF u.closed THEN "ended" ELSE "dial"]

----------------------------------------------------------------------------
(* The executive *)

\* A new list; the gurus on it run.
ChangeList ==
    /\ changes < MaxChanges /\ changes' = changes + 1
    /\ \E l \in Lists \ {desired} : desired' = l /\ running' = running \cup Range(l)
    /\ UNCHANGED <<routerVars, upc, bucket, watched, guruVars, ops, losses>>

\* A guru that is not on the list any more ends, and with it the connections to it.
GuruEnds(g) ==
    /\ g \in running \ Range(desired)
    /\ running' = running \ {g}
    /\ guruMaglev' = [guruMaglev EXCEPT ![g] = <<>>]
    /\ guruQueue' = [guruQueue EXCEPT ![g] = <<>>]
    /\ guruTable' = [guruTable EXCEPT ![g] = {}]
    /\ upc' = [i \in Ids |-> IF Serves(i, g) THEN Disconnected(upc[i]) ELSE upc[i]]
    /\ UNCHANGED <<desired, routerVars, bucket, watched, bounds>>

\* The places of a guru on the list: its myindex.
Places(g) == {i \in DOMAIN desired : desired[i] = g}

\* A mutant: a guru that is not on the list gets a command too, with no place.
TellsAll(g) == IF Places(g) = {} THEN <<0>> ELSE SetToSeq(Places(g))

\* What setGuruUpstreamNames puts into the bucket of a guru.
Commands(g) == SetToSeq(Places(g))

\* setGuruUpstreamNames of all gurus: a new maglev, and a command for the bucket.
TellGurus ==
    /\ \E g \in Range(desired) : guruMaglev[g] # desired
    /\ guruMaglev' = [g \in Gurus |-> IF g \in Range(desired) THEN desired ELSE guruMaglev[g]]
    /\ guruQueue' = [g \in Gurus |-> guruQueue[g] \o Commands(g)]
    /\ UNCHANGED <<desired, running, routerVars, upc, bucket, watched, guruTable, bounds>>

GurusKnow == \A g \in Range(desired) : guruMaglev[g] = desired

\* How many channels there are; the next ones are numbered on from here.
Made == Cardinality({i \in Ids : upc[i].at # "none"})

\* The channel that SetUpstreamNames makes for place n.
NewChannel(n) ==
    [name |-> desired[n], index |-> n, at |-> "new", up |-> <<>>, closed |-> FALSE, ping |-> FALSE]

\* SetUpstreamNames, to the end of the first loop.  No name is ever put into
\* name2channel, so every name gets a new channel.
SetNames ==
    /\ setting \in {"idle", "cut"} /\ GurusKnow
    /\ ChannelNames # desired
    /\ Made + Len(desired) <= MaxChannels
    /\ names' = desired /\ old' = channels
    /\ channels' = [n \in DOMAIN desired |-> Made + n]
    /\ upc' = [i \in Ids |-> IF i - Made \in DOMAIN desired THEN NewChannel(i - Made) ELSE upc[i]]
    /\ setting' = "stale"
    /\ UNCHANGED <<desired, running, maglev, previousmaglev, bucket, watched, guruVars, bounds>>

\* The channels that the second loop has still to lose.
Stale == {i \in Range(old) : upc[i].name \notin Range(names) /\ ~upc[i].closed}
NextStale(i) ==
    /\ setting = "stale" /\ i \in Stale
    /\ \E n \in DOMAIN old : old[n] = i /\ \A m \in 1..(n - 1) : old[m] \notin Stale

\* In the moment between the first connection and "upc.down = nil" nothing is
\* nil.  The dialer then fails to write its Connect, and ends.
LoseStale(i) ==
    /\ NextStale(i) /\ upc[i].at = "new" /\ upc[i].name \in running
    /\ upc' = [upc EXCEPT ![i].closed = TRUE, ![i].at = "ended"]
    /\ UNCHANGED <<desired, running, routerVars, bucket, watched, guruVars, bounds>>

\* Else upc.down is nil, since the first connection, or upc.conn is, until then:
\* closing it panics.  The web server recovers, the table is never made.  The
\* goroutine with the pings may have ended before, if a connection has broken.
PanicOnStale(i) ==
    /\ NextStale(i)
    /\ \E pings \in BOOLEAN :
          /\ upc[i].at = "serve" => pings
          /\ upc' = [upc EXCEPT ![i].closed = TRUE, ![i].ping = @ /\ pings]
    /\ setting' = "cut" /\ names' = <<>> /\ old' = <<>>
    /\ UNCHANGED <<desired, running, channels, maglev, previousmaglev, bucket, watched, guruVars, bounds>>

\* A mutant: the old table is kept.
KeepMaglev ==
    /\ setting = "stale" /\ Stale = {}
    /\ setting' = "push"
    /\ UNCHANGED <<desired, running, names, old, channels, maglev, previousmaglev, upc, bucket, watched, guruVars, bounds>>

\* No stale channel is left, and the table changes.
SetMaglev ==
    /\ setting = "stale" /\ Stale = {}
    /\ previousmaglev' = maglev
    /\ maglev' = names
    /\ setting' = "push"
    /\ UNCHANGED <<desired, running, names, old, channels, upc, bucket, watched, guruVars, bounds>>

\* The command reSubscribeRemappedTopics.  It is waited for, but not longer
\* than five seconds.
PushRemap ==
    /\ setting = "push"
    /\ bucket' = Append(bucket, [op |-> "remap"])
    /\ setting' = "idle" /\ names' = <<>> /\ old' = <<>>
    /\ UNCHANGED <<desired, running, channels, maglev, previousmaglev, upc, watched, guruVars, bounds>>

----------------------------------------------------------------------------
(* The bucket of the aide *)

\* getUpperChannel indexes past the channels: the list got shorter, and the
\* table is still the old one.
OutOfRange(t) == maglev # <<>> /\ channels # <<>> /\ Place(maglev, t) > Len(channels)

\* The packets that PushUp adds to channel i for some topics; without a router
\* nothing goes up.
PushUp(i, op, ts) ==
    LET mine == IF maglev = <<>> \/ channels = <<>> THEN {} ELSE {t \in ts : channels[Place(maglev, t)] = i}
    IN SetToSeq([op : {op}, topic : mine])

\* The topics a command pushes up.  A channel that has a connection asks for
\* its own ones by index; the list may have changed since it was made.
Remapped == {t \in watched : previousmaglev = <<>> \/ Place(maglev, t) # Place(previousmaglev, t)}

\* A mutant: the first topics only.
NoneOfMine(c) == {}

TopicsOf(c) == {t \in watched : maglev # <<>> /\ Place(maglev, t) = upc[c.channel].index}

Pushes(c) ==
    CASE c.op = "sub" -> {c.topic}
      [] c.op = "unsub" -> watched \cap {c.topic}
      [] c.op = "remap" -> Remapped
      [] c.op = "mine" -> TopicsOf(c)

\* The dialer that sent "mine" waits for it before it pumps; a closed one ends.
Resumed(u) ==
    [u EXCEPT !.at = IF u.closed THEN "ended" ELSE IF @ = "ask" THEN "serve" ELSE "dial",
              !.ping = @ \/ ~u.closed]
Waits(u) == u.at \in {"ask", "void"}

BucketRuns ==
    /\ bucket # <<>>
    /\ LET c == Head(bucket)
       IN /\ \A t \in Pushes(c) : ~OutOfRange(t)
          /\ upc' = [i \in Ids |->
                [(IF c.op = "mine" /\ c.channel = i /\ Waits(upc[i]) THEN Resumed(upc[i]) ELSE upc[i])
                    EXCEPT !.up = @ \o PushUp(i, IF c.op = "unsub" THEN "unsub" ELSE "sub", Pushes(c))]]
          /\ watched' = CASE c.op = "sub" -> watched \cup {c.topic}
                          [] c.op = "unsub" -> watched \ {c.topic}
                          [] OTHER -> watched
    /\ bucket' = Tail(bucket)
    /\ UNCHANGED <<desired, running, routerVars, guruVars, bounds>>

ClientSubscribes ==
    /\ ops < MaxOps /\ ops' = ops + 1
    /\ \E t \in Topics : bucket' = Append(bucket, [op |-> "sub", topic |-> t])
    /\ UNCHANGED <<desired, running, routerVars, upc, watched, guruVars, changes, losses>>

\* The last client unsubscribes.
ClientLeaves ==
    /\ losses < MaxLosses /\ losses' = losses + 1
    /\ \E t \in watched : bucket' = Append(bucket, [op |-> "unsub", topic |-> t])
    /\ UNCHANGED <<desired, running, routerVars, upc, watched, guruVars, changes, ops>>

----------------------------------------------------------------------------
(* dialGuru and dialGuruAndServe *)

\* A connection, and the command reSubscribeMyTopics.  The dialer of a closed
\* channel may have been on its way.
Dial(i) ==
    /\ upc[i].at \in {"new", "dial"} /\ upc[i].name \in running
    /\ upc' = [upc EXCEPT ![i].at = "ask"]
    /\ bucket' = Append(bucket, [op |-> "mine", channel |-> i])
    /\ UNCHANGED <<desired, running, routerVars, watched, guruVars, bounds>>

\* The pump, and the bucket of the guru: it takes whatever topic it is sent.
\* After one packet it sees that upc.stopped is closed.
Pump(i) ==
    /\ upc[i].at = "serve" /\ upc[i].up # <<>>
    /\ LET p == Head(upc[i].up)
           g == upc[i].name
       IN guruTable' = [guruTable EXCEPT ![g] =
              IF p.op = "sub" THEN @ \cup {<<i, p.topic>>} ELSE @ \ {<<i, p.topic>>}]
    /\ upc' = [upc EXCEPT ![i].up = Tail(@), ![i].at = IF upc[i].closed THEN "ended" ELSE @]
    /\ UNCHANGED <<desired, running, routerVars, bucket, watched, guruMaglev, guruQueue, bounds>>

\* A dialer or a pump that sees that upc.stopped is closed.
DialerEnds(i) ==
    /\ upc[i].closed /\ upc[i].at \in {"new", "dial", "serve"}
    /\ upc' = [upc EXCEPT ![i].at = "ended"]
    /\ UNCHANGED <<desired, running, routerVars, bucket, watched, guruVars, bounds>>

\* The connection breaks, with what its contact had subscribed.
Break(i) ==
    /\ losses < MaxLosses /\ losses' = losses + 1
    /\ upc[i].at \in {"ask", "serve"}
    /\ upc' = [upc EXCEPT ![i] = Disconnected(@)]
    /\ guruTable' = [guruTable EXCEPT ![upc[i].name] = {e \in @ : e[1] # i}]
    /\ UNCHANGED <<desired, running, routerVars, bucket, watched, guruMaglev, guruQueue, changes, ops>>

\* A mutant: the comparison is the wrong way round.
DropsKept(g, t, index) == Place(guruMaglev[g], t) = index

\* index != cmd.index
Drops(g, t, index) == Place(guruMaglev[g], t) # index

\* guruDeleteRemappedAndGoneTopics: with the maglev there is by now.
GuruDeletes(g) ==
    /\ guruQueue[g] # <<>>
    /\ guruTable' = [guruTable EXCEPT ![g] = {e \in @ : ~Drops(g, e[2], Head(guruQueue[g]))}]
    /\ guruQueue' = [guruQueue EXCEPT ![g] = Tail(@)]
    /\ UNCHANGED <<desired, running, routerVars, upc, bucket, watched, guruMaglev, bounds>>

----------------------------------------------------------------------------
(* Panics *)

\* A closed channel is used: its pump receives the nil of a closed upc.up, or the
\* goroutine with the pings, which looks every 300 seconds, sends on it.
Misused(u) == u.closed /\ (u.ping \/ (u.at = "serve" /\ u.up = <<>>))

\* Or the index of a push is out of range.  The process ends, its connections
\* close, and it is started again with nothing.
Crash ==
    /\ \/ \E i \in Ids : Misused(upc[i])
       \/ bucket # <<>> /\ \E t \in Pushes(Head(bucket)) : OutOfRange(t)
    /\ setting' = AideStarts.setting /\ names' = <<>> /\ old' = <<>>
    /\ channels' = AideStarts.channels /\ maglev' = AideStarts.maglev /\ previousmaglev' = AideStarts.maglev
    /\ upc' = AideStarts.upc /\ bucket' = AideStarts.bucket /\ watched' = {}
    /\ guruTable' = [g \in Gurus |-> {}]
    /\ UNCHANGED <<desired, running, guruMaglev, guruQueue, bounds>>

----------------------------------------------------------------------------
SetUpstreamNames ==
    SetNames \/ SetMaglev \/ PushRemap \/ \E i \in Ids : LoseStale(i) \/ PanicOnStale(i)

Next ==
    \/ ChangeList \/ ClientSubscribes \/ ClientLeaves
    \/ SetUpstreamNames \/ BucketRuns \/ Crash
    \/ TellGurus \/ \E g \in Gurus : GuruDeletes(g) \/ GuruEnds(g)
    \/ \E i \in Ids : Dial(i) \/ Pump(i) \/ DialerEnds(i) \/ Break(i)

Spec == Init /\ [][Next]_vars

\* What is fair is weaker than that every goroutine runs: as long as one of them
\* can go on, one does.
Goroutines ==
    \/ SetUpstreamNames \/ BucketRuns \/ Crash \/ TellGurus
    \/ \E g \in Gurus : GuruDeletes(g)
    \/ \E i \in Ids : Dial(i) \/ Pump(i)

FairSpec == Spec /\ WF_vars(Goroutines)

----------------------------------------------------------------------------
(* Properties *)

\* Every variable has its type; the channels of the router are different ones.
TypeOK ==
    /\ desired \in Lists /\ running \subseteq Gurus /\ names \in Lists \cup {<<>>}
    /\ setting \in {"idle", "stale", "push", "cut"}
    /\ channels \in Seq(Ids) /\ IsInjective(channels) /\ old \in Seq(Ids)
    /\ maglev \in Lists \cup {<<>>} /\ previousmaglev \in Lists \cup {<<>>}
    /\ \A i \in Ids :
          \/ upc[i] = NoChannel
          \/ /\ upc[i].name \in Gurus /\ upc[i].index \in Nat /\ upc[i].at \in DialerStates
             /\ upc[i].closed \in BOOLEAN /\ upc[i].ping \in BOOLEAN
    /\ \A i \in Ids : \A p \in Range(upc[i].up) : p.op \in {"sub", "unsub"} /\ p.topic \in Topics
    /\ \A c \in Range(bucket) : c.op \in {"sub", "unsub", "remap", "mine"}
    /\ watched \subseteq Topics
    /\ guruMaglev \in [Gurus -> Lists \cup {<<>>}]
    /\ \A g \in Gurus : guruTable[g] \subseteq Ids \X Topics /\ \A i \in Range(guruQueue[g]) : i \in 1..Cardinality(Gurus)

\* A call of SetUpstreamNames that is not cut off leaves channels and a table
\* that were made from the same list, and at all times each channel knows its
\* own place: this is what lets a bucket read the two without a lock.
RouterAgrees ==
    /\ setting \in {"push", "idle"} => ChannelNames = maglev
    /\ \A n \in DOMAIN channels : upc[channels[n]].index = n

Covered(t) ==
    \E i \in Range(channels) : <<i, t>> \in guruTable[desired[Place(desired, t)]]

AllCovered == bucket = <<>> /\ \A t \in watched : Covered(t)

\* When the list no longer changes, every topic that clients of the aide watch
\* is subscribed at the guru it maps to: through remapping, dialing, a crash
\* and topics that a guru dropped with an old or a new list; unless the aide
\* lives on with the table that a call which was cut off has left.
EventuallyCovered == <>[](setting = "cut" \/ AllCovered)

\* "iterate all the subscriptions and push up (again) the ones that have been
\* remapped" (upper-channels.go:150), so in the end every topic is covered.
RemappedArePushedUp == <>[]AllCovered
=============================================================================

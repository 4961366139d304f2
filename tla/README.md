# knotfree: a TLA+ model of the message cluster

knotfreeiot is a publish/subscribe service. Clients connect to *aides*; an aide keeps the
subscriptions of its own clients and forwards every packet to the *guru* that is responsible for the
topic. The code is Go, and nearly every part of it is a goroutine behind a bounded channel. This
directory models that code in TLA+, checks the models with TLC on small instances, and proves with TLAPS,
for every instance, the central invariants of the contact, the upstream router, the aide dialer, the
cluster, the name service and the protocol front ends, and that the service contact implements what its callers
rely on.

`PROJECT.json` lists the components, the runs, the mutants that show that each property can fail, the
source lines of every definition, the findings, the hazards and the theorems.

## 1. Inventory

| part | code | state | operations | talks to | modelled in |
|---|---|---|---|---|---|
| contact | `iot/contacts.go`, `TCPUtil.go` | channel of commands, closed channel, token, expiry, billing times, list of contacts | push a packet up, deliver a packet down, check in, extend, bill, heartbeat, close | its reader, the heartbeat, the buckets, the lookup table | `Contact` |
| lookup table | `iot/lookup-table.go`, `subscribe.go`, `publish.go` | per bucket: a channel and a map of topics with their watchers, expiry, owner, options, billing | subscribe, unsubscribe, publish, the same on the way down, heartbeat, resubscribe, remap | contacts below, upper channels above, billing, database | `Lookup`, `Router` |
| guru dialer | `iot/guru-dialer.go` | connection, `upc.up`, running flag | dial, resubscribe, pump, read, fail and dial again | lookup table of the aide, contact at the guru | `Lookup`, `Router` |
| upstream router | `iot/upper-channels.go` | list of gurus, maglev table, one upper channel each | change the list, remap the topics | dialer, lookup table | `Router` |
| aide dialer | `iot/aide-dialer.go` | a connection to any aide, the index of it | choose an aide, dial, write, read | packets in `channelToAnyAide`, the operator's list | `AideDialer` |
| service contact | `iot/service-contact.go`, `service-contact_tcp.go` | map of session keys to channels, connection | send a packet and wait for the reply or a timeout, dispatch, keep alive, redial | a contact or a TCP connection | `Service`, `Rpc` |
| name service | `iot/lookmsg.go`, `nameServices.go`, `mongo.go` | entries of the guru's table with an owner, documents in mongo | reserve, delete, set, get, details, exists | buckets, database | `NameService` |
| billing | `iot/billing.go` | ring of buckets of usage, limits | add usage, average, compare with limits | heartbeat of contacts and topics | `Billing` |
| executive | `iot/executive.go` | aides, gurus, their statistics | heartbeat, grow, shrink, tell the list | everything | `Cluster` |
| protocols | `iot/mqtt-protocol.go`, `text-protocol.go` | per connection: a buffer, subscriptions | framing, conversion of packets | contact | `FrontEnds` |
| packets | `packets/packets.go` | the backing universal of a packet | encode, decode | all protocols | `Packets` |

What is hard about this code:

* **Everyone waits on everyone.** Goroutines send to bounded channels while other goroutines wait for
  them (contact loop, buckets, `upc.up`, the dispatcher of the service contact).
* **State that is read in one step and used in a later one.** Names are loaded outside the bucket; the
  heartbeat works on copies; unsubscribes are sent after the fact by a new goroutine; the two goroutines
  of the aide dialer share three variables without a lock; all subscribers of a topic write one packet.
* **Failures.** Connections break with packets on them, are dialed again and have to rebuild what the
  guru knows; a guru restarts with nothing but its database; a call that changes the list of gurus panics
  half-way and is recovered by the web server, or ends the process.
* **Averages that follow late.** The cluster grows, shrinks and disconnects clients by averages over
  buckets that are used again.

The hazards in `PROJECT.json` give the lines and the properties that watch them.

## 2. Modules

Each module names in its head what it stands for; its actions have the names of the functions, or say
which part of one they are. A module that starts with `MC` only gives its module values for TLC.

### Contact

One contact, with its loop and the goroutines that use it. A goroutine is a list of calls still to make
(`todo`) and a position in the current call (`pc`: before the send, sending, waiting). A closure sent to
`commands` is a record with the call it stands for and the goroutine that waits for it. The loop is
`loopAt`: selecting, running a command, in the tail of a command that has called `SetExpires`, in a
`DoClose` of its own, closing, or gone. `PushSetExpires` and `PushExpectToken` are
`PushPacketUpFromBottom2` in two steps, because the first one sends into the very channel the loop empties.

Left out: the HTTP handlers, socket options, the in-process `ContactStruct.WriteDownstream`.

### Lookup

The tables of several aides and one guru, joined by connections. A node is one bucket: topics in
different buckets do not interact. `subs` is the table, `incoming` the bucket's channel, `up` is
`upc.up`, `down` stands for everything between the guru's bucket and the aide's reader. A contact is a
pair of client or aide and connection number, so that after a redial the old contact of the guru is a
different one, and stays open until the guru notices.

Each `Process...` action is the whole handler, with the watchers changed, the replies and the packet
pushed up. Pushing up needs room in `up`: a handler that would block is not enabled, and since nothing
else of that bucket can run either, this is what blocking does. `DeferredUnsubscribe` is the goroutine
`heartBeatCallBack` starts. `Break` loses what the connection carried; `PumpIntoTheVoid` writes a packet
to a connection nobody reads.

Abstractions: the list of gurus does not change (that is `Router`); the queue of a client's contact is
drained; a heartbeat is not queued twice in a bucket; a reader of an old connection that closes the new
one is a `Break`; the resubscription pushes all its topics in one step, which `LookupAssumption` allows
only when they fit; a sender waits when `incoming` is full (the code of `sendSubscriptionMessage` drains
the channel in that case; see the hazards).

### Router

What `Lookup` holds fixed: the list of gurus. `SetUpstreamNames` is several actions (`SetNames`,
`LoseStale` or `PanicOnStale` for each channel that is gone, `SetMaglev`, `PushRemap`), because the buckets
read the channels and the table between them. `PushUp` and `BucketRuns` index one with the other, and
`OutOfRange` says when that fails.

Of a channel that is gone, `upc.down` or `upc.conn` is nil, so that closing it panics as soon as it is met
(`PanicOnStale`), after the channels were replaced and before the table is. The call is a handler of
`/api2/set`, and `net/http` recovers it: the aide lives on (`setting = "cut"`) with new channels and the old
table, and a later call with the same list changes nothing. The closed channel ends the process if its pump or
the goroutine that pings on it gets to it (`Misused`, `Crash`), and so does an index out of range; a channel
that was never connected has neither, and nothing happens to the aide at all. After a crash the executive tells
a fresh router the list. A guru that is off the list may go on running for a while (`GuruEnds`); it drops the
topics that moved away from it by `guruDeleteRemappedAndGoneTopics`, with the number it had when the command was
made.

Left out: no name is ever put into `name2channel` (`upper-channels.go:102`), so that each change dials every
guru again, which is what the model does; a stale channel whose dialer has not started its first step, and a bucket
that is between choosing a channel and sending on it while that is closed, which panic likewise.

### NameService

The entries of a guru that are names. `db` is the mongo collection, `heap` holds the `WatchedTopic`
objects so that a callback and the table can share one, `table` is `mySubscriptions`. A command that
does not find its name starts a goroutine (`loads`) that reads the document and pushes a callback to the
bucket. `reserve` and `delete` run in the bucket (`busy`): the comment in the code says they are
asynchronous, but the function is called, not started. A subscribe makes an entry without owner; the
heartbeat deletes entries without subscribers; the guru may restart, and ends by itself when `set option`
gets fewer than two arguments (`Ruin`: after the error reply it indexes them).

Abstractions: mongo answers without errors, and `SaveSubscription` (find, then insert or replace) is one
step because the bucket of the name waits for it; options are a set of (command, key) pairs, since
properties ask only who set them; the expiry of a name is not modelled; a `bulk option` has at least one
pair and the words of a value are even in number (what else ends the process, in `StringToMap` and
`MapToString`, is not sent). One name has one bucket.

### Service and Rpc

`Rpc` is what a caller may rely on: a call is answered at most once, with the reply to its own request
and after somebody served it, or it fails, and one of the two happens. `Service` has both flavours of the
service contact and implements it: the refinement maps where a caller is (`RpcCall`) and which requests
were answered. The dispatcher takes the channel out of the map in one step and sends to it in a later
one, so that a caller may time out in between. Over TCP there are the dialer, the writers of earlier
connections that never end, and the panic of a writer that prints a nil error.

A packet is written in one step; session keys are the calls themselves.

### Packets and FrontEnds

`Packets` has the formats as operators (addresses with their type byte, options, variable length integers,
arrays of byte arrays) and a small machine: the contacts of all subscribers of a topic write *one* packet, and
each `Write` has a step wherever it reads or writes the universal in it that they share. A packet with an error
is not written by a text contact, nor by a tcp contact of an aide: they write a disconnect with the error
(`Replaced`, `WriteError`); an mqtt contact writes a publish and then a disconnect. `FrontEnds` puts an MQTT
client in front: web socket messages cut the bytes anywhere, `WebSocketLoop` handles at most one packet per
message, `MQTTHandlePacket` makes packets of them, and a publish is then delivered through the machine of
`Packets`. Each packet goes up by itself (`PushPacketUpFromBottom`), because `expectToken` starts a goroutine
that closes the contact (`MakeErrorAndDisconnect`) when the client has no token or a refused one. The packet
goes up all the same, and a refused connect still has its connack if the goroutine is not faster: inside the
closure that pushes it, `err :=` is another variable than the one that is returned (`contacts.go:291`). A packet
pushed to a closed contact waits for a loop that is gone (`PushInVain`). A publish with a lookup is a publish
like any other, because the code looks for a word that its own conversion of properties puts into brackets
(`Lookups`). Base, digits, sizes and the hash are constants; the run uses small ones.

### Billing and Cluster

`Billing` is the accumulator as operators: the ring of buckets is the sequence of those in use, the start of a
bucket is its age. `Cluster` is one beat of everybody (`Heartbeat`), the goroutines it starts (`ContactReports`,
`TopicReports`, `Check`), the clients that come back, and `Operate`, which grows and shrinks by
`CalcExpansionDesired` and tells the list. `Operate` works only in non-TCP mode, where no upper channel has a
connection: with a guru less it panics in the first aide it tells (`OperatePanics`, `upper-channels.go:137`), in
the goroutine of its caller, and the process is `over`. So lists of gurus only grow. Bytes are not billed in the
model: the code stores zero over them before it reports them. Buffers (how full the queues are) are any of
`Buffers`. A client that is over its limit is closed here, where the contact of a TCP client of an aide would
wait for itself (`ErrorPacketCloses`).

### AideDialer

The writer (`writer`) and the reader (`reader`) of the connection to any aide, with the variables
`index`, `name` and `conn` that both use without a lock. Every step reads or writes them at most once.
The operator changes the list; connections break, and the kernel may take what is written to a broken one
(`Takes`), so that a packet is lost without an error. An aide closes a connection whose greeting did not
arrive at its read deadline (`AideCloses`), which is what ends a writer that waits for a reader that still reads.

### ContactProofs, LookupProofs, RouterProofs, AideDialerProofs, ClusterProofs, ServiceProofs, NameServiceProofs, FrontEndsProofs

The theorems of section 4 and their lemmas.

## 3. Runs

Deadlock checking is off in all runs: each bounds what its environment does, so that a system nobody uses is at
rest, or has a process that may end (`service`, `cluster`, `aide_dialer`). That it comes to rest only then is what the liveness properties say.

| run | what it shows |
|---|---|
| `contact_safety` | In every order of reader, heartbeat, a delivery and spawned goroutines: the list holds exactly the open contacts, every waiting goroutine has exactly one command left (or the contact closed), the billing topic is subscribed once and only after check-in, one goroutine's deliveries keep their order, a closed contact does not change |
| `contact_live` | On a guru, with room in the channel, who waits is served or the contact closes, and a called `DoClose` takes effect |
| `lookup_delivery` | Three clients on two aides, which leave and come again while an aide's heartbeat sweeps: messages of a publisher arrive in order and once, not at the publisher, and at every subscriber whose subscription was in place; what the guru knows of an aide's topics it does not lose, but for the late unsubscribe of a heartbeat |
| `lookup_live` | With a connection that breaks, a client that leaves silently and topics that expire: connections come back, the guru is told the topics of the aide again and does not lose them before they are too old, subscriptions are answered, and the guru forgets an aide nobody is left on |
| `router` | The list of gurus grows or shrinks under a working aide, with breaks, calls that are cut off and crashes: channels and table agree after every other call, and in the end every watched topic is subscribed at its guru unless the aide lives on with the old table |
| `name_service` | A command is answered exactly once; options belong to the owner, who reserved the name; until a delete, the owner is stable and the table agrees with the database |
| `service` | `Service` implements `Rpc`; no key stays in the map; a new connection gets its subscription |
| `front_ends` | Packets cut anywhere are handled one by one in order; what a reader accepts is what was sent, or the disconnect that replaces an error, whoever else wrote it; subscriptions of the contact and the table agree, also when a refused token closes the contact between two topics |
| `packets_race` | violated, see below |
| `cluster` | While aides come and go and gurus come, all agree on the gurus, until a guru less ends the process; after a while without a change the averages are what there is; a client within its limit is in the end left alone |
| `billed_over` | violated, see below |
| `aide_dialer` | A connection this node knows has ended costs one packet more at most, none is left open behind another, and a writer that has dialed does not wait for its reader for ever |

### Where the code does not do what it says

Two runs have a counterexample:

* `packets_race`: `Write` stores the new universal in the packet before it is filled
  (`packets.go:714`); another subscriber's contact finds it there and writes the unfinished one. Its
  client cannot read the rest of the stream.
* `billed_over`: the time a report is about is assigned to a variable that shadows the one which is sent
  (`contacts.go:757`), so an accumulator sees thirty connection-seconds in no time at all, and a client
  that makes the one connection its token allows is over its limit at its first report and is closed.

Other statements of comments and tests that the code does not keep are definitions at the end of their
modules. They are in no run; put one in a configuration and TLC shows the behaviour:

| statement | with | what happens |
|---|---|---|
| `Contact!ErrorPacketCloses` | `FairSpec`, `IsGuru = FALSE`, `DownPackets <- ErrorDown` | writing an error packet calls `DoClose` from inside the loop, which waits for itself (`TCPUtil.go:181`) |
| `Contact!PushReturns` | `FairSpec` | a packet pushed while the contact closes is not thrown away: the loop drops the command together with its `wg.Done()` (`contacts.go:226`) |
| `Lookup!Coverage` | as in `lookup_delivery` | the unsubscribe of a heartbeat is sent late, by a goroutine: a client leaves, the sweep finds the topic empty, another client subscribes to it, and then the guru is told that nobody wants it (`subscribe.go:468`) |
| `Lookup!Reconnects` | `UpCap = 1` | the dialer waits for the bucket before it empties `upc.up`, and the bucket for room in it (`guru-dialer.go:278`) |
| `Router!RemappedArePushedUp` | as in `router` | a guru that was listed and never reached is taken off the list: `SetUpstreamNames` panics on its channel (`upper-channels.go:133-138`), the web server recovers, and the aide lives on with the old table, for good; "push up (again) the ones that have been remapped" (`upper-channels.go:150`) does not happen |
| `NameService!OwnerNeverChanges` | `MaxCommands = 4` | a set that loaded a name before it was deleted and reserved by somebody else gives it back to the old owner (`lookmsg.go:225`) |
| `Service!DispatcherServes` | as in `service` | the dispatcher waits for ever for a caller that timed out; no later call gets a reply (`service-contact.go:246`) |
| `Cluster!OperateWorks` | the times of `BilledOver.cfg` | the average of a topic that is reported once a minute sinks in between, `Operate` takes a guru away, and telling the first aide panics (`executive.go:563`) |
| `Cluster!SettlesDown` | the times of `BilledOver.cfg`, `FairSpec`, `Topics = {}`, `MaxNodes = 3`, `MaxConnections = 20`, `AideLimit = 1` | a client that only connects again makes the cluster grow and shrink for ever: the margin of the comparison (`executive.go:381-388`) is smaller than what an average rises with a report and sinks until the next |
| `AideDialer!Drains` | as in `aide_dialer` | the reader, always last, sets the index to -1 after the writer has chosen a new one, and each connection ends the next (`aide-dialer.go:297`) |
| `AideDialer!StartsOver` | as in `aide_dialer` | reader and writer close each other's connection, and one of them fails on a nil one, which ends the process (`aide-dialer.go:295`) |

### Bounds

Channels have one to four places. That is enough to make a channel full or empty in front of any action, which
is all the code can tell apart; the liveness runs of the contact and the lookup table leave room for everything
the bounded clients can send, because with full channels the code does stop. Two or three Gos, one writer, one
reader and the heartbeat are all the kinds of goroutine that use a contact, and the proofs cover more of them.
Three clients on two aides give a neighbour, a stranger and a publisher. In `lookup_delivery` connections do not
fail, since a break loses messages by design, and nobody asks for `pub2self`: a client that asks marks its whole
aide at the guru, and then its neighbours are sent back their own messages (`publish.go:246`), against the
comment at `lookup-table.go:103-105`. Its four operations let a client leave, a sweep find the topic empty and a
neighbour subscribe to it again before the unsubscribe is sent; TLC finds `StaysCovered` violated there without
its exception (`Overtaken`, that is `Coverage`). Its clock stands still. In `lookup_live` time passes, with the
three times in the order they have in the code. There a topic that is too old for the guru may be known to the
aide a little longer (`TooOld`), in two ways: `reSubscribe` does not send `statsmax`, so that after a redial the
guru keeps a billed topic `SubTTL` and the aide `BillTTL`; and a publish of another client extends the aide's
entry after the guru's is too old. The topic is then unknown to the guru until the client subscribes again or
the aide's entry expires. `router` has two gurus, one topic that moves and one that stays, one change, one
break; three channels let every dial of one change happen, or those before and after a crash. Three commands on
one name are enough for a load to race with a delete or a reserve; a delete, a reserve by somebody else and a
load that began before take four, which are too many states and left to the theorem (`NamesOwnersOptions`);
`MaxEntries` bounds only the entries that subscribes make. `service` has a caller with the timeout of
`SendPacket` and one with a longer one, two answers to one request and one lost connection. `front_ends` uses
base 4 with three digits so that lengths are on both sides of one and two digits and of the largest packet,
addresses of each type, errors that fit and one that does not, and clients without a token, with a refused one,
and with one after other packets. `aide_dialer` has two losses, which lets a connection break while the
consequences of the last one are under way, and three connections, more than the two the two goroutines can
refer to.

`cluster` scales the times down by keeping their order and divisibility: reports at 2 and then every 4 beats (30
and 60 seconds of 10 each), three buckets of 12 (four of 600). One client reaches two aides, and three topics
three gurus, with limits low enough that both lists grow, that an aide is added while one of its name is there,
and that a guru less is asked for. `AgeCap` is past the ring, and `SteadyCap` is the ring's length plus the
reports on their way: an average is required to be right only after that. The margin of `AveragesSettle` is the
report that is always missing. What a client is closed for is the first report of an account, which depends on
neither scale nor ring. `billed_over` has the real times, as do the statements on the cluster in the table
above: how much averages differ from what there is, and whether the margin of `CalcExpansionDesired` covers
that, depends on them.

### Fairness

* `Contact!FairSpec`: weak fairness of the loop's steps (`LoopStep`, one `select`); strong fairness of each
  goroutine's steps, because a Go channel serves blocked senders first come, first served; weak fairness
  of `ReadError`, because a read of a connection ends at its deadline.
* `Lookup!FairSpec`: weak fairness of each bucket, heartbeat, pump, reader, dialer (which retries for
  ever) and deferred unsubscribe, and of the guru noticing a dead connection at its read deadline.
* `Router!FairSpec`: as long as the executive has somebody to tell or some bucket, dialer or pump can go on, one of
  them does; that each does in the end is not even needed.
* `NameService!FairSpec` (buckets, loads) is used by no run: `AnsweredOnce`, a safety property, says that no command
  is forgotten. That each is then answered needs goroutines that run, and a bucket that is not blocked: it
  pushes callbacks into its own channel (`nameServices.go:186`, `263`), and with a full one it waits for itself.
* `Service!FairSpec`: goroutines run, timers fire, dialing succeeds in the end, and the cluster answers a
  subscribe. That it answers a request is not assumed.
* `Cluster!FairSpec`: the timer calls the heartbeat and `Operate`, and what they start runs.
* `AideDialer!FairSpec`: weak fairness of both goroutines and of an aide that closes at its deadline. It is
  not enough for `Drains`, see above.

Nothing is assumed of clients, of failures or of the clock.

## 4. Proofs

`ContactProofs` proves, for every set of goroutines, every channel capacity and any mix of packets:

* `ContactTypeOK`: the type invariant, with the bound on the channel;
* `ContactListHoldsOpen`: the list holds exactly the open contacts, except inside `DoClosingWork`;
* `ContactWaitersAccounted`: a waiting goroutine has exactly one command in the channel or in the loop, or
  the contact closed, and no command outlives its waiter, so no `WaitGroup` is released twice;
* `ContactClosedIsFinal`: no step changes token, expiry, billing time or output of a closed contact;
* `ContactBilledOnce`: the billing topic is subscribed once, and only by a contact that checked in;
* `ContactWireOrder`: what the callers' goroutines push reaches the wire in the order each pushed it.

The first four follow from one inductive invariant,

    IInv == TypeOK /\ ThreadInv /\ OwnCommandsInv /\ LoopInv
            /\ ListHoldsOpenContacts /\ WaitersAccounted

`WaitersAccounted` alone is not inductive: the loop also sends commands to itself (`SetExpires`, and the
`DoClose` of an error packet), and releasing such a command must not be mistaken for releasing a
goroutine. `OwnCommandsInv` and `LoopInv` say which commands are the loop's own and where the loop is when
it has one; `ThreadInv` says that a goroutine past the start of a call has that call at its head and waits
only in calls that wait. Lemmas on sequences (append, tail, positions of one goroutine's commands) carry
the counting. The other two need a second one,

    HistoryInv == IInv /\ CommandsAreCalls /\ BillInv /\ WritersWrite /\ OrderInv

because they are about histories, what was looked up and what was written. `CommandsAreCalls` says that the
command of a waiting goroutine is the call at the head of its list; `BillInv` that the subscription to the
billing topic is in one place at most, all that one goroutine has to do, or done; `WritersWrite` and
`OrderInv` follow a writer's packets from its list of calls through the channel and the loop to the wire:
what is further on is older. The assumptions are `ContactAssumption` and
`CallersAssumption` (who writes neither reads nor beats nor is spawned, and the subscription of the billing
topic is no packet from the wire), which TLC evaluates in the runs.

`LookupProofs` is about any clients, aides, topics and capacities, any number of operations, and, for the
type, any number of redials and heartbeats:

* `LookupTypeOK`: the type invariant, with the bounds on every channel;
* `LookupInOrder`: if connections do not fail and nobody asks for `pub2self`, then every client gets the
  messages of one publisher in order, none twice, and none of its own (`Calm => InOrder`). Without `Calm`
  the statement is false, as *Bounds* says of `pub2self`;
* `LookupSettledDelivery`: if connections do not fail, no topic is one of billing (`statsmax`) and no heartbeat
  runs, then, once nothing is on its way, a message has reached everybody whose subscription was in place when
  it was published (`Undisturbed => SettledDelivery`). A break loses packets by design, a billing topic delivers
  nothing, and a heartbeat forgets topics that are too old, also while a message for them is on its way.

The inductive invariant of the type has one conjunct for each kind of place a packet can be in (`InInv`,
`UpInv`, `DownInv`: an aide's channel has what its clients send and what comes down, the guru's what aides
send, and so on) and for the tables (`WatchInv`: a topic is watched by the node's own clients, and at the guru
by connections), because a handler takes a packet that another one made and tells where it is from. `OrderInv`
compares all pairs of places on the way from a publisher to a subscriber, `LocalWay` (the aide's channel, then
the client) and `RemoteWay` (the channel of the publisher's aide, its `up`, the guru's channel, the `down` and
the channel of the subscriber's aide, the client): messages of one publisher are increasing in each place, and
those further on the way are older. `DueInv` says where a message that is due to a client may be instead of
with the client: the same places, each with the part of the subscription that it has yet to pass. A message
below the guru needs the client to watch the topic at its aide; one that still has to pass the guru needs in
addition that the guru knows the aide and that no unsubscribe of the aide is on the way there (`GuruKnows`).
That the latter lasts is the point of the proof: an aide sends an unsubscribe only if the topic has nobody
left, and a message that comes down for a topic without an entry (which is answered with an unsubscribe) cannot
be for a topic somebody watches. Each step either leaves a message where it is or takes it one place further
(`Onward`), and keeps the tables for those who stay (`TablesKept`). The assumptions are `LookupAssumption` and
`NoEntryAssumption`: what marks a missing entry is not an entry.

`RouterProofs` is about any gurus, topics and lists of gurus, any function from topics to places (all that is
said about the maglev is that it answers with a place on its list), any number of changes and losses:

* `RouterTypeOK`: the type invariant. Its hard part is the bucket of the aide: what it pushes goes into
  channels that were made, because a push past the end of the list crashes instead (`OutOfRange`);
* `RouterAlwaysAgrees`: after a call of `SetUpstreamNames` that no panic has cut off, channels and table come from
  the same list, and a channel knows its place at all times (`RouterAgrees`).

The inductive invariant is `Types /\ MadeInv /\ ChannelsInv`. `ChannelsInv` says what the channels
were made from while the table is still the old one; `MadeInv`, channels are numbered as they are made,
gives that a new list never gets a channel that the old one has. `RouterAssumption` says that there are
finitely many gurus and topics and that the gurus of a list are different ones.

`AideDialerProofs` is about any list of aides, any number of connections and any capacity:

* `TypeCorrect`: the type invariant;
* `LosesOneMore`: a connection that this node has ended, or whose write has failed, costs one packet more at most
  (`OneLossMore`); what the kernel took before that is not bounded by this code. The invariant `LossInv` says
  where the writer may be once it has lost one: on its way to the next dial, or without a connection and
  about to find that out;
* `LeavesNoneOpen`: no connection is left open behind another (`NoneLeftOpen`). That alone is not
  inductive: the two goroutines share `conn` without a lock, and each forgets a connection in one step and
  closes it in another. `ClosedBeforeDial` and `ClosedBeforeClear` say who has closed the connection that
  is about to be forgotten.

`ClusterProofs` is about any number of aides, clients and topics, any limits, and any ring:

* `ClusterTypeOK`: the type invariant. It says that no aide is twice in the list and that each client and
  its account are on an aide that is there, so the proof is about growing (a new aide is none of those there
  are: while there is room for one more, a name is left), about shrinking (the last aide takes the place of
  the one removed), and about accumulators, which use the oldest bucket again instead of one more;
* `ClusterGurusAgree`: whatever grew and whichever aides went, all that run were told the gurus there are, in
  their order (`GurusAgree`); a guru less ends the process before anybody is told.

The inductive invariant is `AidesInv /\ GurusInv /\ ToldInv /\ UsageInv`; `GurusInv`, the gurus are
numbered in the order of the list, is what growing at the end keeps. `ClusterAssumption` says
that the later reports are at least one beat apart, without which a report would be overdue for ever.

`ServiceProofs` is about any set of calls, both flavours, any capacity and any number of answers and broken
connections:

* `ServiceTypeOK`: the type invariant, with the bounds on both channels;
* `ServiceImplementsRpc`: `Spec => Abstract!Safety`, the safety half of the refinement that the run `service`
  checks. The initial states map to initial states, and every step maps to a step of `Rpc` or to none: a
  caller that starts asks, a delivery answers, a reply of the cluster serves, a timeout fails one call and
  the end of the process fails all that wait. That needs `OriginInv`: what is on its way to the cluster
  belongs to calls that were made, what comes back to calls that were answered, and the dispatcher sends a
  packet nowhere but to the call it is for.

`NameServiceProofs` is about any set of names, keys, subscribers and commands, any
capacity and any number of restarts:

* `NamesTypeOK`: the type invariant. Its hard part is that nothing refers to an object outside the heap;
* `NamesOwnersOptions` and `NamesCacheAgrees`: owners, options, and that the table agrees with the database;
* `NamesOwnerKept`: a step takes a name from its owner only if it deletes the name;
* `NamesAnsweredOnce`: both halves of `AnsweredOnce`. A command is answered once at most and not while it is
  on its way, and a step that is no restart leaves it somewhere or answers it.

What a name's table entry, callbacks, loads and reserve refer to are objects of the heap, and several of
them may be copies of one document, read at different times. So the invariant speaks of all objects that a
name refers to (`Refers`): each is in the heap and, if it has an owner, that owner has reserved the name
and, if nobody deleted it, is the owner in the database (`OwnersInv`). `OptionsInv` says that objects
and documents have options of their owners only. `CommandsInv` says what may be in a channel or a bucket;
without it a callback could end a set on no object. `BoundsInv` bounds the restarts by those of the
environment and one for each command that brings the guru down. For the answers, `OnceInv` says that a
command is in one channel, one bucket or one goroutine, once, and has no answer as long as it is there. The
proof has a lemma for each way a command moves: it enters, goes from the channel to a goroutine or to the
bucket, comes back as a callback, and ends. Besides `NameServiceAssumption` it is assumed that `NoRecord` is
not a document (`NoRecordAssumption`).

`FrontEndsProofs` is about any writers, scripts and messages, and variable length integers of any base and any
length:

* `FramesTheorem`: however the web socket cuts the bytes, control packets are handled one by one in order, and
  what is buffered and under way are the frames that are left (`FramesInOrder`);
* `SubscriptionsTheorem`: the topics a contact would unsubscribe when it closes are those it has subscribed
  above (`SubscriptionsAgree`), also when a refused token closes the contact between two of them; a topic whose
  packet waits for a closed contact is excepted;
* `TypeTheorem`: the type invariant. Whatever writer runs when, a universal that is begun has the command and a
  prefix of the arguments of the packet;
* `RoundTrip`: what is written of a packet is read as that packet if it has fewer than `MaxArgs` arguments and
  less than `MaxTotal` bytes of them, and is not read otherwise. A message is a `Packet` by its definition, so
  this is a statement about the formats alone;
* `ReadsTheorem` (`ReadsAreTrue`): in every order of the writers of one packet, and wherever a connection
  breaks, a reader that accepts one has the fields of the packet, or of the disconnect that replaces one with an
  error, and all of its options or none;
* `ExactTheorem` (`ExactUnlessRaced`): contacts that write it one after the other write all of it,
  and each of their readers has the packet, or nothing if it does not fit; the disconnect of an error is a packet of
  the contact's own and is read whatever the others do.

These need to know what recursive functions and folds compute, for every input. The induction theorems of the
library take a predicate as a parameter and cannot be used; instead `Induction` is proved from a first-order
fact, that strict inclusion of finite sets is well founded (of the intervals up to the numbers a set does not
have, one is minimal). From it come `Recursion` (there is a function for a base and a step),
`FlattenFirst` and `FlattenAppend` (what `FlattenSeq` does at either end), `PowerSteps`, `FoldExists` (for the
folds of the community modules) and `LengthFold` (the digits of a length, added up, are the length). `FrameShape`
and `WholePacket` then say that `IsWholeMqttPacket` is zero until the byte after the length and the whole body are
there, and the length of the frame from then on. `FramingInv` needs to be added to `FramesInOrder` only for types:
the equation `wsBuffer \o wire` = the frames that are left is inductive, because what is seen is always
a beginning of the next frame and others (`SeenOfFrame`). `SubscriptionInv` speaks of all topics of the script;
`TopicDecided` says that a subscribe of many topics decides about its own and about no other. For that a client
must have one name for a topic (`TopicsAssumption`): if it uses two forms of one address, it has two
entries in `cc.subscriptions` for one in the lookup table. `WriterInv` says what a writer has made at each of its
steps (`MadeAt`).

`RoundTrip` follows the reader through the bytes. `ValueOf` is the inverse of the digits, big end first, for
integers below `Base^Digits` (`ValueOfDigits`); `ReadLengths` leaves the reader behind the last length, with the
ends of the arguments (`ArrayRead`); an argument is the bytes between two ends (`FlattenPlaces`); options come
back from their arguments (`OptionsRead`), and so do addresses of each type (`AddressRead`). For a
connection that breaks, `PartRead` shows that no proper beginning of what is written is accepted: the lengths are
missing, or the last argument is. `WriterInv` is too weak for `ReadsAreTrue`, for it says what a universal holds
and not what has left. `StreamInv` (`Sends`) adds the second: a writer reads the command byte and
the arguments in two steps, and both may be of an unfinished universal, so what is on the wire is the command or
none and one of the prefixes `Stages`. The readers of all of these end with the packet, with the packet
without its options (a prefix that ends behind the fields, `FirstArgsWritten`), or with none. `AloneInv` is about
runs without a race: at most one writer is between its first and last step (`OneAtATime`), and the universal in
the packet is full, or that writer's own (`OwnerFilled`), which makes what it writes the whole packet.

The assumptions are those on scripts and on messages. `ScriptsAssumption` says what control packets are.
`MessagesAssumption` and `PublishAssumption` say that what is sent is a `Packet`: it has the fields of its command,
lengths are below `Base^Digits` (2^28 in the code: "Not meant for integers >= 2^28"), options have a key, and
addresses are `Sound`, as `FromBytes` makes them and with a base 64 that can be undone. One address that
`FromBytes` makes is not `Sound`: a space followed by a name that begins with a type itself. `ToBytes` leaves the
space out, so the reader takes it for an address of that type; a topic of that form is outside the theorems.

Only model-checked: liveness, with the fairness half of `ImplementsRpc` (fairness and ENABLED are out of the
prover's reach), `StaysCovered`, and, of the invariants, the averages of the cluster. `AveragesSettle` is not true for every value
of the constants: what margin and how many beats are enough depends on the number and the span of the buckets,
on the time between reports and on `AgeCap`, so that it is a statement about a scale, and the run fixes one
that keeps the order and the divisibility of the real times.

## 5. Not modelled

* The HTTP handlers, the public web server and the sub-domain server: I/O over calls of the service
  contact. The main program, the Kubernetes operator, the monitor and mail: I/O, and their state belongs
  to other services.
* `tokens`, `hashes` and `badjson`: pure conversions (cryptography, JSON, a lexer). That a token verifies
  is an input of `Contact`.
* The in-process connections that tests use instead of TCP (`guru-dialer.go:77-221`,
  `aide-dialer.go:76-105`), and `ConnectGuruToSuperAide`.
* Failing database calls, and the limit on names across two buckets (see the hazards without a property).
* Billing of bytes: `contacts.go:761` and `:764` store zero over what was read and written and then report it, so
  that no account ever has any.
* Parsing of the text protocol; printing of packets.

## 6. Plan

1. Two names in `NameService`, for the limit on names, and failing database calls.
2. Overload of a bucket's channel in `Lookup` (`sendSubscriptionMessage` drains it).
3. `PubSub`, an abstract specification of topics and subscribers, and `Lookup` shown to implement it.

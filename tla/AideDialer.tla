----------------------------- MODULE AideDialer -----------------------------
(***************************************************************************)
(* The connection of a node to any aide (iot/aide-dialer.go), over which   *)
(* the packets in channelToAnyAide leave: replies of the name service, of  *)
(* billing accounts and of lookups.                                        *)
(*                                                                         *)
(* A goroutine dials and writes, another one reads and only looks for the  *)
(* end of the connection; "these racey vars" index, name and conn are      *)
(* shared by both without a lock.  A connection is a number that is used   *)
(* again when nobody refers to it.  A panic ends the process.              *)
(***************************************************************************)
EXTENDS Naturals, Sequences, FiniteSets

CONSTANTS
    Aides, Lists,  \* ClusterStats.Stats: sequences of aides and gurus
    Conns,         \* bound on the connections at one time
    None,
    QueueCap,      \* cap(channelToAnyAide): 1024
    MaxPackets,    \* bound on the packets
    MaxLosses,     \* bound on the connections that break and dials that fail
    MaxChanges     \* bound on the changes of the list

ASSUME DialerAssumption ==
    /\ Aides # {} /\ None \notin Aides \cup Conns /\ \A l \in Lists : l \in Seq(Aides \cup {"guru"})
    /\ QueueCap \in Nat \ {0} /\ MaxPackets \in Nat /\ MaxLosses \in Nat /\ MaxChanges \in Nat

VARIABLES
    stats,         \* the names in ClusterStats, which the operator posts
    waiting,       \* packets in channelToAnyAide
    writer,        \* where the writer is
    reader,        \* where the reader is
    index, name,   \* of the aide, 0 for -1
    conn,          \* the variable of both
    reads,         \* the connection in the call of ReadPacket
    state,         \* of the connections
    greeted,       \* those whose Connect packet was written
    lost,          \* packets lost to a connection that this node has ended, or whose write failed
    panicked,
    packets, losses, changes

shared == <<index, name, conn>>
net == <<state, greeted>>
bounds == <<packets, losses, changes>>
vars == <<stats, waiting, writer, reader, shared, reads, net, lost, panicked, bounds>>

Init ==
    /\ stats \in Lists /\ waiting = 0
    /\ writer = "index" /\ reader = "wait"
    /\ index = 0 /\ name = None /\ conn = None /\ reads = None
    /\ state = [c \in Conns |-> "closed"] /\ greeted = {}
    /\ lost = 0 /\ panicked = FALSE
    /\ packets = 0 /\ losses = 0 /\ changes = 0

Works(c) == c # None /\ state[c] = "open"

\* The kernel takes what is written to a connection that the other side or the
\* network has ended, for a while.
Takes(c) == c # None /\ state[c] # "closed"

Close(c) == state' = [state EXCEPT ![c] = "closed"]
Panic == panicked' = TRUE /\ UNCHANGED <<writer, reader, shared, reads, net, lost>>

----------------------------------------------------------------------------
(* The writer *)

WriterOnly == UNCHANGED <<stats, reader, reads, panicked, bounds>>
WriterGoes(from, to) == writer = from /\ writer' = to

\* getTheIndex: an aide from a random place on.  It is not asked again when
\* there is an index.
GetTheIndex ==
    /\ \/ index = 0 /\ \E i \in DOMAIN stats : stats[i] # "guru" /\ index' = i /\ name' = stats[i]
       \/ index # 0 /\ UNCHANGED <<index, name>>
    /\ WriterGoes("index", "dial")
    /\ WriterOnly /\ UNCHANGED <<waiting, conn, net, lost>>

DialSucceeds ==
    /\ \E c \in Conns \ {conn, reads} :
          /\ state[c] = "closed" /\ conn' = c
          /\ state' = [state EXCEPT ![c] = "open"] /\ greeted' = greeted \ {c}
    /\ WriterGoes("dial", "start") /\ lost' = 0
    /\ WriterOnly /\ UNCHANGED <<waiting, index, name>>

DialFails ==
    /\ losses < MaxLosses /\ losses' = losses + 1
    /\ conn' = None /\ index' = 0 /\ UNCHANGED name
    /\ WriterGoes("dial", "index")
    /\ UNCHANGED <<stats, waiting, reader, reads, net, lost, panicked, packets, changes>>

\* A mutant: the reader is told and not waited for.
TellReader == reader' = IF reader = "wait" THEN "check" ELSE reader

\* startReader has no buffer.
StartReader == reader = "wait" /\ reader' = "check"

Start ==
    /\ StartReader /\ WriterGoes("start", "connect")
    /\ UNCHANGED <<stats, waiting, shared, reads, net, lost, panicked, bounds>>

\* conn.(*net.TCPConn) of no connection.
Connect ==
    /\ writer = "connect"
    /\ IF conn = None THEN Panic
       ELSE writer' = "hello" /\ UNCHANGED <<reader, shared, reads, net, lost, panicked>>
    /\ UNCHANGED <<stats, waiting, bounds>>

\* Writing to a nil connection is not an error.
Hello ==
    /\ writer = "hello"
    /\ \/ conn = None /\ writer' = "check" /\ UNCHANGED <<index, net>>
       \/ Takes(conn) /\ writer' = "check" /\ greeted' = greeted \cup {conn} /\ UNCHANGED <<index, state>>
       \/ /\ conn # None /\ ~Works(conn)
          /\ writer' = "index" /\ index' = 0 /\ Close(conn) /\ UNCHANGED greeted
    /\ WriterOnly /\ UNCHANGED <<waiting, name, conn, lost>>

Listed == \E i \in DOMAIN stats : stats[i] = name

\* Before each packet: is there a connection, and is its aide still there?
Check ==
    /\ writer = "check"
    /\ IF index = 0
       THEN writer' = "index" /\ IF conn = None THEN UNCHANGED state ELSE Close(conn)
       ELSE /\ writer' = IF ~Listed THEN "gone" ELSE IF conn = None THEN "index" ELSE "pop"
            /\ UNCHANGED state
    /\ WriterOnly /\ UNCHANGED <<waiting, shared, greeted, lost>>

\* The line that says so looks at Stats[index], which the other goroutine may
\* have set to -1 and the list be too short for, and conn.Close needs one.
Gone ==
    /\ writer = "gone"
    /\ IF index \notin DOMAIN stats \/ conn = None THEN Panic
       ELSE /\ writer' = "index" /\ index' = 0 /\ Close(conn)
            /\ UNCHANGED <<reader, name, conn, reads, greeted, lost, panicked>>
    /\ UNCHANGED <<stats, waiting, bounds>>

Pop ==
    /\ waiting > 0 /\ waiting' = waiting - 1
    /\ WriterGoes("pop", "write")
    /\ WriterOnly /\ UNCHANGED <<shared, net, lost>>

\* A mutant: after an error the next packet is tried.
TryTheNext == writer' = "pop"

AfterError == writer' = "reset"

\* What the kernel takes may arrive or not, and nobody here learns of it.
Write ==
    /\ writer = "write"
    /\ \/ Takes(conn) /\ writer' = "check" /\ UNCHANGED <<state, lost>>
       \/ /\ ~Works(conn) /\ lost' = lost + 1
          /\ IF conn = None THEN writer' = "check" /\ UNCHANGED state ELSE AfterError /\ Close(conn)
    /\ WriterOnly /\ UNCHANGED <<waiting, shared, greeted>>

Reset ==
    /\ WriterGoes("reset", "index") /\ index' = 0 /\ conn' = None
    /\ WriterOnly /\ UNCHANGED <<waiting, name, net, lost>>

WriterNext ==
    \/ GetTheIndex \/ DialSucceeds \/ DialFails \/ Start \/ Connect \/ Hello
    \/ Check \/ Gone \/ Pop \/ Write \/ Reset

----------------------------------------------------------------------------
(* The reader *)

ReaderOnly == UNCHANGED <<stats, waiting, writer, name, greeted, lost, panicked, bounds>>
ReaderGoes(from, to) == reader = from /\ reader' = to

ReaderChecks ==
    /\ reader = "check"
    /\ IF conn = None THEN reader' = "wait" /\ index' = 0 /\ UNCHANGED reads
       ELSE reader' = "read" /\ reads' = conn /\ UNCHANGED index
    /\ ReaderOnly /\ UNCHANGED <<conn, state>>

\* ReadPacket returns when its connection ends.
ReadFails ==
    /\ ~Works(reads) /\ reads' = None /\ ReaderGoes("read", "close")
    /\ ReaderOnly /\ UNCHANGED <<index, conn, state>>

\* It closes what is the connection by now.
ReaderCloses ==
    /\ reader = "close"
    /\ IF conn = None THEN Panic
       ELSE reader' = "clear" /\ Close(conn) /\ UNCHANGED <<writer, shared, reads, greeted, lost, panicked>>
    /\ UNCHANGED <<stats, waiting, bounds>>

ReaderClears ==
    /\ ReaderGoes("clear", "signal") /\ conn' = None
    /\ ReaderOnly /\ UNCHANGED <<index, reads, state>>

\* A mutant: the reader is started once.
ReaderLeaves == reader' = "left"

ReaderWaits == reader' = "wait"

\* "that's tge signal to start over"
ReaderSignals ==
    /\ reader = "signal" /\ ReaderWaits /\ index' = 0
    /\ ReaderOnly /\ UNCHANGED <<conn, reads, state>>

ReaderNext == ReaderChecks \/ ReadFails \/ ReaderCloses \/ ReaderClears \/ ReaderSignals

----------------------------------------------------------------------------
(* The others *)

OthersOnly == UNCHANGED <<writer, reader, shared, reads, greeted, lost, panicked>>

\* A mutant: one too many.
RoomForOneMore == waiting <= QueueCap

Room == waiting < QueueCap

\* A bucket, or the goroutine that keeps the connection alive, sends a packet
\* when there is room.
Produce ==
    /\ Room /\ packets < MaxPackets
    /\ waiting' = waiting + 1 /\ packets' = packets + 1
    /\ OthersOnly /\ UNCHANGED <<stats, state, losses, changes>>

\* /api2/clusterstats
PostClusterStats ==
    /\ changes < MaxChanges /\ changes' = changes + 1
    /\ stats' \in Lists \ {stats}
    /\ OthersOnly /\ UNCHANGED <<waiting, state, packets, losses>>

Breaks(c) == state[c] = "open" /\ state' = [state EXCEPT ![c] = "broken"]

Break(c) ==
    /\ losses < MaxLosses /\ losses' = losses + 1 /\ Breaks(c)
    /\ OthersOnly /\ UNCHANGED <<stats, waiting, packets, changes>>

\* The deadline of an aide for a contact without a token is two seconds; its
\* connection is closed when it is garbage.
AideCloses(c) ==
    /\ c \notin greeted /\ Breaks(c)
    /\ OthersOnly /\ UNCHANGED <<stats, waiting, bounds>>

Next ==
    /\ ~panicked
    /\ \/ WriterNext \/ ReaderNext
       \/ Produce \/ PostClusterStats
       \/ \E c \in Conns : Break(c) \/ AideCloses(c)

Spec == Init /\ [][Next]_vars

\* Both goroutines run, and an aide keeps its deadline.
Fairness ==
    /\ WF_vars(~panicked /\ WriterNext) /\ WF_vars(~panicked /\ ReaderNext)
    /\ \A c \in Conns : WF_vars(~panicked /\ AideCloses(c))

FairSpec == Spec /\ Fairness
----------------------------------------------------------------------------
(* Properties *)

\* The channel within its capacity, and the reader reads from a connection.
TypeOK ==
    /\ waiting \in 0..QueueCap /\ index \in Nat /\ name \in Aides \cup {None}
    /\ conn \in Conns \cup {None} /\ reads \in Conns \cup {None}
    /\ state \in [Conns -> {"open", "broken", "closed"}]
    /\ reader = "read" <=> reads # None

\* A connection that this node has ended, or whose write failed, costs one
\* packet at most (aide-dialer.go:243-252): no other is popped before the next
\* dial.  Those that the kernel took for an aide that was gone are lost before.
OneLossMore == lost <= 1

\* However the two goroutines meet, a connection that is not closed is the one
\* they use (aide-dialer.go:172, 235-237, 250, 296): none is dialed over and left.
\* Where it is not so the writer is about to fail on a nil connection.
NoneLeftOpen ==
    (\E c \in Conns : state[c] # "closed" /\ c # conn) => conn = None /\ writer \in {"start", "connect"}

\* A writer that has dialed does not wait for ever for its reader
\* (aide-dialer.go:187, 279), which may be reading from the new connection
\* before it was told to: that one ends by the deadline of the aide.
ReaderComes == writer = "start" ~> writer # "start" \/ panicked

\* "get a tcp conn and keep it up and retry and keep it up forever."
\* (aide-dialer.go:30): packets do not wait for ever while there is an aide.
Drains ==
    <>[](\E i \in DOMAIN stats : stats[i] # "guru") => []<>(waiting = 0 \/ panicked)

\* "if something goes wrong we'll close the connection and that's tge signal
\* to start over." (aide-dialer.go:274): and not to end the process.
StartsOver == ~panicked
=============================================================================

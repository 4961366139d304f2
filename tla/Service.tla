------------------------------ MODULE Service ------------------------------
(***************************************************************************)
(* The service contact: goroutines of this process call into the cluster   *)
(* and wait for the reply.  It comes in two flavours, over a contact of    *)
(* this process whose packets arrive in a pipe (iot/service-contact.go),   *)
(* and over a TCP connection that is dialed again when it breaks           *)
(* (iot/service-contact_tcp.go).                                           *)
(*                                                                         *)
(* A call is a caller (GetPacketReplyLonger, or Get), which waits with a   *)
(* timeout, and a sender (SendPacket) with a session key: the call itself  *)
(* here.  Replies come to one return address; the dispatcher sends each to *)
(* the channel of its key.  A packet is a call, for the request and for    *)
(* its replies, or Sub, for the subscribe to the return address.           *)
(***************************************************************************)
EXTENDS Naturals, Sequences, FiniteSets, SequencesExt

CONSTANTS
    Calls,        \* the calls, each made once
    LongCalls,    \* those with a timeout longer than SendPacket's 5 seconds
    Sub,          \* the subscribe to the return address, and its suback
    NoReply,      \* what a call has that got none
    Flavours,     \* is it TCP?
    PacketsCap,   \* capacity of packetsChan: 100
    OutCap,       \* capacity of outgoing: 100
    MaxAnswers,   \* how many services answer one request
    MaxBreaks     \* bound on the contacts and connections that are lost

ASSUME ServiceAssumption ==
    /\ LongCalls \subseteq Calls
    /\ Sub \notin Calls /\ NoReply \notin Calls
    /\ Flavours \subseteq BOOLEAN
    /\ PacketsCap \in Nat \ {0} /\ OutCap \in Nat \ {0}
    /\ MaxAnswers \in Nat /\ MaxBreaks \in Nat

VARIABLES
    tcp,          \* the flavour
    phase,        \* StartNewServiceContact: starting, running, failed
    key2channel,  \* the keys in the map
    caller,       \* where each caller is
    sender,       \* where each SendPacket is
    got,          \* the packet each caller returned with
    holding,      \* the packet that the reader has read
    packetsChan,
    delivering,   \* what the dispatcher sends, and to which channel
    open,         \* pipe: the contact has not been closed
    outgoing,     \* TCP: the channel of packets to write
    writers,      \* TCP: a goroutine reads outgoing
    dialing,      \* TCP: ConnectLoopForever dials, or reads the connection
    conn,         \* TCP: sc.conn is nil, up, lost (not noticed yet) or closed
    panicked,     \* the process has ended
    wire,         \* packets on their way to the reader
    atCluster,    \* requests that arrived in the cluster
    subscribed,   \* the cluster knows the return address of this contact
    answers,      \* how often each request has been answered
    breaks

callVars == <<key2channel, caller, sender, got>>
tcpVars == <<outgoing, writers, dialing, conn, panicked>>
clusterVars == <<wire, atCluster, subscribed, answers, breaks>>
vars == <<tcp, phase, callVars, holding, packetsChan, delivering, open, tcpVars, clusterVars>>

Nothing == [to |-> NoReply, packet |-> NoReply]

\* Over the pipe the first subscribe is pushed before anything is awaited.
Init ==
    /\ tcp \in Flavours
    /\ phase = "starting"
    /\ key2channel = {}
    /\ caller = [c \in Calls |-> "idle"] /\ sender = [c \in Calls |-> "none"]
    /\ got = [c \in Calls |-> NoReply]
    /\ holding = NoReply /\ packetsChan = <<>> /\ delivering = Nothing
    /\ open = TRUE
    /\ outgoing = IF tcp THEN <<Sub>> ELSE <<>>
    /\ writers = FALSE /\ dialing = TRUE /\ conn = "nil" /\ panicked = FALSE
    /\ wire = <<>> /\ subscribed = FALSE /\ breaks = 0
    /\ atCluster = IF tcp THEN {} ELSE {Sub}
    /\ answers = [c \in Calls |-> 0]

Connected == IF tcp THEN conn = "up" /\ ~dialing ELSE open

----------------------------------------------------------------------------
(* StartNewServiceContact: wait for the suback *)

StartTakes ==
    /\ phase = "starting" /\ packetsChan # <<>>
    /\ packetsChan' = Tail(packetsChan)
    /\ phase' = IF Head(packetsChan) = Sub THEN "running" ELSE phase
    /\ UNCHANGED <<tcp, callVars, holding, delivering, open, tcpVars, clusterVars>>

\* A contact that closed counts as one that answered.
StartSeesClosed ==
    /\ phase = "starting" /\ ~tcp /\ ~open
    /\ phase' = "running"
    /\ UNCHANGED <<tcp, callVars, holding, packetsChan, delivering, open, tcpVars, clusterVars>>

\* Four seconds without suback: sc.closed is closed.
StartTimesOut ==
    /\ phase = "starting"
    /\ phase' = "failed"
    /\ UNCHANGED <<tcp, callVars, holding, packetsChan, delivering, open, tcpVars, clusterVars>>

----------------------------------------------------------------------------
(* A call *)

CallerStarts(c) ==
    /\ phase = "running" /\ caller[c] = "idle"
    /\ caller' = [caller EXCEPT ![c] = "waiting"]
    /\ sender' = [sender EXCEPT ![c] = "register"]
    /\ UNCHANGED <<tcp, phase, key2channel, got, holding, packetsChan, delivering, open, tcpVars, clusterVars>>

CallerTimesOut(c) ==
    /\ caller[c] = "waiting"
    /\ caller' = [caller EXCEPT ![c] = "timedout"]
    /\ UNCHANGED <<tcp, phase, key2channel, sender, got, holding, packetsChan, delivering, open, tcpVars, clusterVars>>

SenderRegisters(c) ==
    /\ sender[c] = "register"
    /\ key2channel' = key2channel \cup {c}
    /\ sender' = [sender EXCEPT ![c] = "push"]
    /\ UNCHANGED <<tcp, phase, caller, got, holding, packetsChan, delivering, open, tcpVars, clusterVars>>

\* A mutant: one packet too many.
RoomForOneMore == Len(outgoing) <= OutCap

\* A send to outgoing does not block.
OutRoom == Len(outgoing) < OutCap

\* PushPacketUpFromBottom, which never returns when the contact is closed, or
\* the send to outgoing.
SenderPushes(c) ==
    /\ sender[c] = "push"
    /\ sender' = [sender EXCEPT ![c] = "listen"]
    /\ IF tcp
       THEN /\ OutRoom
            /\ outgoing' = Append(outgoing, c)
            /\ UNCHANGED atCluster
       ELSE /\ open
            /\ atCluster' = atCluster \cup {c}
            /\ UNCHANGED outgoing
    /\ UNCHANGED <<tcp, phase, key2channel, caller, got, holding, packetsChan, delivering, open,
                   writers, dialing, conn, panicked, wire, subscribed, answers, breaks>>

\* A mutant: the deferred delete is missing.
SenderForgets(c) ==
    /\ sender[c] = "listen" /\ caller[c] # "waiting"
    /\ sender' = [sender EXCEPT ![c] = "gone"]
    /\ UNCHANGED <<tcp, phase, key2channel, caller, got, holding, packetsChan, delivering, open, tcpVars, clusterVars>>

\* The caller has closed done, or the sender's own timeout is over, which was
\* started later than the caller's.
SenderLeaves(c) ==
    /\ sender[c] = "listen"
    /\ caller[c] # "waiting" \/ c \in LongCalls
    /\ sender' = [sender EXCEPT ![c] = "gone"]
    /\ key2channel' = key2channel \ {c}
    /\ UNCHANGED <<tcp, phase, caller, got, holding, packetsChan, delivering, open, tcpVars, clusterVars>>

----------------------------------------------------------------------------
(* The dispatcher *)

\* A mutant: the first channel there is.
AnyDestination(p) == key2channel

\* sc.key2channel[sessionKey]; a suback has no session key.
Destination(p) == key2channel \cap {p}

\* The lock is given back before the packet is sent.
DispatcherTakes ==
    /\ phase = "running" /\ delivering = Nothing /\ packetsChan # <<>>
    /\ packetsChan' = Tail(packetsChan)
    /\ LET p == Head(packetsChan)
       IN IF Destination(p) = {}
          THEN UNCHANGED delivering
          ELSE \E c \in Destination(p) : delivering' = [to |-> c, packet |-> p]
    /\ UNCHANGED <<tcp, phase, callVars, holding, open, tcpVars, clusterVars>>

\* destChan <- p: the channel has no buffer, so its caller has to be there.
Deliver ==
    /\ delivering # Nothing
    /\ caller[delivering.to] = "waiting"
    /\ caller' = [caller EXCEPT ![delivering.to] = "answered"]
    /\ got' = [got EXCEPT ![delivering.to] = delivering.packet]
    /\ delivering' = Nothing
    /\ UNCHANGED <<tcp, phase, key2channel, sender, holding, packetsChan, open, tcpVars, clusterVars>>

\* A mutant: a TCP connection needs no keep alive.
PipeKeptAlive == phase = "running" /\ ~tcp

\* The goroutine that subscribes every ten minutes.
KeptAlive == phase = "running"

\* Nobody subscribes again while the last subscribe is on its way: ten minutes
\* lie between them.
KeepAlive ==
    /\ KeptAlive
    /\ Sub \notin atCluster \cup Range(outgoing) \cup Range(wire)
    /\ IF tcp
       THEN /\ OutRoom
            /\ outgoing' = Append(outgoing, Sub)
            /\ UNCHANGED atCluster
       ELSE /\ open
            /\ atCluster' = atCluster \cup {Sub}
            /\ UNCHANGED outgoing
    /\ UNCHANGED <<tcp, phase, callVars, holding, packetsChan, delivering, open,
                   writers, dialing, conn, panicked, wire, subscribed, answers, breaks>>

\* startReadTheWriterPipe, and the read loop of the connection: they read a
\* packet, and wait until packetsChan has room for it.
ReaderReads ==
    /\ Connected /\ wire # <<>> /\ holding = NoReply
    /\ holding' = Head(wire)
    /\ wire' = Tail(wire)
    /\ UNCHANGED <<tcp, phase, callVars, packetsChan, delivering, open, tcpVars, atCluster, subscribed, answers, breaks>>

ReaderPasses ==
    /\ holding # NoReply /\ Len(packetsChan) < PacketsCap
    /\ packetsChan' = Append(packetsChan, holding)
    /\ holding' = NoReply
    /\ UNCHANGED <<tcp, phase, callVars, delivering, open, tcpVars, clusterVars>>

----------------------------------------------------------------------------
(* TCP: ConnectLoopForever *)

\* A new connection is a new contact, which nobody subscribed.
DialSucceeds ==
    /\ tcp /\ dialing
    /\ dialing' = FALSE /\ conn' = "up" /\ writers' = TRUE
    /\ wire' = <<>> /\ subscribed' = FALSE
    /\ UNCHANGED <<tcp, phase, callVars, holding, packetsChan, delivering, open, outgoing, panicked, atCluster, answers, breaks>>

\* The name does not resolve, nobody listens, or the connect is not written.
DialFails ==
    /\ tcp /\ dialing
    /\ conn' \in {conn, "nil", "closed"}
    /\ UNCHANGED <<tcp, phase, callVars, holding, packetsChan, delivering, open, outgoing, writers, dialing, panicked, clusterVars>>

\* ReadPacket fails; what was subscribed on this connection is of no use.
ReadFails ==
    /\ tcp /\ ~dialing /\ conn = "lost" /\ holding = NoReply
    /\ conn' = "closed" /\ dialing' = TRUE
    /\ UNCHANGED <<tcp, phase, callVars, holding, packetsChan, delivering, open, outgoing, writers, panicked, clusterVars>>

\* A goroutine that was started for this or for an earlier connection writes
\* to sc.conn.  After an error it closes isBroken and goes on to print err,
\* which is nil: the process ends.
WriterWrites ==
    /\ tcp /\ writers /\ outgoing # <<>>
    /\ outgoing' = Tail(outgoing)
    /\ \/ conn = "up" /\ atCluster' = atCluster \cup {Head(outgoing)} /\ UNCHANGED panicked
       \/ conn = "lost" /\ UNCHANGED <<atCluster, panicked>>
       \/ conn # "up" /\ panicked' = TRUE /\ UNCHANGED atCluster
    /\ UNCHANGED <<tcp, phase, callVars, holding, packetsChan, delivering, open, writers, dialing, conn, wire, subscribed, answers, breaks>>

\* sc.closed ends the writers, and the read loop, which dials again.
WritersEnd ==
    /\ tcp /\ writers /\ phase = "failed"
    /\ writers' = FALSE /\ dialing' = TRUE
    /\ UNCHANGED <<tcp, phase, callVars, holding, packetsChan, delivering, open, outgoing, conn, panicked, clusterVars>>

----------------------------------------------------------------------------
(* The cluster *)

ClusterSubscribes ==
    /\ Sub \in atCluster /\ Connected
    /\ atCluster' = atCluster \ {Sub}
    /\ subscribed' = TRUE
    /\ wire' = Append(wire, Sub)
    /\ UNCHANGED <<tcp, phase, callVars, holding, packetsChan, delivering, open, tcpVars, answers, breaks>>

\* A reply to an address nobody has subscribed is lost.
ClusterAnswers(c) ==
    /\ c \in atCluster /\ answers[c] < MaxAnswers
    /\ answers' = [answers EXCEPT ![c] = @ + 1]
    /\ wire' = IF Connected /\ subscribed THEN Append(wire, c) ELSE wire
    /\ UNCHANGED <<tcp, phase, callVars, holding, packetsChan, delivering, open, tcpVars, atCluster, subscribed, breaks>>

\* The contact is closed, or the connection breaks.
Break ==
    /\ breaks < MaxBreaks /\ breaks' = breaks + 1
    /\ Connected
    /\ IF tcp THEN conn' = "lost" /\ UNCHANGED open ELSE open' = FALSE /\ UNCHANGED conn
    /\ wire' = <<>> /\ subscribed' = FALSE
    /\ atCluster' = atCluster \ {Sub}
    /\ UNCHANGED <<tcp, phase, callVars, holding, packetsChan, delivering, outgoing, writers, dialing, panicked, answers>>

----------------------------------------------------------------------------
Process ==
    \/ StartTakes \/ StartSeesClosed \/ StartTimesOut
    \/ DispatcherTakes \/ Deliver \/ KeepAlive \/ ReaderReads \/ ReaderPasses
    \/ DialSucceeds \/ DialFails \/ ReadFails \/ WriterWrites \/ WritersEnd
    \/ \E c \in Calls :
          CallerStarts(c) \/ CallerTimesOut(c) \/ SenderRegisters(c) \/ SenderPushes(c) \/ SenderLeaves(c)

Next ==
    /\ ~panicked
    /\ Process \/ ClusterSubscribes \/ Break \/ \E c \in Calls : ClusterAnswers(c)

Spec == Init /\ [][Next]_vars

Runs(A) == ~panicked /\ A

\* Goroutines run, timers fire, a read of a dead connection fails at its
\* deadline, dialing succeeds in the end, and the cluster handles a subscribe.
\* That it answers a request is not assumed.
FairSpec ==
    /\ Spec
    /\ WF_vars(Runs(StartTakes)) /\ WF_vars(Runs(ReaderReads)) /\ WF_vars(Runs(ReaderPasses))
    /\ WF_vars(Runs(KeepAlive)) /\ WF_vars(Runs(DispatcherTakes)) /\ WF_vars(Runs(Deliver))
    /\ WF_vars(Runs(WriterWrites)) /\ WF_vars(Runs(ReadFails)) /\ WF_vars(Runs(DialSucceeds))
    /\ WF_vars(Runs(ClusterSubscribes))
    /\ \A c \in Calls :
          /\ WF_vars(Runs(CallerTimesOut(c))) /\ WF_vars(Runs(SenderRegisters(c)))
          /\ WF_vars(Runs(SenderPushes(c))) /\ WF_vars(Runs(SenderLeaves(c)))

----------------------------------------------------------------------------
(* Properties *)

\* Every variable has its type and no channel exceeds its capacity.
TypeOK ==
    /\ tcp \in Flavours /\ phase \in {"starting", "running", "failed"}
    /\ key2channel \subseteq Calls
    /\ caller \in [Calls -> {"idle", "waiting", "answered", "timedout"}]
    /\ sender \in [Calls -> {"none", "register", "push", "listen", "gone"}]
    /\ got \in [Calls -> Calls \cup {NoReply}]
    /\ holding \in Calls \cup {Sub, NoReply}
    /\ packetsChan \in Seq(Calls \cup {Sub}) /\ Len(packetsChan) <= PacketsCap
    /\ delivering \in [to : Calls, packet : Calls] \cup {Nothing}
    /\ open \in BOOLEAN /\ writers \in BOOLEAN /\ dialing \in BOOLEAN /\ panicked \in BOOLEAN
    /\ outgoing \in Seq(Calls \cup {Sub}) /\ Len(outgoing) <= OutCap
    /\ conn \in {"nil", "up", "lost", "closed"}
    /\ wire \in Seq(Calls \cup {Sub}) /\ atCluster \subseteq Calls \cup {Sub}
    /\ subscribed \in BOOLEAN /\ answers \in [Calls -> 0..MaxAnswers] /\ breaks \in 0..MaxBreaks

\* A call returns once: with the reply to its own request, given after
\* somebody answered, or with an error; and it does return.
RpcCall(c) ==
    CASE caller[c] = "waiting" -> IF panicked THEN "failed" ELSE "asked"
      [] caller[c] = "timedout" -> "failed"
      [] OTHER -> caller[c]

Abstract == INSTANCE Rpc WITH
    call <- [c \in Calls |-> RpcCall(c)],
    served <- {c \in Calls : answers[c] > 0},
    reply <- got

ImplementsRpc == Abstract!Spec

\* The key of a call that returned does not stay in the map, unless the
\* contact was closed: then SendPacket never returns from its push.
KeysFreed ==
    \A c \in Calls :
       c \in key2channel /\ caller[c] # "waiting"
          ~> c \notin key2channel \/ (~tcp /\ ~open) \/ panicked

\* A new connection starts without the subscription; the subscribe that keeps
\* the contact alive renews it, at the latest after ten minutes.
Resubscribed ==
    phase = "running" /\ Connected ~> subscribed \/ ~Connected \/ panicked

(***************************************************************************)
(* A statement of a comment that the code does not keep (see the README).  *)
(***************************************************************************)

\* "pull packets from the packetsChan and send them to the key2channel //
\* forever" (service-contact.go:222): the dispatcher comes back from a send.
DispatcherServes == delivering # Nothing ~> delivering = Nothing \/ panicked
=============================================================================

------------------------------ MODULE Contact ------------------------------
(***************************************************************************)
(* One contact of a node: the actor that owns a client connection          *)
(* (iot/contacts.go, with the TCP flavour of iot/TCPUtil.go).              *)
(*                                                                         *)
(* A contact is a goroutine ("the loop") that takes closures, here         *)
(* commands, off a bounded channel and runs them one at a time.  Every     *)
(* other goroutine reaches the contact by sending it a command, and most   *)
(* then wait for that command's WaitGroup:                                 *)
(*   Reader   handleConnection, which pushes up the packets it reads;      *)
(*   Beater   the executive's heartbeat, over its copy of the list;        *)
(*   Writers  bucket goroutines that deliver packets to the contact;       *)
(*   Gos      the goroutines that the code starts with "go".               *)
(* What a goroutine still has to do is the sequence of calls todo[t]; its  *)
(* current call is the first one.                                          *)
(***************************************************************************)
EXTENDS Naturals, Sequences, FiniteSets

CONSTANTS
    Reader, Beater,  \* two goroutines
    Writers, Gos,    \* sets of goroutines
    Loop,            \* the contact's own goroutine
    QueueCap,        \* capacity of commands: 16, or 1024 on a guru
    IsGuru,          \* config.IsGuru()
    UpPackets,       \* what the client may send; see PacketKinds
    DownPackets,     \* what the buckets may deliver; see PacketKinds
    ContactTTL,      \* 20*60: a packet keeps the contact alive for this long
    FirstBill,       \* 30: first billing, counted from the connection
    BillEvery,       \* 60: later billings
    MaxTime,         \* bound on the clock
    MaxOps           \* bound on the operations the environment starts

Threads == {Reader, Beater} \cup Writers \cup Gos

(***************************************************************************)
(* Packets, by what the contact does with them.  "goodConnect" carries a   *)
(* token that verifies, "billSub" and "stats" are the ones the contact     *)
(* makes for its own billing topic, "error" has the error option set.      *)
(***************************************************************************)
PacketKinds ==
    {"goodConnect", "badConnect", "disconnect", "request", "ping",
     "billSub", "stats", "plain", "error"}

ASSUME ContactAssumption ==
    /\ QueueCap \in Nat \ {0}
    /\ IsGuru \in BOOLEAN
    /\ UpPackets \subseteq PacketKinds
    /\ DownPackets \subseteq PacketKinds
    /\ ContactTTL \in Nat /\ FirstBill \in Nat /\ BillEvery \in Nat
    /\ MaxTime \in Nat /\ MaxOps \in Nat
    /\ Loop \notin Threads
    /\ Gos # {}

\* The deliveries come from goroutines of their own, and a packet the contact
\* makes for itself is not one that it reads.
ASSUME CallersAssumption ==
    /\ Writers \cap ({Reader, Beater} \cup Gos) = {}
    /\ "billSub" \notin UpPackets

VARIABLES
    commands,     \* the channel of commands
    closed,       \* ClosedChannel has been closed
    inList,       \* the contact is on config.listOfCi
    token,        \* a token has been set
    expires,      \* contactExpires
    nextBilling,  \* nextBillingTime
    socketOpen,   \* the TCP connection has not been closed by this process
    reading,      \* handleConnection has not returned
    loopAt,       \* where the loop goroutine is
    loopCmd,      \* the command it took last
    pc, todo,     \* per goroutine: position in its current call, calls left
    looked,       \* packets handed to the lookup table, in order
    written,      \* packets written to the connection, in order
    now,          \* seconds
    started       \* operations started by the environment

loopVars   == <<loopAt, loopCmd>>
threadVars == <<pc, todo>>
stateVars  == <<closed, inList, token, expires, nextBilling>>
connVars   == <<socketOpen, reading>>
outVars    == <<looked, written>>
envVars    == <<now, started>>
vars == <<commands, loopVars, threadVars, stateVars, connVars, outVars, envVars>>

----------------------------------------------------------------------------
(* Calls and commands *)

\* The calls that send a command, and the two that do not.
SendOps  == {"push", "pushStats", "write", "close", "beat", "bill"}
LocalOps == {"look", "goStats"}

Call(op, p, n) == [op |-> op, p |-> p, n |-> n]
Calls    == [op : SendOps \cup LocalOps, p : PacketKinds, n : Nat]
Commands == [call : [op : SendOps \cup {"expires"}, p : PacketKinds, n : Nat],
             from : Threads \cup {Loop}]

Push(p)     == Call("push", p, 0)            \* PushPacketUpFromBottom
PushStats   == Call("pushStats", "stats", 0) \* the same without SetExpires
Write(p, n) == Call("write", p, n)           \* WriteDownstream
DoClose     == Call("close", "plain", 0)
Look(p)     == Call("look", p, 0)            \* looker.send...Message
GoStats     == Call("goStats", "stats", 0)   \* go func in sendBillingInfo

\* The calls that wait for their command with a WaitGroup.
Blocking(c) == c.op \in {"push", "pushStats", "close", "beat", "bill"}

\* The calls that return at once when the contact is closed already.
ChecksClosed(c) == c.op \in {"write", "close", "bill"}

\* A mutant: one command too many is accepted.
RoomForOneMore == Len(commands) <= QueueCap

\* commands <- cmd does not block
HasRoom == Len(commands) < QueueCap

Idle(t) == todo[t] = <<>>
Current(t) == Head(todo[t])

\* go f(): an idle member of Gos starts running f's calls.
CanGo == \E g \in Gos : Idle(g)
NewGo == CHOOSE g \in Gos : Idle(g)

----------------------------------------------------------------------------
Init ==
    /\ commands = <<>>
    /\ closed = FALSE /\ inList = TRUE /\ token = FALSE
    /\ expires = ContactTTL /\ nextBilling = FirstBill
    /\ socketOpen = TRUE /\ reading = TRUE
    /\ loopAt = "select"
    /\ loopCmd = [call |-> DoClose, from |-> Loop]
    /\ pc = [t \in Threads |-> "call"]
    /\ todo = [t \in Threads |-> <<>>]
    /\ looked = <<>> /\ written = <<>>
    /\ now = 0 /\ started = 0

----------------------------------------------------------------------------
(* What the environment starts *)

Start(t, calls) ==
    /\ Idle(t)
    /\ started < MaxOps
    /\ started' = started + 1
    /\ todo' = [todo EXCEPT ![t] = calls]
    /\ UNCHANGED <<commands, loopVars, pc, stateVars, outVars, now>>

\* handleConnection reads the next packet of the client.
ReadPacket ==
    /\ reading /\ socketOpen
    /\ \E p \in UpPackets : Start(Reader, <<Push(p)>>)
    /\ UNCHANGED connVars

\* The read fails (deadline, end of file): DoClose(err), then the deferred
\* DoClose(nil).
ReadError ==
    /\ reading
    /\ Idle(Reader)
    /\ reading' = FALSE
    /\ todo' = [todo EXCEPT ![Reader] = <<DoClose, DoClose>>]
    /\ UNCHANGED <<commands, loopVars, pc, stateVars, socketOpen, outVars, envVars>>

\* The executive's heartbeat copied the list with this contact on it.
StartHeartbeat ==
    /\ inList
    /\ Start(Beater, <<Call("beat", "plain", now)>>)
    /\ UNCHANGED connVars

\* A bucket goroutine delivers to a contact that watches a topic.
StartDelivery(w) ==
    /\ \E p \in DownPackets : Start(w, <<Write(p, started + 1)>>)
    /\ UNCHANGED connVars

Tick ==
    /\ now < MaxTime
    /\ now' = now + 1
    /\ UNCHANGED <<commands, loopVars, threadVars, stateVars, connVars, outVars, started>>

----------------------------------------------------------------------------
(* The steps of a calling goroutine *)

\* The part of a call before it touches the channel: the check of
\* ClosedChannel, or a call that needs no command at all.
Begin(t) ==
    /\ pc[t] = "call" /\ ~Idle(t)
    /\ LET c == Current(t)  rest == [todo EXCEPT ![t] = Tail(@)]
       IN \/ /\ ChecksClosed(c) /\ closed
             /\ todo' = rest
             /\ UNCHANGED <<pc, looked>>
          \/ /\ c.op = "look"
             /\ looked' = Append(looked, c.p)
             /\ todo' = rest
             /\ UNCHANGED pc
          \/ /\ c.op = "goStats"
             /\ CanGo
             /\ todo' = [rest EXCEPT ![NewGo] = <<PushStats>>]
             /\ UNCHANGED <<pc, looked>>
          \/ /\ c.op \in SendOps
             /\ ~(ChecksClosed(c) /\ closed)
             /\ pc' = [pc EXCEPT ![t] = "send"]
             /\ UNCHANGED <<todo, looked>>
    /\ UNCHANGED <<commands, loopVars, stateVars, connVars, written, envVars>>

\* A mutant: the command goes to the front of the queue.
EnqueueFront(t) ==
    /\ pc[t] = "send" /\ HasRoom
    /\ commands' = <<[call |-> Current(t), from |-> t]>> \o commands
    /\ IF Blocking(Current(t))
       THEN pc' = [pc EXCEPT ![t] = "wait"] /\ UNCHANGED todo
       ELSE /\ pc' = [pc EXCEPT ![t] = "call"]
            /\ todo' = [todo EXCEPT ![t] = Tail(@)]
    /\ UNCHANGED <<loopVars, stateVars, connVars, outVars, envVars>>

\* commands <- cmd, and then wg.Wait() unless the call does not wait.
Enqueue(t) ==
    /\ pc[t] = "send" /\ HasRoom
    /\ commands' = Append(commands, [call |-> Current(t), from |-> t])
    /\ IF Blocking(Current(t))
       THEN pc' = [pc EXCEPT ![t] = "wait"] /\ UNCHANGED todo
       ELSE /\ pc' = [pc EXCEPT ![t] = "call"]
            /\ todo' = [todo EXCEPT ![t] = Tail(@)]
    /\ UNCHANGED <<loopVars, stateVars, connVars, outVars, envVars>>

----------------------------------------------------------------------------
(* The steps of the loop *)

\* A mutant: the loop runs what is left in the channel after the close.
AlwaysRunnable == TRUE

\* the test of IsClosed before cmd.fn(ss)
Runnable == ~closed

\* case <-ss.ClosedChannel
LoopExit ==
    /\ loopAt = "select" /\ closed
    /\ loopAt' = "exited"
    /\ UNCHANGED <<commands, loopCmd, threadVars, stateVars, connVars, outVars, envVars>>

\* case cmd = <-ss.commands: a command taken after the close is dropped.
LoopTake ==
    /\ loopAt = "select" /\ commands # <<>>
    /\ commands' = Tail(commands)
    /\ IF Runnable
       THEN loopAt' = "run" /\ loopCmd' = Head(commands)
       ELSE UNCHANGED loopVars
    /\ UNCHANGED <<threadVars, stateVars, connVars, outVars, envVars>>

\* A mutant: wg.Done() is forgotten.
NeverDone(follow) == UNCHANGED <<pc, todo>>

\* wg.Done() for the goroutine that sent loopCmd; follow is what its call
\* goes on to do after wg.Wait().
Return(follow) ==
    LET t == loopCmd.from
    IN /\ pc' = [pc EXCEPT ![t] = "call"]
       /\ todo' = [todo EXCEPT ![t] = follow \o Tail(@)]

Running(op) == loopAt = "run" /\ loopCmd.call.op = op

\* SetExpires: only ever later.
RunSetExpires ==
    /\ Running("expires")
    /\ expires' = IF loopCmd.call.n > expires THEN loopCmd.call.n ELSE expires
    /\ loopAt' = "select"
    /\ UNCHANGED <<commands, loopCmd, threadVars, closed, inList, token, nextBilling,
                   connVars, outVars, envVars>>

\* PushPacketUpFromBottom2 calls SetExpires, which sends another command to
\* the channel this very goroutine drains.
PushSetExpires ==
    /\ Running("push")
    /\ HasRoom
    /\ commands' = Append(commands, [call |-> Call("expires", "plain", now + ContactTTL),
                                     from |-> Loop])
    /\ loopAt' = "ran"
    /\ UNCHANGED <<loopCmd, threadVars, stateVars, connVars, outVars, envVars>>

\* A mutant: every good Connect checks in again.
AlwaysCheckIn == TRUE

\* ssi.GetToken() == nil
NotCheckedIn == ~token

\* What the caller does with packet p after wg.Wait().  The error of
\* expectToken never gets there: err is shadowed in the closure.
AfterPush(p) ==
    CASE p \in {"goodConnect", "badConnect", "plain", "error"} -> <<>>
      [] p = "disconnect" -> <<Write("disconnect", 0), DoClose>>
      [] p = "ping" -> <<Write("ping", 0)>>
      [] OTHER -> <<Look(p)>>

\* makeErrorAndDisconnect
ErrorAndDisconnect == <<Write("error", 0), DoClose>>

\* The rest of PushPacketUpFromBottom2's closure: expectToken.  A check-in
\* starts the goroutine that subscribes to the billing topic, a failed one
\* the goroutine that disconnects.
PushExpectToken ==
    /\ \/ loopAt = "ran"
       \/ Running("pushStats")
    /\ LET p == loopCmd.call.p
           t == loopCmd.from
           returned == [todo EXCEPT ![t] = AfterPush(p) \o Tail(@)]
       IN /\ pc' = [pc EXCEPT ![t] = "call"]
          /\ IF NotCheckedIn
             THEN /\ CanGo
                  /\ token' = (token \/ p = "goodConnect")
                  /\ todo' = [returned EXCEPT ![NewGo] =
                                 IF p = "goodConnect" THEN <<Push("billSub")>>
                                                      ELSE ErrorAndDisconnect]
             ELSE /\ todo' = returned
                  /\ UNCHANGED token
    /\ loopAt' = "select"
    /\ UNCHANGED <<commands, loopCmd, closed, inList, expires, nextBilling,
                   connVars, outVars, envVars>>

\* Heartbeat's closure copies the state; the caller decides on the copy.
RunHeartbeat ==
    /\ Running("beat")
    /\ LET when == loopCmd.call.n
           bill == IF nextBilling < when THEN <<Call("bill", "stats", 0)>> ELSE <<>>
           close == IF ~IsGuru /\ expires < when THEN <<DoClose>> ELSE <<>>
       IN Return(IF token THEN bill \o close ELSE <<>>)
    /\ loopAt' = "select"
    /\ UNCHANGED <<commands, loopCmd, stateVars, connVars, outVars, envVars>>

\* sendBillingInfo
RunBilling ==
    /\ Running("bill")
    /\ nextBilling' = nextBilling + BillEvery
    /\ Return(IF IsGuru THEN <<>> ELSE <<GoStats>>)
    /\ loopAt' = "select"
    /\ UNCHANGED <<commands, loopCmd, closed, inList, token, expires, connVars, outVars, envVars>>

\* A mutant: the guru treats an error packet as an aide does.
ErrorAlwaysCloses(p) == p = "error"

\* HasError(packet) and this is not a guru
ErrorCloses(p) == p = "error" /\ ~IsGuru

\* tcpContact.WriteDownstream's closure.
RunWrite ==
    /\ Running("write")
    /\ written' = Append(written, [by |-> loopCmd.from, n |-> loopCmd.call.n])
    /\ loopAt' = IF ErrorCloses(loopCmd.call.p) THEN "selfClose" ELSE "select"
    /\ UNCHANGED <<commands, loopCmd, threadVars, stateVars, connVars, looked, envVars>>

\* cc.DoClose called from inside that closure: the loop sends itself the
\* command and then waits for itself to run it.
SelfDoClose ==
    /\ loopAt = "selfClose"
    /\ HasRoom
    /\ commands' = Append(commands, [call |-> DoClose, from |-> Loop])
    /\ loopAt' = "selfWait"
    /\ UNCHANGED <<loopCmd, threadVars, stateVars, connVars, outVars, envVars>>

\* DoClose's closure: close(ss.ClosedChannel) ...
RunClose ==
    /\ Running("close")
    /\ closed' = TRUE
    /\ loopAt' = "closing"
    /\ UNCHANGED <<commands, loopCmd, threadVars, inList, token, expires, nextBilling,
                   connVars, outVars, envVars>>

\* A mutant: the contact stays on the list.
ForgetUnlink == UNCHANGED inList

\* ContactStruct.DoClosingWork.  The call in DoClose is on *ContactStruct, so
\* the DoClosingWork of a tcpContact, which closes the socket, is not run.
DoClosingWork == inList' = FALSE

\* ... then DoClosingWork, under listlock, and wg.Done().
FinishClose ==
    /\ loopAt = "closing"
    /\ DoClosingWork
    /\ Return(<<>>)
    /\ loopAt' = "select"
    /\ UNCHANGED <<commands, loopCmd, closed, token, expires, nextBilling,
                   connVars, outVars, envVars>>

----------------------------------------------------------------------------
LoopStep ==
    \/ LoopExit \/ LoopTake
    \/ RunSetExpires \/ PushSetExpires \/ PushExpectToken
    \/ RunHeartbeat \/ RunBilling \/ RunWrite \/ SelfDoClose
    \/ RunClose \/ FinishClose

ThreadStep(t) == Begin(t) \/ Enqueue(t)

Environment ==
    \/ ReadPacket \/ ReadError \/ StartHeartbeat
    \/ \E w \in Writers : StartDelivery(w)
    \/ Tick

Next == LoopStep \/ (\E t \in Threads : ThreadStep(t)) \/ Environment

Spec == Init /\ [][Next]_vars

(***************************************************************************)
(* Goroutines that can run do run, and a blocked channel send is served in *)
(* FIFO order by the Go runtime, hence the strong fairness of its step.    *)
(* The environment is not fair, except that a read ends: every read has a  *)
(* deadline.                                                               *)
(***************************************************************************)
FairSpec ==
    /\ Spec
    /\ WF_vars(LoopStep)
    /\ \A t \in Threads : SF_vars(ThreadStep(t))
    /\ WF_vars(ReadError)

----------------------------------------------------------------------------
(* Properties *)

\* The shape of the state; in particular the channel never holds more than
\* its capacity, whoever sends to it (contacts.go:185-191).
TypeOK ==
    /\ commands \in Seq(Commands) /\ Len(commands) <= QueueCap
    /\ closed \in BOOLEAN /\ inList \in BOOLEAN /\ token \in BOOLEAN
    /\ expires \in Nat /\ nextBilling \in Nat
    /\ socketOpen \in BOOLEAN /\ reading \in BOOLEAN
    /\ loopAt \in {"select", "run", "ran", "closing", "selfClose", "selfWait", "exited"}
    /\ loopCmd \in Commands
    /\ pc \in [Threads -> {"call", "send", "wait"}]
    /\ todo \in [Threads -> Seq(Calls)]
    /\ looked \in Seq(PacketKinds)
    /\ written \in Seq([by : Threads \cup {Loop}, n : Nat])
    /\ now \in Nat /\ started \in Nat

\* The list of contacts holds exactly the open ones, except while the loop is
\* between closing the channel and unlinking (contacts.go:122, 443-466).
ListHoldsOpenContacts == inList <=> (~closed \/ loopAt = "closing")

\* The positions in the channel of the commands goroutine t waits for, and
\* whether the loop has taken one.
Queued(t) == {i \in 1..Len(commands) : /\ commands[i].from = t
                                        /\ commands[i].call.op # "write"}
Taken(t) == /\ loopAt \in {"run", "ran", "closing"}
            /\ loopCmd.from = t
            /\ loopCmd.call.op # "write"

\* Each WaitGroup is released once and for a reason: a goroutine in wg.Wait()
\* on an open contact has exactly one command left to run, and a command that
\* will call wg.Done() always belongs to a goroutine that still waits
\* (contacts.go:264-301, 425-450, 751-771, 806-824).  A waiter can only be
\* forgotten by the close.
WaitersAccounted ==
    \A t \in Threads :
        /\ pc[t] = "wait" => closed \/ Taken(t) \/ Queued(t) # {}
        /\ (Taken(t) \/ Queued(t) # {}) => pc[t] = "wait"
        /\ Taken(t) => Queued(t) = {}
        /\ \A i, j \in Queued(t) : i = j

\* A contact subscribes to its billing topic at most once, and only after it
\* has checked in, however many Connect packets arrive (contacts.go:625-676).
BilledOnce ==
    /\ Cardinality({i \in 1..Len(looked) : looked[i] = "billSub"}) <= 1
    /\ (\E i \in 1..Len(looked) : looked[i] = "billSub") => token

\* The packets one goroutine delivers reach the wire in the order it sent
\* them, each at most once (contacts.go:210-233, TCPUtil.go:161-200).
WireOrder ==
    \A i, j \in 1..Len(written) :
        /\ i < j
        /\ written[i].by = written[j].by
        /\ written[i].by \in Writers
        => written[i].n < written[j].n

\* Nothing that is still in the channel when the contact closes has an effect
\* on it (contacts.go:226).
ClosedIsFinal ==
    [][closed => UNCHANGED <<closed, token, expires, nextBilling, written>>]_vars

\* On a guru, where an error packet is only written, a goroutine that waits
\* for its command gets its answer unless the contact closes first
\* (contacts.go:210-234), as long as the channel has room for every sender.
WaitersServed ==
    \A t \in Threads : pc[t] = "wait" ~> (pc[t] # "wait" \/ closed)

\* Likewise a DoClose that has been called closes the contact.
CloseTakesEffect ==
    (\E t \in Threads : ~Idle(t) /\ Current(t) = DoClose) ~> closed

\* What goroutines ask of the contact is done (contacts.go:210-234, 425-450).
CallsTakeEffect == WaitersServed /\ CloseTakesEffect

(***************************************************************************)
(* Statements of the code's comments that the code does not keep.          *)
(***************************************************************************)

\* "call this to close the contact" (contacts.go:74): an error packet makes
\* tcpContact.WriteDownstream call DoClose, so the contact closes.
ErrorPacketCloses == loopAt = "selfClose" ~> closed

\* "throw the packet away" (contacts.go:275-277): pushing a packet up a closed
\* contact ends, with an error, rather than holding its caller.
PushReturns ==
    (~Idle(Reader) /\ Current(Reader).op = "push") ~> Idle(Reader)
=============================================================================

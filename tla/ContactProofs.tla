--------------------------- MODULE ContactProofs ---------------------------
(***************************************************************************)
(* Proofs about Contact, for every number of goroutines and every channel  *)
(* capacity: the type invariant, that the list holds the open contacts,    *)
(* that every waiting goroutine is accounted for, and that a closed        *)
(* contact does not change; then, with the histories of what was looked up *)
(* and written, that the billing topic is subscribed once and that what    *)
(* one goroutine writes stays in order.                                    *)
(***************************************************************************)
EXTENDS Contact, SequenceTheorems, FiniteSetTheorems, TLAPS

\* A goroutine that is past the start of a call has that call at the head of
\* its list, and it waits only in a call that waits.
ThreadInv ==
    \A t \in Threads :
        /\ pc[t] # "call" => todo[t] # <<>> /\ Current(t).op \in SendOps
        /\ pc[t] = "wait" => Blocking(Current(t))

\* The loop sends itself SetExpires, and DoClose only to get stuck on it.
OwnCommandsInv ==
    \A i \in 1..Len(commands) :
        commands[i].from = Loop =>
            \/ commands[i].call.op = "expires"
            \/ commands[i].call.op = "close" /\ loopAt = "selfWait"

\* Only a SetExpires is the loop's own among the commands it runs, and
\* SetExpires is only the loop's.
LoopInv ==
    /\ \A i \in 1..Len(commands) : commands[i].call.op = "expires" => commands[i].from = Loop
    /\ loopAt \in {"run", "ran", "closing"} =>
          (loopCmd.from = Loop <=> loopCmd.call.op = "expires")
    /\ loopAt = "ran" => loopCmd.call.op = "push"
    /\ loopAt = "closing" => loopCmd.call.op = "close"
    /\ loopAt \in {"selfClose", "selfWait"} => loopCmd.call.op = "write"
    /\ closed => loopAt \in {"select", "closing", "exited"}
    /\ loopAt \in {"closing", "exited"} => closed

IInv ==
    /\ TypeOK
    /\ ThreadInv
    /\ OwnCommandsInv
    /\ LoopInv
    /\ ListHoldsOpenContacts
    /\ WaitersAccounted
----------------------------------------------------------------------------
(* Sequences *)

\* What appending one element does, element by element.
LEMMA AppendElements ==
    ASSUME NEW S, NEW s \in Seq(S), NEW e \in S
    PROVE  /\ Append(s, e) \in Seq(S)
           /\ Len(Append(s, e)) = Len(s) + 1
           /\ Len(s) \in Nat
           /\ \A i \in 1..Len(s) : Append(s, e)[i] = s[i]
           /\ Append(s, e)[Len(s) + 1] = e
BY AppendProperties, LenProperties

\* What dropping the first element does, element by element.
LEMMA TailElements ==
    ASSUME NEW S, NEW s \in Seq(S), s # <<>>
    PROVE  /\ Tail(s) \in Seq(S)
           /\ Head(s) \in S /\ Head(s) = s[1]
           /\ Len(s) \in Nat \ {0}
           /\ Len(Tail(s)) = Len(s) - 1
           /\ \A i \in 1..(Len(s) - 1) : Tail(s)[i] = s[i + 1]
BY HeadTailProperties, LenProperties

\* Replacing the first element by a sequence keeps the type.
LEMMA ReplaceHead ==
    ASSUME NEW S, NEW s \in Seq(S), s # <<>>, NEW f \in Seq(S)
    PROVE  f \o Tail(s) \in Seq(S)
BY TailElements, ConcatProperties

\* The calls the loop hands back to a goroutine are calls.
LEMMA FollowUps ==
    /\ <<>> \in Seq(Calls)
    /\ \A p \in PacketKinds : AfterPush(p) \in Seq(Calls) /\ Push(p) \in Calls
    /\ <<PushStats>> \in Seq(Calls) /\ <<DoClose, DoClose>> \in Seq(Calls)
    /\ <<DoClose>> \in Seq(Calls) /\ <<GoStats>> \in Seq(Calls)
    /\ <<Call("bill", "stats", 0)>> \in Seq(Calls)
    /\ ErrorAndDisconnect \in Seq(Calls)
    /\ <<Push("billSub")>> \in Seq(Calls)
<1>1. ASSUME NEW op \in SendOps \cup LocalOps, NEW p \in PacketKinds, NEW n \in Nat
      PROVE  Call(op, p, n) \in Calls
  BY <1>1 DEF Call, Calls
<1>2. /\ \A p \in PacketKinds : Push(p) \in Calls /\ Look(p) \in Calls
      /\ PushStats \in Calls /\ DoClose \in Calls /\ GoStats \in Calls
      /\ Call("bill", "stats", 0) \in Calls
      /\ \A p \in PacketKinds : Write(p, 0) \in Calls
  BY <1>1 DEF Push, Look, PushStats, DoClose, GoStats, Write, SendOps, LocalOps, PacketKinds
<1>3. "disconnect" \in PacketKinds /\ "ping" \in PacketKinds
      /\ "error" \in PacketKinds /\ "billSub" \in PacketKinds
  BY DEF PacketKinds
<1>4. ASSUME NEW p \in PacketKinds PROVE AfterPush(p) \in Seq(Calls)
  BY <1>2, <1>3, <1>4 DEF AfterPush
<1>5. QED
  BY <1>2, <1>3, <1>4 DEF ErrorAndDisconnect
----------------------------------------------------------------------------
(* The inductive invariant *)

\* A contact starts open, on the list, with nobody waiting.
LEMMA InitIInv == Init => IInv
<1> SUFFICES ASSUME Init PROVE IInv
  OBVIOUS
<1>1. Call("close", "plain", 0) \in [op : SendOps \cup {"expires"}, p : PacketKinds, n : Nat]
  BY DEF Call, SendOps, PacketKinds
<1>2. TypeOK
  <2>1. loopCmd \in Commands
    BY <1>1 DEF Init, Commands, DoClose
  <2>2. commands \in Seq(Commands) /\ Len(commands) <= QueueCap
    BY EmptySeq, ContactAssumption DEF Init
  <2>3. todo \in [Threads -> Seq(Calls)]
    BY EmptySeq DEF Init
  <2>4. looked \in Seq(PacketKinds) /\ written \in Seq([by : Threads \cup {Loop}, n : Nat])
    BY EmptySeq DEF Init
  <2>5. QED
    BY <2>1, <2>2, <2>3, <2>4, ContactAssumption DEF Init, TypeOK
<1>3. ThreadInv /\ OwnCommandsInv /\ LoopInv
  BY DEF Init, ThreadInv, OwnCommandsInv, LoopInv
<1>4. ListHoldsOpenContacts /\ WaitersAccounted
  BY DEF Init, ListHoldsOpenContacts, WaitersAccounted, Queued, Taken
<1>5. QED
  BY <1>2, <1>3, <1>4 DEF IInv

\* A step that leaves the channel, the loop, the close and the positions of
\* the goroutines alone keeps what is said about them.
LEMMA FrameStep ==
    ASSUME IInv, UNCHANGED <<commands, loopAt, loopCmd, pc, closed, inList>>
    PROVE  OwnCommandsInv' /\ LoopInv' /\ ListHoldsOpenContacts' /\ WaitersAccounted'
BY DEF IInv, OwnCommandsInv, LoopInv, ListHoldsOpenContacts, WaitersAccounted, Queued, Taken

\* A goroutine without calls is not inside one.
LEMMA IdleCalls ==
    ASSUME IInv, NEW t \in Threads, Idle(t)
    PROVE  pc[t] = "call"
BY DEF IInv, ThreadInv, Idle, TypeOK

\* The environment gives an idle goroutine something to do.
LEMMA StartStep ==
    ASSUME IInv, NEW t \in Threads, NEW cs \in Seq(Calls), Start(t, cs), UNCHANGED connVars
    PROVE  IInv'
<1> USE DEF Start, loopVars, stateVars, outVars, connVars
<1>1. OwnCommandsInv' /\ LoopInv' /\ ListHoldsOpenContacts' /\ WaitersAccounted'
  BY FrameStep
<1>2. TypeOK'
  BY DEF IInv, TypeOK
<1>3. ThreadInv'
  BY IdleCalls DEF IInv, ThreadInv, TypeOK, Current
<1>4. QED
  BY <1>1, <1>2, <1>3 DEF IInv

\* Every step of the environment keeps the invariant.
LEMMA EnvironmentStep ==
    ASSUME IInv, Environment
    PROVE  IInv'
<1>1. Reader \in Threads /\ Beater \in Threads /\ Writers \subseteq Threads
  BY DEF Threads
<1>2. CASE ReadPacket
  <2>1. PICK p \in UpPackets : Start(Reader, <<Push(p)>>)
    BY <1>2 DEF ReadPacket
  <2>2. <<Push(p)>> \in Seq(Calls)
    BY FollowUps, ContactAssumption
  <2>3. QED
    BY <1>1, <1>2, <2>1, <2>2, StartStep DEF ReadPacket
<1>3. CASE ReadError
  <2> USE <1>3 DEF ReadError, loopVars, stateVars, outVars, envVars
  <2>1. OwnCommandsInv' /\ LoopInv' /\ ListHoldsOpenContacts' /\ WaitersAccounted'
    BY FrameStep
  <2>2. TypeOK'
    BY FollowUps DEF IInv, TypeOK
  <2>3. ThreadInv'
    BY <1>1, IdleCalls DEF IInv, ThreadInv, TypeOK, Current
  <2>4. QED
    BY <2>1, <2>2, <2>3 DEF IInv
<1>4. CASE StartHeartbeat
  <2>1. <<Call("beat", "plain", now)>> \in Seq(Calls)
    BY DEF Call, Calls, SendOps, PacketKinds, IInv, TypeOK
  <2>2. QED
    BY <1>1, <1>4, <2>1, StartStep DEF StartHeartbeat
<1>5. CASE \E w \in Writers : StartDelivery(w)
  <2>1. PICK w \in Writers : StartDelivery(w)
    BY <1>5
  <2>2. PICK p \in DownPackets : Start(w, <<Write(p, started + 1)>>)
    BY <2>1 DEF StartDelivery
  <2>3. <<Write(p, started + 1)>> \in Seq(Calls)
    BY ContactAssumption DEF Write, Call, Calls, SendOps, IInv, TypeOK
  <2>4. QED
    BY <1>1, <2>1, <2>2, <2>3, StartStep DEF StartDelivery
<1>6. CASE Tick
  <2> USE <1>6 DEF Tick, loopVars, threadVars, stateVars, connVars, outVars
  <2>1. OwnCommandsInv' /\ LoopInv' /\ ListHoldsOpenContacts' /\ WaitersAccounted'
    BY FrameStep
  <2>2. TypeOK' /\ ThreadInv'
    BY DEF IInv, TypeOK, ThreadInv, Current
  <2>3. QED
    BY <2>1, <2>2 DEF IInv
<1>7. QED
  BY <1>2, <1>3, <1>4, <1>5, <1>6 DEF Environment
\* A goroutine started with "go" was idle.
LEMMA NewGoIsIdle ==
    ASSUME CanGo
    PROVE  NewGo \in Threads /\ Idle(NewGo)
BY DEF CanGo, NewGo, Threads

\* The part of a call before the channel keeps the invariant.
LEMMA BeginStep ==
    ASSUME IInv, NEW t \in Threads, Begin(t)
    PROVE  IInv'
<1> DEFINE c == Current(t)
           rest == [todo EXCEPT ![t] = Tail(@)]
<1> USE DEF loopVars, stateVars, connVars, envVars
<1>1. pc[t] = "call" /\ todo[t] # <<>> /\ todo \in [Threads -> Seq(Calls)]
      /\ pc \in [Threads -> {"call", "send", "wait"}]
  BY DEF Begin, Idle, IInv, TypeOK
<1>2. c \in Calls /\ rest \in [Threads -> Seq(Calls)]
  BY <1>1, TailElements DEF Current
<1>3. CASE UNCHANGED pc /\ todo' = rest
           /\ (looked' = looked \/ looked' = Append(looked, c.p))
  <2>1. OwnCommandsInv' /\ LoopInv' /\ ListHoldsOpenContacts' /\ WaitersAccounted'
    BY <1>3, FrameStep DEF Begin
  <2>2. looked' \in Seq(PacketKinds)
    <3>1. c.p \in PacketKinds
      BY <1>2 DEF Calls
    <3>2. looked \in Seq(PacketKinds)
      BY DEF IInv, TypeOK
    <3>3. QED
      BY <1>3, <3>1, <3>2, AppendElements
  <2>3. TypeOK'
    BY <1>2, <1>3, <2>2 DEF Begin, IInv, TypeOK
  <2>4. ThreadInv'
    BY <1>1, <1>3 DEF IInv, ThreadInv, Current
  <2>5. QED
    BY <2>1, <2>3, <2>4 DEF IInv
<1>4. CASE CanGo /\ todo' = [rest EXCEPT ![NewGo] = <<PushStats>>] /\ UNCHANGED <<pc, looked>>
  <2>1. OwnCommandsInv' /\ LoopInv' /\ ListHoldsOpenContacts' /\ WaitersAccounted'
    BY <1>4, FrameStep DEF Begin
  <2>2. TypeOK'
    BY <1>2, <1>4, FollowUps, NewGoIsIdle DEF Begin, IInv, TypeOK
  <2>3. pc[NewGo] = "call"
    BY <1>4, NewGoIsIdle, IdleCalls
  <2>4. ThreadInv'
    BY <1>1, <1>4, <2>3 DEF IInv, ThreadInv, Current
  <2>5. QED
    BY <2>1, <2>2, <2>4 DEF IInv
<1>5. CASE c.op \in SendOps /\ pc' = [pc EXCEPT ![t] = "send"] /\ UNCHANGED <<todo, looked>>
  <2>1. OwnCommandsInv' /\ LoopInv' /\ ListHoldsOpenContacts'
    BY <1>5 DEF Begin, IInv, OwnCommandsInv, LoopInv, ListHoldsOpenContacts
  <2>2. WaitersAccounted'
    BY <1>1, <1>5 DEF Begin, IInv, WaitersAccounted, Queued, Taken
  <2>3. TypeOK'
    BY <1>5 DEF Begin, IInv, TypeOK
  <2>4. ThreadInv'
    BY <1>1, <1>5 DEF IInv, ThreadInv, Current
  <2>5. QED
    BY <2>1, <2>2, <2>3, <2>4 DEF IInv
<1>6. QED
  BY <1>3, <1>4, <1>5 DEF Begin

\* Sending a command keeps the invariant: the sender had no command left, and
\* now has one exactly if it waits.
LEMMA EnqueueStep ==
    ASSUME IInv, NEW t \in Threads, Enqueue(t)
    PROVE  IInv'
<1> DEFINE c == Current(t)
           cmd == [call |-> c, from |-> t]
<1> USE DEF loopVars, stateVars, connVars, outVars, envVars
<1>1. /\ pc[t] = "send" /\ todo[t] # <<>> /\ todo \in [Threads -> Seq(Calls)]
      /\ pc \in [Threads -> {"call", "send", "wait"}]
      /\ commands \in Seq(Commands) /\ Len(commands) < QueueCap
      /\ c.op \in SendOps
  BY DEF Enqueue, IInv, TypeOK, ThreadInv, HasRoom
<1>2. c \in Calls /\ Tail(todo[t]) \in Seq(Calls)
  BY <1>1, TailElements DEF Current
<1>3. cmd \in Commands /\ cmd.from = t /\ cmd.call = c
  BY <1>1, <1>2 DEF Calls, Commands
<1>4. t # Loop
  BY ContactAssumption
<1>5. /\ commands' \in Seq(Commands) /\ Len(commands') = Len(commands) + 1
      /\ Len(commands) \in Nat
      /\ \A i \in 1..Len(commands) : commands'[i] = commands[i]
      /\ commands'[Len(commands) + 1] = cmd
  BY <1>1, <1>3, AppendElements DEF Enqueue
<1>6. TypeOK'
  <2>1. Len(commands') <= QueueCap
    BY <1>1, <1>5, ContactAssumption
  <2>2. pc' \in [Threads -> {"call", "send", "wait"}] /\ todo' \in [Threads -> Seq(Calls)]
    BY <1>1, <1>2 DEF Enqueue
  <2>3. QED
    BY <1>5, <2>1, <2>2 DEF Enqueue, IInv, TypeOK
<1>7. ThreadInv'
  BY <1>1 DEF Enqueue, IInv, ThreadInv, Current
<1>8. OwnCommandsInv'
  BY <1>3, <1>4, <1>5 DEF Enqueue, IInv, OwnCommandsInv
<1>9. LoopInv' /\ ListHoldsOpenContacts'
  BY <1>1, <1>3, <1>5 DEF Enqueue, IInv, LoopInv, ListHoldsOpenContacts, SendOps
<1>10. WaitersAccounted'
  <2>1. ~Taken(t) /\ Queued(t) = {}
    BY <1>1 DEF IInv, WaitersAccounted
  <2>2. closed' = closed /\ \A u \in Threads : Taken(u)' <=> Taken(u)
    BY DEF Enqueue, Taken
  <2>3. \A u \in Threads \ {t} : Queued(u)' = Queued(u)
    BY <1>3, <1>5 DEF Queued
  <2>4. CASE Blocking(c)
    <3>1. c.op # "write"
      BY <2>4 DEF Blocking
    <3>2. Queued(t)' = {Len(commands) + 1}
      BY <1>3, <1>5, <2>1, <3>1 DEF Queued
    <3>3. pc' = [pc EXCEPT ![t] = "wait"]
      BY <2>4 DEF Enqueue
    <3>4. ASSUME NEW u \in Threads \ {t}
          PROVE  /\ Queued(u)' = Queued(u) /\ (Taken(u)' <=> Taken(u)) /\ pc'[u] = pc[u]
      BY <1>1, <2>2, <2>3, <3>3
    <3>5. pc'[t] = "wait" /\ Queued(t)' # {} /\ ~Taken(t)'
          /\ \A i, j \in Queued(t)' : i = j
      BY <1>1, <2>1, <2>2, <3>2, <3>3
    <3>6. QED
      BY <2>2, <3>4, <3>5 DEF IInv, WaitersAccounted
  <2>5. CASE ~Blocking(c)
    <3>1. c.op = "write"
      BY <1>1, <2>5 DEF Blocking, SendOps
    <3>2. Queued(t)' = {}
      BY <1>3, <1>5, <2>1, <3>1 DEF Queued
    <3>3. pc' = [pc EXCEPT ![t] = "call"]
      BY <2>5 DEF Enqueue
    <3>4. QED
      BY <1>1, <2>1, <2>2, <2>3, <3>2, <3>3 DEF IInv, WaitersAccounted
  <2>6. QED
    BY <2>4, <2>5
<1>11. QED
  BY <1>6, <1>7, <1>8, <1>9, <1>10 DEF IInv
\* The goroutine whose command the loop holds is waiting for it.
LEMMA HeldCommand ==
    ASSUME IInv, loopAt \in {"run", "ran", "closing"},
           loopCmd.call.op \in {"push", "pushStats", "beat", "bill", "close"}
    PROVE  /\ loopCmd.from \in Threads
           /\ Taken(loopCmd.from)
           /\ pc[loopCmd.from] = "wait"
           /\ todo[loopCmd.from] # <<>>
<1>1. loopCmd.from \in Threads
  BY DEF IInv, LoopInv, TypeOK, Commands
<1>2. Taken(loopCmd.from)
  BY DEF Taken
<1>3. pc[loopCmd.from] = "wait"
  BY <1>1, <1>2 DEF IInv, WaitersAccounted
<1>4. QED
  BY <1>1, <1>2, <1>3 DEF IInv, ThreadInv

\* wg.Done() by the loop settles the account of the waiting goroutine.
LEMMA ReturnAccounts ==
    ASSUME IInv, NEW t \in Threads, Taken(t), loopAt' = "select",
           UNCHANGED <<commands, closed>>, pc' = [pc EXCEPT ![t] = "call"]
    PROVE  WaitersAccounted' /\ OwnCommandsInv'
<1>1. Queued(t) = {} /\ pc \in [Threads -> {"call", "send", "wait"}]
  BY DEF IInv, WaitersAccounted, TypeOK
<1>2. \A u \in Threads : Queued(u)' = Queued(u) /\ ~Taken(u)'
  BY DEF Queued, Taken
<1>3. \A u \in Threads \ {t} : ~Taken(u) /\ pc'[u] = pc[u]
  BY <1>1 DEF Taken
<1>4. pc'[t] = "call"
  BY <1>1
<1>5. WaitersAccounted'
  BY <1>1, <1>2, <1>3, <1>4 DEF IInv, WaitersAccounted
<1>6. OwnCommandsInv'
  BY DEF IInv, OwnCommandsInv, Taken
<1>7. QED
  BY <1>5, <1>6

\* The goroutine goes on with the calls it was handed.
LEMMA ReturnThreads ==
    ASSUME IInv, NEW t \in Threads, pc[t] = "wait", NEW f \in Seq(Calls),
           pc' = [pc EXCEPT ![t] = "call"],
           todo' = [todo EXCEPT ![t] = f \o Tail(@)]
    PROVE  /\ ThreadInv'
           /\ pc' \in [Threads -> {"call", "send", "wait"}]
           /\ todo' \in [Threads -> Seq(Calls)]
<1>1. /\ todo[t] # <<>> /\ todo \in [Threads -> Seq(Calls)]
      /\ pc \in [Threads -> {"call", "send", "wait"}]
  BY DEF IInv, ThreadInv, TypeOK
<1>2. f \o Tail(todo[t]) \in Seq(Calls)
  BY <1>1, ReplaceHead
<1>3. ThreadInv'
  BY <1>1 DEF IInv, ThreadInv, Current
<1>4. QED
  BY <1>1, <1>2, <1>3

\* A command the loop sends to itself is on nobody's account.
LEMMA OwnCommandAccounts ==
    ASSUME IInv, NEW c, c \in [op : SendOps \cup {"expires"}, p : PacketKinds, n : Nat],
           HasRoom, commands' = Append(commands, [call |-> c, from |-> Loop]),
           UNCHANGED <<pc, closed, loopCmd>>,
           \/ loopAt = "run" /\ loopAt' = "ran" /\ c.op = "expires"
           \/ loopAt = "selfClose" /\ loopAt' = "selfWait" /\ c.op = "close"
    PROVE  /\ commands' \in Seq(Commands) /\ Len(commands') <= QueueCap
           /\ OwnCommandsInv' /\ WaitersAccounted'
           /\ \A i \in 1..Len(commands') :
                 commands'[i].call.op = "expires" => commands'[i].from = Loop
<1> DEFINE cmd == [call |-> c, from |-> Loop]
<1>1. cmd \in Commands /\ cmd.from = Loop /\ cmd.call = c
  BY DEF Commands
<1>2. /\ commands' \in Seq(Commands) /\ Len(commands') = Len(commands) + 1
      /\ Len(commands) \in Nat
      /\ \A i \in 1..Len(commands) : commands'[i] = commands[i]
      /\ commands'[Len(commands) + 1] = cmd
  BY <1>1, AppendElements DEF IInv, TypeOK
<1>3. Len(commands') <= QueueCap
  BY <1>2, ContactAssumption DEF HasRoom
<1>4. OwnCommandsInv'
  BY <1>1, <1>2 DEF IInv, OwnCommandsInv
<1>5. \A u \in Threads : Queued(u)' = Queued(u)
  BY <1>1, <1>2, ContactAssumption DEF Queued
<1>6. \A u \in Threads : Taken(u)' <=> Taken(u)
  <2>1. loopAt = "selfClose" => loopCmd.call.op = "write"
    BY DEF IInv, LoopInv
  <2>2. QED
    BY <2>1 DEF Taken
<1>7. WaitersAccounted'
  BY <1>5, <1>6 DEF IInv, WaitersAccounted
<1>8. QED
  BY <1>1, <1>2, <1>3, <1>4, <1>7 DEF IInv, LoopInv
\* Taking a command off the channel moves it from the queue to the loop's
\* hands, or forgets it once the contact is closed.
LEMMA TakeStep ==
    ASSUME IInv, LoopTake
    PROVE  IInv'
<1> USE DEF loopVars, threadVars, stateVars, connVars, outVars, envVars
<1>1. /\ commands' \in Seq(Commands)
      /\ Head(commands) \in Commands /\ Head(commands) = commands[1]
      /\ Len(commands) \in Nat \ {0}
      /\ Len(commands') = Len(commands) - 1
      /\ \A i \in 1..(Len(commands) - 1) : commands'[i] = commands[i + 1]
  BY TailElements DEF LoopTake, IInv, TypeOK
<1>2. TypeOK'
  BY <1>1, ContactAssumption DEF LoopTake, IInv, TypeOK
<1>3. ThreadInv' /\ ListHoldsOpenContacts'
  BY DEF LoopTake, IInv, ThreadInv, ListHoldsOpenContacts, Current, Runnable
<1>4. OwnCommandsInv'
  BY <1>1 DEF LoopTake, IInv, OwnCommandsInv
<1>5. LoopInv'
  <2>1. commands[1].from = Loop <=> commands[1].call.op = "expires"
    BY <1>1 DEF LoopTake, IInv, OwnCommandsInv, LoopInv
  <2>2. QED
    BY <1>1, <2>1 DEF LoopTake, IInv, LoopInv, Runnable
<1>6. WaitersAccounted'
  <2>1. ASSUME NEW u \in Threads
        PROVE  /\ Queued(u)' = {i \in 1..(Len(commands) - 1) : i + 1 \in Queued(u)}
               /\ Queued(u) # {} => 1 \in Queued(u) \/ Queued(u)' # {}
    <3>1. Queued(u)' = {i \in 1..(Len(commands) - 1) : i + 1 \in Queued(u)}
      BY <1>1 DEF Queued
    <3>2. ASSUME NEW k \in Queued(u), k # 1 PROVE k - 1 \in Queued(u)'
      BY <1>1, <3>1, <3>2, SMTT(30) DEF Queued
    <3>3. QED
      BY <3>1, <3>2
  <2>2. ASSUME NEW u \in Threads PROVE ~Taken(u) /\ pc'[u] = pc[u] /\ closed' = closed
    BY DEF LoopTake, Taken
  <2>3. CASE closed
    <3>1. ASSUME NEW u \in Threads PROVE ~Taken(u)'
      BY <2>3 DEF LoopTake, Taken, Runnable
    <3>2. ASSUME NEW u \in Threads
          PROVE  /\ Queued(u)' # {} => Queued(u) # {}
                 /\ \A i, j \in Queued(u)' : i = j
      BY <1>1, <2>1 DEF IInv, WaitersAccounted
    <3>3. QED
      BY <2>2, <2>3, <3>1, <3>2 DEF IInv, WaitersAccounted
  <2>4. CASE ~closed
    <3>1. ASSUME NEW u \in Threads PROVE Taken(u)' <=> 1 \in Queued(u)
      BY <1>1, <2>4 DEF LoopTake, Taken, Queued, Runnable
    <3>2. ASSUME NEW u \in Threads, 1 \in Queued(u) PROVE Queued(u)' = {}
      BY <1>1, <2>1, <3>2 DEF IInv, WaitersAccounted
    <3>3. ASSUME NEW u \in Threads PROVE \A i, j \in Queued(u)' : i = j
      BY <1>1, <2>1 DEF IInv, WaitersAccounted
    <3>4. QED
      BY <2>1, <2>2, <3>1, <3>2, <3>3 DEF IInv, WaitersAccounted
  <2>5. QED
    BY <2>3, <2>4
<1>7. QED
  BY <1>2, <1>3, <1>4, <1>5, <1>6 DEF IInv
\* The steps of the loop that run no closure, or one nobody waits for.
LEMMA QuietLoopStep ==
    ASSUME IInv, LoopExit \/ RunSetExpires \/ RunWrite \/ RunClose
    PROVE  IInv'
<1> USE DEF loopVars, threadVars, stateVars, connVars, outVars, envVars
<1>1. UNCHANGED <<commands, loopCmd, pc, todo, inList>>
  BY DEF LoopExit, RunSetExpires, RunWrite, RunClose
<1>2. TypeOK'
  <2>1. loopCmd.call.n \in Nat /\ loopCmd.from \in Threads \cup {Loop}
    BY DEF IInv, TypeOK, Commands
  <2>2. expires' \in Nat
    BY <2>1 DEF LoopExit, RunSetExpires, RunWrite, RunClose, IInv, TypeOK
  <2>3. written' \in Seq([by : Threads \cup {Loop}, n : Nat])
    <3> DEFINE w == [by |-> loopCmd.from, n |-> loopCmd.call.n]
               W == [by : Threads \cup {Loop}, n : Nat]
    <3>1. w \in W
      BY <2>1
    <3>2. written \in Seq(W)
      BY DEF IInv, TypeOK
    <3>3. written' = written \/ written' = Append(written, w)
      BY DEF LoopExit, RunSetExpires, RunWrite, RunClose
    <3> HIDE DEF w, W
    <3>4. written' \in Seq(W)
      BY <3>1, <3>2, <3>3, AppendElements
    <3>5. QED
      BY <3>4 DEF W
  <2>4. QED
    BY <1>1, <2>2, <2>3 DEF LoopExit, RunSetExpires, RunWrite, RunClose, IInv, TypeOK
<1>3. ThreadInv'
  BY <1>1 DEF IInv, ThreadInv, Current
<1>4. OwnCommandsInv' /\ LoopInv' /\ ListHoldsOpenContacts'
  BY DEF LoopExit, RunSetExpires, RunWrite, RunClose, Running,
         IInv, OwnCommandsInv, LoopInv, ListHoldsOpenContacts
<1>5. WaitersAccounted'
  <2>1. \A u \in Threads : Queued(u)' = Queued(u)
    BY <1>1 DEF Queued
  <2>2. \A u \in Threads : Taken(u)' <=> Taken(u)
    BY ContactAssumption DEF LoopExit, RunSetExpires, RunWrite, RunClose, Running, Taken, IInv, LoopInv
  <2>3. closed => closed'
    BY DEF LoopExit, RunSetExpires, RunWrite, RunClose
  <2>4. QED
    BY <1>1, <2>1, <2>2, <2>3 DEF IInv, WaitersAccounted
<1>6. QED
  BY <1>2, <1>3, <1>4, <1>5 DEF IInv

\* The steps in which the loop sends to its own channel.
LEMMA SelfSendStep ==
    ASSUME IInv, PushSetExpires \/ SelfDoClose
    PROVE  IInv'
<1> USE DEF loopVars, threadVars, stateVars, connVars, outVars, envVars
<1>1. PICK c \in [op : SendOps \cup {"expires"}, p : PacketKinds, n : Nat] :
         /\ HasRoom
         /\ commands' = Append(commands, [call |-> c, from |-> Loop])
         /\ UNCHANGED <<pc, closed, loopCmd>>
         /\ \/ loopAt = "run" /\ loopAt' = "ran" /\ c.op = "expires"
            \/ loopAt = "selfClose" /\ loopAt' = "selfWait" /\ c.op = "close"
  <2>1. CASE PushSetExpires
    <3> DEFINE e == Call("expires", "plain", now + ContactTTL)
    <3>1. e \in [op : SendOps \cup {"expires"}, p : PacketKinds, n : Nat] /\ e.op = "expires"
      BY ContactAssumption DEF Call, PacketKinds, IInv, TypeOK
    <3>2. QED
      BY <2>1, <3>1 DEF PushSetExpires, Running
  <2>2. CASE SelfDoClose
    <3>1. /\ DoClose \in [op : SendOps \cup {"expires"}, p : PacketKinds, n : Nat]
          /\ DoClose.op = "close"
      BY DEF DoClose, Call, PacketKinds, SendOps
    <3>2. QED
      BY <2>2, <3>1 DEF SelfDoClose
  <2>3. QED
    BY <2>1, <2>2
<1>2. /\ commands' \in Seq(Commands) /\ Len(commands') <= QueueCap
      /\ OwnCommandsInv' /\ WaitersAccounted'
      /\ \A i \in 1..Len(commands') :
            commands'[i].call.op = "expires" => commands'[i].from = Loop
  BY <1>1, OwnCommandAccounts
<1>3. TypeOK'
  BY <1>2 DEF PushSetExpires, SelfDoClose, IInv, TypeOK
<1>4. ThreadInv' /\ ListHoldsOpenContacts'
  BY DEF PushSetExpires, SelfDoClose, Running, IInv, ThreadInv, ListHoldsOpenContacts, Current
<1>5. LoopInv'
  BY <1>2 DEF PushSetExpires, SelfDoClose, Running, IInv, LoopInv
<1>6. QED
  BY <1>2, <1>3, <1>4, <1>5 DEF IInv

\* The steps that end a closure somebody waits for.
LEMMA ReturningStep ==
    ASSUME IInv, RunHeartbeat \/ RunBilling \/ FinishClose
    PROVE  IInv'
<1> DEFINE t == loopCmd.from
<1> USE DEF loopVars, threadVars, stateVars, connVars, outVars, envVars
<1>1. loopAt \in {"run", "closing"} /\ loopCmd.call.op \in {"beat", "bill", "close"}
  BY DEF RunHeartbeat, RunBilling, FinishClose, Running, IInv, LoopInv
<1>2. t \in Threads /\ Taken(t) /\ pc[t] = "wait" /\ todo[t] # <<>>
  BY <1>1, HeldCommand
<1>3. PICK f \in Seq(Calls) :
         /\ pc' = [pc EXCEPT ![t] = "call"]
         /\ todo' = [todo EXCEPT ![t] = f \o Tail(@)]
  <2>1. CASE RunHeartbeat
    <3> DEFINE when == loopCmd.call.n
               bill == IF nextBilling < when THEN <<Call("bill", "stats", 0)>> ELSE <<>>
               close == IF ~IsGuru /\ expires < when THEN <<DoClose>> ELSE <<>>
    <3>1. bill \in Seq(Calls) /\ close \in Seq(Calls)
      BY FollowUps
    <3>2. bill \o close \in Seq(Calls)
      BY <3>1, ConcatProperties
    <3>3. (IF token THEN bill \o close ELSE <<>>) \in Seq(Calls)
      BY <3>2, FollowUps
    <3>4. QED
      BY <2>1, <3>3 DEF RunHeartbeat, Return
  <2>2. CASE RunBilling
    BY <2>2, FollowUps DEF RunBilling, Return
  <2>3. CASE FinishClose
    BY <2>3, FollowUps DEF FinishClose, Return
  <2>4. QED
    BY <2>1, <2>2, <2>3
<1>4. UNCHANGED <<commands, closed, loopCmd>> /\ loopAt' = "select"
  BY DEF RunHeartbeat, RunBilling, FinishClose
<1>5. WaitersAccounted' /\ OwnCommandsInv'
  BY <1>2, <1>3, <1>4, ReturnAccounts
<1>6. /\ ThreadInv'
      /\ pc' \in [Threads -> {"call", "send", "wait"}]
      /\ todo' \in [Threads -> Seq(Calls)]
  BY <1>2, <1>3, ReturnThreads
<1>7. TypeOK'
  <2>1. nextBilling' \in Nat
    BY ContactAssumption DEF RunHeartbeat, RunBilling, FinishClose, IInv, TypeOK
  <2>2. inList' \in BOOLEAN
    BY DEF RunHeartbeat, RunBilling, FinishClose, DoClosingWork, IInv, TypeOK
  <2>3. UNCHANGED <<token, expires, socketOpen, reading, looked, written, now, started>>
    BY DEF RunHeartbeat, RunBilling, FinishClose
  <2>4. QED
    BY <1>4, <1>6, <2>1, <2>2, <2>3 DEF IInv, TypeOK
<1>8. LoopInv'
  BY <1>4 DEF IInv, LoopInv
<1>9. ListHoldsOpenContacts'
  BY DEF RunHeartbeat, RunBilling, FinishClose, DoClosingWork, Running,
         IInv, LoopInv, ListHoldsOpenContacts
<1>10. QED
  BY <1>5, <1>6, <1>7, <1>8, <1>9 DEF IInv
\* expectToken, the end of PushPacketUpFromBottom2's closure.
LEMMA ExpectTokenStep ==
    ASSUME IInv, PushExpectToken
    PROVE  IInv'
<1> DEFINE p == loopCmd.call.p
           t == loopCmd.from
           returned == [todo EXCEPT ![t] = AfterPush(p) \o Tail(@)]
<1> USE DEF loopVars, threadVars, stateVars, connVars, outVars, envVars
<1>1. loopAt \in {"run", "ran"} /\ loopCmd.call.op \in {"push", "pushStats"}
  BY DEF PushExpectToken, Running, IInv, LoopInv
<1>2. t \in Threads /\ Taken(t) /\ pc[t] = "wait" /\ todo[t] # <<>>
  BY <1>1, HeldCommand
<1>3. pc' = [pc EXCEPT ![t] = "call"]
  BY DEF PushExpectToken
<1>4. UNCHANGED <<commands, closed, loopCmd>> /\ loopAt' = "select"
  BY DEF PushExpectToken
<1>5. WaitersAccounted' /\ OwnCommandsInv'
  BY <1>2, <1>3, <1>4, ReturnAccounts
<1>6. AfterPush(p) \in Seq(Calls)
  <2>1. p \in PacketKinds
    BY DEF IInv, TypeOK, Commands
  <2>2. QED
    BY <2>1, FollowUps
<1>7. /\ todo \in [Threads -> Seq(Calls)] /\ pc \in [Threads -> {"call", "send", "wait"}]
      /\ returned \in [Threads -> Seq(Calls)]
  BY <1>2, <1>6, ReplaceHead DEF IInv, TypeOK
<1>8. PICK g \in Threads, cs \in Seq(Calls) :
         todo' = returned \/ (Idle(g) /\ todo' = [returned EXCEPT ![g] = cs])
  <2>1. CASE NotCheckedIn
    <3> DEFINE cs == IF p = "goodConnect" THEN <<Push("billSub")>> ELSE ErrorAndDisconnect
    <3>1. cs \in Seq(Calls)
      BY FollowUps
    <3>2. NewGo \in Threads /\ Idle(NewGo)
      BY <2>1, NewGoIsIdle DEF PushExpectToken
    <3>3. todo' = [returned EXCEPT ![NewGo] = cs]
      BY <2>1 DEF PushExpectToken
    <3> HIDE DEF cs
    <3>4. QED
      BY <3>1, <3>2, <3>3
  <2>2. CASE ~NotCheckedIn
    BY <1>2, <1>6, <2>2 DEF PushExpectToken
  <2>3. QED
    BY <2>1, <2>2
<1>9. todo' \in [Threads -> Seq(Calls)] /\ pc' \in [Threads -> {"call", "send", "wait"}]
  BY <1>3, <1>7, <1>8
<1>10. ThreadInv'
  <2>1. \A u \in Threads : Idle(u) => pc[u] = "call"
    BY IdleCalls
  <2>2. ASSUME NEW u \in Threads, pc'[u] # "call"
        PROVE  pc'[u] = pc[u] /\ todo'[u] = todo[u]
    BY <1>2, <1>3, <1>7, <1>8, <2>1, <2>2
  <2>3. QED
    BY <2>2 DEF IInv, ThreadInv, Current
<1>11. TypeOK'
  <2>1. token' \in BOOLEAN
    BY DEF PushExpectToken, IInv, TypeOK
  <2>2. UNCHANGED <<inList, expires, nextBilling, socketOpen, reading, looked, written, now, started>>
    BY DEF PushExpectToken
  <2>3. QED
    BY <1>4, <1>9, <2>1, <2>2 DEF IInv, TypeOK
<1>12. LoopInv' /\ ListHoldsOpenContacts'
  BY <1>1, <1>4 DEF PushExpectToken, IInv, LoopInv, ListHoldsOpenContacts
<1>13. QED
  BY <1>5, <1>10, <1>11, <1>12 DEF IInv

\* Every step of the contact keeps the invariant.
LEMMA NextIInv == IInv /\ [Next]_vars => IInv'
<1> SUFFICES ASSUME IInv, [Next]_vars PROVE IInv'
  OBVIOUS
<1>1. CASE LoopStep
  BY <1>1, TakeStep, QuietLoopStep, SelfSendStep, ReturningStep, ExpectTokenStep DEF LoopStep
<1>2. CASE \E t \in Threads : ThreadStep(t)
  BY <1>2, BeginStep, EnqueueStep DEF ThreadStep
<1>3. CASE Environment
  BY <1>3, EnvironmentStep
<1>4. CASE UNCHANGED vars
  <2> USE <1>4 DEF vars, loopVars, threadVars, stateVars, connVars, outVars, envVars
  <2>1. OwnCommandsInv' /\ LoopInv' /\ ListHoldsOpenContacts' /\ WaitersAccounted'
    BY FrameStep
  <2>2. TypeOK' /\ ThreadInv'
    BY DEF IInv, TypeOK, ThreadInv, Current
  <2>3. QED
    BY <2>1, <2>2 DEF IInv
<1>5. QED
  BY <1>1, <1>2, <1>3, <1>4 DEF Next

\* The inductive invariant holds throughout.
THEOREM ContactInvariant == Spec => []IInv
<1>1. QED
  BY InitIInv, NextIInv, PTL DEF Spec

\* The state keeps its shape, and the channel its capacity.
THEOREM ContactTypeOK == Spec => []TypeOK
<1>1. IInv => TypeOK
  BY DEF IInv
<1>2. QED
  BY <1>1, ContactInvariant, PTL

\* The list holds exactly the contacts that are not closed (contacts.go:122).
THEOREM ContactListHoldsOpen == Spec => []ListHoldsOpenContacts
<1>1. IInv => ListHoldsOpenContacts
  BY DEF IInv
<1>2. QED
  BY <1>1, ContactInvariant, PTL

\* Every waiting goroutine has exactly one command left on an open contact,
\* and no WaitGroup is released twice.
THEOREM ContactWaitersAccounted == Spec => []WaitersAccounted
<1>1. IInv => WaitersAccounted
  BY DEF IInv
<1>2. QED
  BY <1>1, ContactInvariant, PTL

\* A command still in the channel when the contact closes has no effect.
THEOREM ContactClosedIsFinal == Spec => ClosedIsFinal
<1>1. ASSUME IInv, [Next]_vars
      PROVE  [closed => UNCHANGED <<closed, token, expires, nextBilling, written>>]_vars
  <2> SUFFICES ASSUME closed, Next
               PROVE  UNCHANGED <<closed, token, expires, nextBilling, written>>
    BY <1>1
  <2> USE DEF loopVars, threadVars, stateVars, connVars, outVars, envVars
  <2>1. loopAt \in {"select", "closing", "exited"}
    BY <1>1 DEF IInv, LoopInv
  <2>2. CASE LoopStep
    BY <2>1, <2>2 DEF LoopStep, LoopExit, LoopTake, RunSetExpires, PushSetExpires,
       PushExpectToken, RunHeartbeat, RunBilling, RunWrite, SelfDoClose, RunClose,
       FinishClose, Running
  <2>3. CASE \E t \in Threads : ThreadStep(t)
    BY <2>3 DEF ThreadStep, Begin, Enqueue
  <2>4. CASE Environment
    BY <2>4 DEF Environment, ReadPacket, ReadError, StartHeartbeat, StartDelivery, Tick, Start
  <2>5. QED
    BY <2>2, <2>3, <2>4 DEF Next
<1>2. QED
  BY <1>1, ContactInvariant, PTL DEF Spec, ClosedIsFinal
----------------------------------------------------------------------------
(* The two histories: what was handed to the lookup table, and what was     *)
(* written to the connection.                                               *)

\* A goroutine in the middle of a call sent the call at the head of its list.
CommandsAreCalls ==
    \A t \in Threads :
        /\ \A i \in Queued(t) : commands[i].call = Current(t)
        /\ Taken(t) => loopCmd.call = Current(t)

\* Goroutine t has the subscription to the billing topic at place i of its list.
Billing(t, i) == todo[t][i].op \in {"push", "pushStats", "look"} /\ todo[t][i].p = "billSub"

\* The subscription to the billing topic is in one place at most: it is all that
\* one goroutine has to do, or it is done.
BillInv ==
    /\ \A t \in Threads : \A i \in 1..Len(todo[t]) :
          Billing(t, i) =>
             /\ token /\ i = 1 /\ Len(todo[t]) = 1
             /\ \A k \in 1..Len(looked) : looked[k] # "billSub"
    /\ \A t, u \in Threads :
          todo[t] # <<>> /\ todo[u] # <<>> /\ Billing(t, 1) /\ Billing(u, 1) => t = u
    /\ \A k \in 1..Len(looked) : looked[k] = "billSub" => token
    /\ \A k, l \in 1..Len(looked) :
          looked[k] = "billSub" /\ looked[l] = "billSub" => k = l

\* A writer does nothing but write, one packet at a time.
WritersWrite ==
    \A w \in Writers :
        /\ todo[w] # <<>> => Len(todo[w]) = 1 /\ Current(w).op = "write"
        /\ \A i \in 1..Len(commands) : commands[i].from = w => commands[i].call.op = "write"
        /\ loopCmd.from = w => loopCmd.call.op = "write"

\* A packet of writer w in the hands of the loop, not written yet.
Writing(w) == loopAt = "run" /\ loopCmd.from = w

\* From its list over the channel and the loop to the wire the packets of writer
\* w stay in the order in which it was given them.
OrderInList(w) == todo[w] # <<>> => Current(w).n <= started

OrderInChannel(w) ==
    \A i \in 1..Len(commands) : commands[i].from = w =>
        /\ commands[i].call.n <= started
        /\ todo[w] # <<>> => commands[i].call.n < Current(w).n
        /\ \A j \in 1..Len(commands) :
              i < j /\ commands[j].from = w => commands[i].call.n < commands[j].call.n

OrderInLoop(w) ==
    Writing(w) =>
        /\ loopCmd.call.n <= started
        /\ todo[w] # <<>> => loopCmd.call.n < Current(w).n
        /\ \A i \in 1..Len(commands) :
              commands[i].from = w => loopCmd.call.n < commands[i].call.n

OrderOnWire(w) ==
    \A k \in 1..Len(written) : written[k].by = w =>
        /\ written[k].n <= started
        /\ todo[w] # <<>> => written[k].n < Current(w).n
        /\ \A i \in 1..Len(commands) :
              commands[i].from = w => written[k].n < commands[i].call.n
        /\ Writing(w) => written[k].n < loopCmd.call.n
        /\ \A l \in 1..Len(written) :
              k < l /\ written[l].by = w => written[k].n < written[l].n

Order(w) == OrderInList(w) /\ OrderInChannel(w) /\ OrderInLoop(w) /\ OrderOnWire(w)

OrderInv == \A w \in Writers : Order(w)

\* The steps of the loop that end a call somebody waits for: only the waiting
\* goroutine gets new calls, and one that was idle if the step starts one.
LEMMA LoopReturns ==
    ASSUME IInv, RunHeartbeat \/ RunBilling \/ FinishClose \/ PushExpectToken
    PROVE  /\ loopCmd.from \in Threads /\ Taken(loopCmd.from)
           /\ pc[loopCmd.from] = "wait" /\ todo[loopCmd.from] # <<>>
           /\ UNCHANGED <<commands, loopCmd, looked, written, started>>
           /\ loopAt' = "select"
           /\ \A u \in Threads \ {loopCmd.from} : todo'[u] # todo[u] => Idle(u) /\ CanGo /\ u = NewGo
<1> USE DEF outVars, envVars
<1>1. /\ loopAt \in {"run", "ran", "closing"}
      /\ loopCmd.call.op \in {"push", "pushStats", "beat", "bill", "close"}
  BY DEF RunHeartbeat, RunBilling, FinishClose, PushExpectToken, Running, IInv, LoopInv
<1>2. /\ loopCmd.from \in Threads /\ Taken(loopCmd.from)
      /\ pc[loopCmd.from] = "wait" /\ todo[loopCmd.from] # <<>>
  BY <1>1, HeldCommand
<1>3. UNCHANGED <<commands, loopCmd, looked, written, started>> /\ loopAt' = "select"
  BY DEF RunHeartbeat, RunBilling, FinishClose, PushExpectToken
<1>4. ASSUME NEW u \in Threads \ {loopCmd.from}, todo'[u] # todo[u]
      PROVE  Idle(u) /\ CanGo /\ u = NewGo
  <2>1. todo \in [Threads -> Seq(Calls)]
    BY DEF IInv, TypeOK
  <2>2. CASE RunHeartbeat \/ RunBilling \/ FinishClose
    BY <1>4, <2>1, <2>2 DEF RunHeartbeat, RunBilling, FinishClose, Return
  <2>3. CASE PushExpectToken
    <3>1. NotCheckedIn
      BY <1>4, <2>1, <2>3 DEF PushExpectToken
    <3>2. CanGo /\ NewGo \in Threads /\ Idle(NewGo)
      BY <2>3, <3>1, NewGoIsIdle DEF PushExpectToken
    <3>3. u = NewGo
      BY <1>4, <2>1, <2>3, <3>1, <3>2 DEF PushExpectToken
    <3>4. QED
      BY <3>2, <3>3
  <2>4. QED
    BY <2>2, <2>3
<1>5. QED
  BY <1>2, <1>3, <1>4

\* The steps of the loop that end no call somebody waits for: they give nobody
\* anything to do, and send the channel nothing but commands of the loop.
LEMMA LoopGoesOn ==
    ASSUME IInv, LoopExit \/ RunSetExpires \/ RunWrite \/ RunClose \/ PushSetExpires \/ SelfDoClose
    PROVE  /\ UNCHANGED <<loopCmd, pc, todo, looked, token, started>>
           /\ Len(commands) \in Nat
           /\ \A i \in 1..Len(commands) : commands'[i] = commands[i]
           /\ \/ Len(commands') = Len(commands)
              \/ /\ Len(commands') = Len(commands) + 1
                 /\ commands'[Len(commands) + 1].from = Loop
           /\ \A t \in Threads : Taken(t)' => Taken(t)
<1> USE DEF threadVars, stateVars, outVars, envVars
<1>1. commands \in Seq(Commands) /\ Len(commands) \in Nat
  BY LenProperties DEF IInv, TypeOK
<1>2. UNCHANGED <<loopCmd, pc, todo, looked, token, started>>
  BY DEF LoopExit, RunSetExpires, RunWrite, RunClose, PushSetExpires, SelfDoClose
<1>3. \A t \in Threads : Taken(t)' => Taken(t)
  BY <1>2 DEF LoopExit, RunSetExpires, RunWrite, RunClose, PushSetExpires, SelfDoClose, Running, Taken
<1>4. CASE LoopExit \/ RunSetExpires \/ RunWrite \/ RunClose
  <2>1. commands' = commands
    BY <1>4 DEF LoopExit, RunSetExpires, RunWrite, RunClose
  <2>2. QED
    BY <1>1, <1>2, <1>3, <2>1
<1>5. CASE PushSetExpires \/ SelfDoClose
  <2>1. PICK c : commands' = Append(commands, [call |-> c, from |-> Loop])
    BY <1>5 DEF PushSetExpires, SelfDoClose
  <2>2. [call |-> c, from |-> Loop].from = Loop
    OBVIOUS
  <2>3. /\ Len(commands') = Len(commands) + 1
        /\ commands'[Len(commands) + 1] = [call |-> c, from |-> Loop]
        /\ \A i \in 1..Len(commands) : commands'[i] = commands[i]
    BY <1>1, <2>1
  <2>4. QED
    BY <1>1, <1>2, <1>3, <2>2, <2>3
<1>6. QED
  BY <1>4, <1>5

\* The steps that touch neither the channel nor the loop give calls to idle
\* goroutines, and take them from goroutines at the start of a call.
LEMMA QuietStep ==
    ASSUME IInv, Environment \/ (\E t \in Threads : Begin(t)) \/ UNCHANGED vars
    PROVE  /\ UNCHANGED <<commands, loopAt, loopCmd, token, written>>
           /\ \A u \in Threads : todo'[u] # todo[u] => pc[u] = "call"
<1> USE DEF loopVars, threadVars, stateVars, outVars, envVars
<1>1. UNCHANGED <<commands, loopAt, loopCmd, token, written>>
  BY DEF Environment, ReadPacket, ReadError, StartHeartbeat, StartDelivery, Start, Tick, Begin, vars
<1>2. ASSUME NEW u \in Threads, todo'[u] # todo[u]
      PROVE  pc[u] = "call"
  <2>1. todo \in [Threads -> Seq(Calls)]
    BY DEF IInv, TypeOK
  <2>2. \A v \in Threads : Idle(v) => pc[v] = "call"
    BY IdleCalls
  <2>3. CASE Environment
    <3>1. \A v, cs : Start(v, cs) => v = u \/ todo'[u] = todo[u]
      BY <2>1, <1>2 DEF Start
    <3>2. Idle(u)
      BY <1>2, <2>1, <2>3, <3>1 DEF Environment, ReadPacket, ReadError, StartHeartbeat, StartDelivery, Start, Tick
    <3>3. QED
      BY <2>2, <3>2
  <2>4. CASE \E t \in Threads : Begin(t)
    <3>1. PICK t \in Threads : Begin(t)
      BY <2>4
    <3>2. CanGo => NewGo \in Threads /\ Idle(NewGo)
      BY NewGoIsIdle
    <3>3. u = t \/ (CanGo /\ u = NewGo)
      BY <1>2, <2>1, <3>1, <3>2 DEF Begin
    <3>4. QED
      BY <2>2, <3>1, <3>2, <3>3 DEF Begin
  <2>5. CASE UNCHANGED vars
    BY <1>2, <2>5 DEF vars
  <2>6. QED
    BY <2>3, <2>4, <2>5
<1>3. QED
  BY <1>1, <1>2

\* A command a goroutine waits for is the call at the head of its list.
LEMMA CommandsAreCallsStep ==
    ASSUME IInv, IInv', CommandsAreCalls, [Next]_vars
    PROVE  CommandsAreCalls'
<1> USE DEF CommandsAreCalls
<1>1. /\ commands \in Seq(Commands) /\ Len(commands) \in Nat
      /\ todo \in [Threads -> Seq(Calls)] /\ pc \in [Threads -> {"call", "send", "wait"}]
  BY LenProperties DEF IInv, TypeOK
<1>2. \A t \in Threads : (Taken(t) \/ Queued(t) # {}) => pc[t] = "wait"
  BY DEF IInv, WaitersAccounted
<1>3. CASE Environment \/ (\E t \in Threads : Begin(t)) \/ UNCHANGED vars
  <2>1. /\ UNCHANGED <<commands, loopAt, loopCmd>>
        /\ \A u \in Threads : todo'[u] # todo[u] => pc[u] = "call"
    BY <1>3, QuietStep
  <2>2. \A u \in Threads : Queued(u)' = Queued(u) /\ (Taken(u)' <=> Taken(u))
    BY <2>1 DEF Queued, Taken
  <2>3. \A u \in Threads : Taken(u) \/ Queued(u) # {} => Current(u)' = Current(u)
    BY <1>2, <2>1 DEF Current
  <2>4. QED
    BY <2>1, <2>2, <2>3
<1>4. ASSUME NEW t \in Threads, Enqueue(t)
      PROVE  CommandsAreCalls'
  <2> DEFINE cmd == [call |-> Current(t), from |-> t]
  <2>1. /\ pc[t] = "send" /\ UNCHANGED <<loopAt, loopCmd>>
        /\ \A u \in Threads \ {t} : todo'[u] = todo[u]
        /\ Blocking(Current(t)) => todo' = todo
        /\ commands' = Append(commands, cmd)
    BY <1>1, <1>4 DEF Enqueue, loopVars
  <2>2. cmd.from = t /\ cmd.call = Current(t)
    OBVIOUS
  <2>3. /\ Len(commands') = Len(commands) + 1
        /\ commands'[Len(commands) + 1] = cmd
        /\ \A i \in 1..Len(commands) : commands'[i] = commands[i]
    BY <1>1, <2>1
  <2>4. ~Taken(t) /\ Queued(t) = {}
    BY <1>2, <2>1
  <2>5. \A u \in Threads : Taken(u)' <=> Taken(u)
    BY <2>1 DEF Taken
  <2>6. ASSUME NEW u \in Threads \ {t}
        PROVE  Queued(u)' = Queued(u) /\ Current(u)' = Current(u)
    BY <1>1, <2>1, <2>2, <2>3 DEF Queued, Current
  <2>7. ASSUME NEW u \in Threads \ {t}
        PROVE  /\ \A i \in Queued(u)' : commands'[i].call = Current(u)'
               /\ Taken(u)' => loopCmd'.call = Current(u)'
    BY <2>1, <2>3, <2>5, <2>6 DEF Queued
  <2>8. ASSUME NEW i \in Queued(t)'
        PROVE  i = Len(commands) + 1 /\ commands'[i].call.op # "write"
    <3>1. i \in 1..(Len(commands) + 1) /\ commands'[i].from = t /\ commands'[i].call.op # "write"
      BY <2>3 DEF Queued
    <3>2. i \in 1..Len(commands) => i \in Queued(t)
      BY <2>3, <3>1 DEF Queued
    <3>3. QED
      BY <1>1, <2>4, <3>1, <3>2
  <2>9. ASSUME NEW i \in Queued(t)' PROVE commands'[i].call = Current(t)'
    <3>1. i = Len(commands) + 1 /\ Current(t).op # "write" /\ commands'[i].call = Current(t)
      BY <2>2, <2>3, <2>8
    <3>2. Blocking(Current(t))
      BY <1>4, <3>1, <2>1 DEF IInv, ThreadInv, Blocking, SendOps
    <3>3. QED
      BY <2>1, <3>1, <3>2 DEF Current
  <2>10. QED
    BY <2>4, <2>5, <2>7, <2>9
<1>5. CASE LoopTake
  <2>1. /\ commands # <<>> /\ commands' = Tail(commands)
        /\ UNCHANGED <<pc, todo>>
        /\ Head(commands) = commands[1] /\ Len(commands) \in Nat \ {0}
        /\ Len(commands') = Len(commands) - 1
        /\ \A i \in 1..(Len(commands) - 1) : commands'[i] = commands[i + 1]
    BY <1>1, <1>5, TailElements DEF LoopTake, threadVars
  <2>2. ASSUME NEW u \in Threads
        PROVE  /\ \A i \in Queued(u)' : i + 1 \in Queued(u) /\ commands'[i] = commands[i + 1]
               /\ Taken(u)' => 1 \in Queued(u) /\ loopCmd' = commands[1]
    <3>1. Taken(u)' => loopCmd' = commands[1]
      BY <1>5, <2>1 DEF LoopTake, Taken, loopVars
    <3>2. QED
      BY <2>1, <3>1 DEF Queued, Taken
  <2>3. \A u \in Threads : Current(u)' = Current(u)
    BY <2>1 DEF Current
  <2>4. QED
    BY <2>2, <2>3
<1>6. CASE RunHeartbeat \/ RunBilling \/ FinishClose \/ PushExpectToken
  <2> DEFINE t == loopCmd.from
  <2>1. /\ t \in Threads /\ Taken(t) /\ UNCHANGED commands /\ loopAt' = "select"
        /\ \A u \in Threads \ {t} : todo'[u] # todo[u] => Idle(u)
    BY <1>6, LoopReturns
  <2>2. \A u \in Threads : ~Taken(u)' /\ Queued(u)' = Queued(u)
    BY <2>1 DEF Taken, Queued
  <2>3. Queued(t) = {}
    BY <2>1 DEF IInv, WaitersAccounted
  <2>4. ASSUME NEW u \in Threads, NEW i \in Queued(u) PROVE commands'[i].call = Current(u)'
    <3>1. u # t /\ pc[u] = "wait"
      BY <1>2, <2>3
    <3>2. ~Idle(u)
      BY <3>1, IdleCalls
    <3>3. QED
      BY <2>1, <3>1, <3>2 DEF Current
  <2>5. QED
    BY <2>2, <2>4
<1>7. CASE LoopExit \/ RunSetExpires \/ RunWrite \/ RunClose \/ PushSetExpires \/ SelfDoClose
  <2>1. /\ UNCHANGED <<loopCmd, todo>>
        /\ \A i \in 1..Len(commands) : commands'[i] = commands[i]
        /\ \/ Len(commands') = Len(commands)
           \/ /\ Len(commands') = Len(commands) + 1
              /\ commands'[Len(commands) + 1].from = Loop
        /\ \A t \in Threads : Taken(t)' => Taken(t)
    BY <1>7, LoopGoesOn
  <2>2. ASSUME NEW u \in Threads, NEW i \in Queued(u)'
        PROVE  i \in Queued(u) /\ commands'[i] = commands[i]
    BY <1>1, <2>1, ContactAssumption DEF Queued
  <2>3. \A u \in Threads : Current(u)' = Current(u)
    BY <2>1 DEF Current
  <2>4. QED
    BY <2>1, <2>2, <2>3
<1>8. QED
  BY <1>3, <1>4, <1>5, <1>6, <1>7 DEF Next, LoopStep, ThreadStep

\* A sequence of one element has an empty tail.
LEMMA TailOfOne ==
    ASSUME NEW S, NEW s \in Seq(S), Len(s) = 1
    PROVE  Tail(s) = <<>>
<1>1. s # <<>>
  BY EmptySeq
<1>2. Tail(s) \in Seq(S) /\ Len(Tail(s)) = 0
  BY <1>1, TailElements
<1>3. QED
  BY <1>2, EmptySeq

\* What a step does to the list of a writer: it gets a packet with a number
\* nobody had before, or it loses the one it has.
LEMMA WriterLists ==
    ASSUME IInv, WritersWrite, [Next]_vars, NEW w \in Writers
    PROVE  /\ started' \in {started, started + 1}
           /\ \/ todo'[w] = todo[w]
              \/ todo'[w] = <<>>
              \/ /\ StartDelivery(w) /\ todo[w] = <<>> /\ started' = started + 1
                 /\ \E p \in PacketKinds : todo'[w] = <<Write(p, started + 1)>>
<1>1. /\ todo \in [Threads -> Seq(Calls)] /\ w \in Threads
      /\ w \notin Gos /\ w # Reader /\ w # Beater
  BY CallersAssumption DEF IInv, TypeOK, Threads
<1>2. CanGo => NewGo \in Gos
  BY DEF CanGo, NewGo
<1>3. CASE Environment
  <2>1. CASE ReadPacket \/ ReadError \/ StartHeartbeat \/ Tick
    BY <1>1, <2>1 DEF ReadPacket, ReadError, StartHeartbeat, Tick, Start, threadVars, envVars
  <2>2. CASE \E v \in Writers : StartDelivery(v)
    <3>1. PICK v \in Writers : StartDelivery(v)
      BY <2>2
    <3>2. PICK p \in DownPackets : Start(v, <<Write(p, started + 1)>>)
      BY <3>1 DEF StartDelivery
    <3>3. p \in PacketKinds /\ v \in Threads
      BY ContactAssumption DEF Threads
    <3>4. CASE v = w
      BY <1>1, <3>1, <3>2, <3>3, <3>4 DEF Start, Idle
    <3>5. CASE v # w
      BY <1>1, <3>2, <3>5 DEF Start
    <3>6. QED
      BY <3>4, <3>5
  <2>3. QED
    BY <1>3, <2>1, <2>2 DEF Environment
<1>4. ASSUME NEW t \in Threads, Begin(t)
      PROVE  started' = started /\ todo'[w] \in {todo[w], <<>>}
  <2>1. started' = started
    BY <1>4 DEF Begin, envVars
  <2>2. CASE t # w
    <3>1. \/ todo' = todo \/ todo' = [todo EXCEPT ![t] = Tail(@)]
          \/ CanGo /\ todo' = [[todo EXCEPT ![t] = Tail(@)] EXCEPT ![NewGo] = <<PushStats>>]
      BY <1>4 DEF Begin
    <3>2. todo'[w] = todo[w]
      BY <1>1, <1>2, <2>2, <3>1
    <3>3. QED
      BY <2>1, <3>2
  <2>3. CASE t = w
    <3>1. Len(todo[w]) = 1 /\ Current(w).op = "write"
      BY <1>4, <2>3 DEF Begin, Idle, WritersWrite
    <3>2. Tail(todo[w]) = <<>>
      BY <1>1, <3>1, TailOfOne
    <3>3. todo' = [todo EXCEPT ![w] = Tail(@)] \/ todo' = todo
      BY <1>4, <2>3, <3>1 DEF Begin
    <3>4. QED
      BY <1>1, <2>1, <3>2, <3>3
  <2>4. QED
    BY <2>1, <2>2, <2>3
<1>5. ASSUME NEW t \in Threads, Enqueue(t)
      PROVE  started' = started /\ todo'[w] \in {todo[w], <<>>}
  <2>1. started' = started
    BY <1>5 DEF Enqueue, envVars
  <2>2. CASE t # w
    <3>1. todo' = todo \/ todo' = [todo EXCEPT ![t] = Tail(@)]
      BY <1>5 DEF Enqueue
    <3>2. todo'[w] = todo[w]
      BY <1>1, <2>2, <3>1
    <3>3. QED
      BY <2>1, <3>2
  <2>3. CASE t = w
    <3>1. todo[w] # <<>> /\ Len(todo[w]) = 1
      BY <1>5, <2>3 DEF Enqueue, IInv, ThreadInv, WritersWrite
    <3>2. Tail(todo[w]) = <<>>
      BY <1>1, <3>1, TailOfOne
    <3>3. todo' = [todo EXCEPT ![w] = Tail(@)] \/ todo' = todo
      BY <1>5, <2>3 DEF Enqueue
    <3>4. QED
      BY <1>1, <2>1, <3>2, <3>3
  <2>4. QED
    BY <2>1, <2>2, <2>3
<1>6. CASE RunHeartbeat \/ RunBilling \/ FinishClose \/ PushExpectToken
  <2>1. /\ Taken(loopCmd.from) /\ started' = started
        /\ \A u \in Threads \ {loopCmd.from} : todo'[u] # todo[u] => CanGo /\ u = NewGo
    BY <1>6, LoopReturns
  <2>2. w # loopCmd.from
    BY <2>1 DEF WritersWrite, Taken
  <2>3. QED
    BY <1>1, <1>2, <2>1, <2>2
<1>7. CASE LoopExit \/ RunSetExpires \/ RunWrite \/ RunClose \/ PushSetExpires \/ SelfDoClose
  BY <1>7, LoopGoesOn
<1>8. CASE LoopTake \/ UNCHANGED vars
  BY <1>8 DEF LoopTake, vars, threadVars, envVars
<1>9. QED
  BY <1>3, <1>4, <1>5, <1>6, <1>7, <1>8 DEF Next, LoopStep, ThreadStep

\* What a step does to the packets a writer has in the channel: nothing, or the
\* oldest leaves, or the one of its list arrives.
LEMMA WriterCommands ==
    ASSUME IInv, [Next]_vars, NEW w \in Writers
    PROVE  \/ \* they stay where they are
              \A i \in 1..Len(commands') :
                 commands'[i].from = w => i \in 1..Len(commands) /\ commands'[i] = commands[i]
           \/ /\ LoopTake /\ Len(commands) \in Nat /\ Len(commands') = Len(commands) - 1
              /\ commands # <<>> /\ Head(commands) = commands[1]
              /\ \A i \in 1..(Len(commands) - 1) : commands'[i] = commands[i + 1]
           \/ /\ Enqueue(w) /\ Len(commands) \in Nat /\ Len(commands') = Len(commands) + 1
              /\ \A i \in 1..Len(commands) : commands'[i] = commands[i]
              /\ commands'[Len(commands) + 1].from = w
              /\ commands'[Len(commands) + 1].call = Current(w)
<1>1. commands \in Seq(Commands) /\ Len(commands) \in Nat /\ w # Loop
  BY LenProperties, ContactAssumption DEF IInv, TypeOK, Threads
<1>2. CASE Environment \/ (\E t \in Threads : Begin(t)) \/ UNCHANGED vars
  BY <1>2, QuietStep
<1>3. ASSUME NEW t \in Threads, Enqueue(t)
      PROVE  /\ Len(commands') = Len(commands) + 1
             /\ \A i \in 1..Len(commands) : commands'[i] = commands[i]
             /\ commands'[Len(commands) + 1].from = t
             /\ commands'[Len(commands) + 1].call = Current(t)
  <2> DEFINE cmd == [call |-> Current(t), from |-> t]
  <2>1. commands' = Append(commands, cmd)
    BY <1>3 DEF Enqueue
  <2>2. cmd.from = t /\ cmd.call = Current(t)
    OBVIOUS
  <2> HIDE DEF cmd
  <2>3. QED
    BY <1>1, <2>1, <2>2
<1>4. CASE \E t \in Threads : Enqueue(t)
  BY <1>1, <1>3, <1>4
<1>5. CASE LoopTake
  BY <1>1, <1>5, TailElements DEF LoopTake
<1>6. CASE RunHeartbeat \/ RunBilling \/ FinishClose \/ PushExpectToken
  BY <1>6, LoopReturns
<1>7. CASE LoopExit \/ RunSetExpires \/ RunWrite \/ RunClose \/ PushSetExpires \/ SelfDoClose
  BY <1>1, <1>7, LoopGoesOn
<1>8. QED
  BY <1>2, <1>4, <1>5, <1>6, <1>7 DEF Next, LoopStep, ThreadStep

\* Writers only ever write.
LEMMA WritersWriteStep ==
    ASSUME IInv, IInv', WritersWrite, [Next]_vars
    PROVE  WritersWrite'
<1> SUFFICES ASSUME NEW w \in Writers
             PROVE  /\ todo'[w] # <<>> => Len(todo'[w]) = 1 /\ Current(w)'.op = "write"
                    /\ \A i \in 1..Len(commands') :
                          commands'[i].from = w => commands'[i].call.op = "write"
                    /\ loopCmd'.from = w => loopCmd'.call.op = "write"
  BY DEF WritersWrite
<1>1. todo'[w] # <<>> => Len(todo'[w]) = 1 /\ Current(w)'.op = "write"
  <2>1. ASSUME NEW p \in PacketKinds, NEW n \in Nat
        PROVE  <<Write(p, n)>> # <<>> /\ Len(<<Write(p, n)>>) = 1 /\ Head(<<Write(p, n)>>).op = "write"
    BY DEF Write, Call
  <2>2. started \in Nat
    BY DEF IInv, TypeOK
  <2>3. CASE todo'[w] = todo[w] \/ todo'[w] = <<>>
    BY <2>3 DEF WritersWrite, Current
  <2>4. ASSUME NEW p \in PacketKinds, todo'[w] = <<Write(p, started + 1)>>
        PROVE  Len(todo'[w]) = 1 /\ Current(w)'.op = "write"
    BY <2>1, <2>2, <2>4 DEF Current
  <2>5. QED
    BY <2>3, <2>4, WriterLists
<1>2. \A i \in 1..Len(commands') : commands'[i].from = w => commands'[i].call.op = "write"
  <2>1. Enqueue(w) => Current(w).op = "write"
    <3>1. Enqueue(w) => todo[w] # <<>>
      BY DEF Enqueue, IInv, ThreadInv, Threads
    <3>2. QED
      BY <3>1 DEF WritersWrite
  <2>2. QED
    BY <2>1, WriterCommands DEF WritersWrite
<1>3. loopCmd'.from = w => loopCmd'.call.op = "write"
  <2>1. CASE LoopTake
    <3>1. commands \in Seq(Commands) /\ commands # <<>> /\ Head(commands) = commands[1] /\ Len(commands) \in Nat \ {0}
      BY <2>1, TailElements DEF LoopTake, IInv, TypeOK
    <3>2. loopCmd' = loopCmd \/ loopCmd' = commands[1]
      BY <2>1, <3>1 DEF LoopTake, loopVars
    <3>3. QED
      BY <3>1, <3>2 DEF WritersWrite
  <2>2. CASE ~LoopTake
    <3>1. loopCmd' = loopCmd
      BY <2>2, QuietStep, LoopReturns, LoopGoesOn DEF Next, LoopStep, ThreadStep, Enqueue, loopVars
    <3>2. QED
      BY <3>1 DEF WritersWrite
  <2>3. QED
    BY <2>1, <2>2
<1>4. QED
  BY <1>1, <1>2, <1>3

\* Every step keeps the packets of a writer in order.
LEMMA OrderStep ==
    ASSUME IInv, WritersWrite, OrderInv, [Next]_vars, NEW w \in Writers
    PROVE  Order(w)'
<1> USE DEF Order
<1>1. /\ Order(w) /\ started \in Nat /\ w \in Threads
      /\ commands \in Seq(Commands) /\ Len(commands) \in Nat
      /\ Len(written) \in Nat
      /\ \A i \in 1..Len(commands) : commands[i].call.n \in Nat
      /\ \A k \in 1..Len(written) : written[k].n \in Nat
      /\ loopCmd.call.n \in Nat
  <2>1. written \in Seq([by : Threads \cup {Loop}, n : Nat])
    BY DEF IInv, TypeOK
  <2>2. Len(written) \in Nat /\ \A k \in 1..Len(written) : written[k] \in [by : Threads \cup {Loop}, n : Nat]
    BY <2>1, LenProperties, ElementOfSeq
  <2>3. commands \in Seq(Commands) /\ Len(commands) \in Nat /\ \A i \in 1..Len(commands) : commands[i] \in Commands
    BY LenProperties, ElementOfSeq DEF IInv, TypeOK
  <2>4. loopCmd \in Commands /\ started \in Nat
    BY DEF IInv, TypeOK
  <2>5. QED
    BY <2>2, <2>3, <2>4 DEF OrderInv, Commands, Threads
<1>2. todo[w] # <<>> => Current(w).n \in Nat
  <2>1. todo[w] \in Seq(Calls)
    BY <1>1 DEF IInv, TypeOK
  <2>2. todo[w] # <<>> => Head(todo[w]) \in Calls
    BY <2>1, TailElements
  <2>3. QED
    BY <2>2 DEF Calls, Current
<1>3. ASSUME NEW i \in 1..Len(commands), NEW j \in 1..Len(commands),
             i < j, commands[i].from = w, commands[j].from = w
      PROVE  commands[i].call.n < commands[j].call.n
  BY <1>1, <1>3 DEF OrderInChannel
<1>4. CASE LoopTake
  <2>1. /\ UNCHANGED <<todo, started, written>> /\ loopAt = "select"
        /\ Len(commands') = Len(commands) - 1
        /\ Len(commands) # 0
        /\ \A i \in 1..(Len(commands) - 1) : commands'[i] = commands[i + 1]
        /\ Writing(w)' => loopCmd' = commands[1] /\ commands[1].from = w
    <3>1. Head(commands) = commands[1] /\ Len(commands) # 0
      BY <1>1, <1>4, TailElements DEF LoopTake
    <3>2. Len(commands') = Len(commands) - 1 /\ \A i \in 1..(Len(commands) - 1) : commands'[i] = commands[i + 1]
      BY <1>1, <1>4, TailElements DEF LoopTake
    <3>3. QED
      BY <1>4, <3>1, <3>2 DEF LoopTake, Writing, threadVars, outVars, envVars, loopVars
  <2>2. todo'[w] = todo[w] /\ (todo[w] # <<>> => Current(w)' = Current(w)) /\ ~Writing(w)
    BY <2>1 DEF Current, Writing
  <2>3. \A i \in 1..Len(commands') : i + 1 \in 1..Len(commands) /\ commands'[i] = commands[i + 1]
    BY <1>1, <2>1
  <2>4. 1 \in 1..Len(commands)
    BY <1>1, <2>1
  <2>5. QED
    <3>1. OrderInList(w)'
      BY <1>1, <1>2, <2>1, <2>2, <2>3, <2>4 DEF OrderInList
    <3>2. OrderInChannel(w)'
      <4>1. ASSUME NEW i \in 1..Len(commands'), commands'[i].from = w
            PROVE  /\ commands'[i].call.n <= started'
                   /\ todo'[w] # <<>> => commands'[i].call.n < Current(w)'.n
        BY <1>1, <1>2, <2>1, <2>2, <2>3, <2>4, <4>1 DEF OrderInList, OrderInChannel
      <4>2. ASSUME NEW i \in 1..Len(commands'), NEW j \in 1..Len(commands'),
                   i < j, commands'[i].from = w, commands'[j].from = w
            PROVE  commands'[i].call.n < commands'[j].call.n
        <5>1. /\ i + 1 \in 1..Len(commands) /\ commands'[i] = commands[i + 1]
              /\ j + 1 \in 1..Len(commands) /\ commands'[j] = commands[j + 1]
              /\ i + 1 < j + 1
          BY <1>1, <2>1, <2>3, <4>2
        <5>2. QED
          BY <1>3, <4>2, <5>1
      <4>3. QED
        BY <4>1, <4>2 DEF OrderInChannel
    <3>3. OrderInLoop(w)'
      <4>1. ASSUME Writing(w)', NEW i \in 1..Len(commands'), commands'[i].from = w
            PROVE  loopCmd'.call.n < commands'[i].call.n
        <5>1. /\ i + 1 \in 1..Len(commands) /\ commands'[i] = commands[i + 1] /\ 1 < i + 1
          BY <1>1, <2>3
        <5>2. QED
          BY <1>3, <2>1, <2>4, <4>1, <5>1
      <4>2. Writing(w)' => /\ loopCmd'.call.n <= started'
                           /\ todo'[w] # <<>> => loopCmd'.call.n < Current(w)'.n
        BY <1>1, <2>1, <2>2, <2>4 DEF OrderInChannel
      <4>3. QED
        BY <4>1, <4>2 DEF OrderInLoop
    <3>4. OrderOnWire(w)'
      BY <1>1, <1>2, <2>1, <2>2, <2>3, <2>4 DEF OrderInList, OrderInChannel, OrderInLoop, OrderOnWire
    <3>5. QED
      BY <3>1, <3>2, <3>3, <3>4
<1>5. CASE Enqueue(w)
  <2>1. /\ todo[w] # <<>> /\ UNCHANGED <<started, written, loopAt, loopCmd>>
        /\ todo'[w] = <<>>
    <3>1. todo[w] # <<>> /\ Len(todo[w]) = 1 /\ Current(w).op = "write"
      BY <1>1, <1>5 DEF Enqueue, IInv, ThreadInv, WritersWrite
    <3>2. todo' = [todo EXCEPT ![w] = Tail(@)]
      BY <1>5, <3>1 DEF Enqueue, Blocking
    <3>3. todo \in [Threads -> Seq(Calls)]
      BY DEF IInv, TypeOK
    <3>4. Tail(todo[w]) = <<>>
      BY <1>1, <3>1, <3>3, TailOfOne
    <3>5. QED
      BY <1>1, <1>5, <3>1, <3>2, <3>3, <3>4 DEF Enqueue, loopVars, outVars, envVars
  <2>2. /\ Len(commands') = Len(commands) + 1
        /\ \A i \in 1..Len(commands) : commands'[i] = commands[i]
        /\ commands'[Len(commands) + 1].call = Current(w)
    <3> DEFINE cmd == [call |-> Current(w), from |-> w]
    <3>1. commands' = Append(commands, cmd) /\ cmd.call = Current(w)
      BY <1>5 DEF Enqueue
    <3> HIDE DEF cmd
    <3>2. QED
      BY <1>1, <3>1
  <2>3. \A i \in 1..Len(commands') : i \in 1..Len(commands) \/ i = Len(commands) + 1
    BY <1>1, <2>2
  <2>4. Writing(w)' <=> Writing(w)
    BY <2>1 DEF Writing
  <2>5. QED
    <3>1. OrderInList(w)'
      BY <1>1, <1>2, <2>1, <2>2, <2>3, <2>4 DEF OrderInList
    <3>2. OrderInChannel(w)'
      <4>1. ASSUME NEW i \in 1..Len(commands'), commands'[i].from = w
            PROVE  /\ commands'[i].call.n <= started'
                   /\ todo'[w] # <<>> => commands'[i].call.n < Current(w)'.n
        BY <1>1, <1>2, <2>1, <2>2, <2>3, <2>4, <4>1 DEF OrderInList, OrderInChannel
      <4>2. ASSUME NEW i \in 1..Len(commands'), NEW j \in 1..Len(commands'),
                   i < j, commands'[i].from = w, commands'[j].from = w
            PROVE  commands'[i].call.n < commands'[j].call.n
        BY <1>1, <1>2, <2>1, <2>2, <2>3, <2>4, <1>3, <4>2, SMTT(30) DEF OrderInList, OrderInChannel
      <4>3. QED
        BY <4>1, <4>2 DEF OrderInChannel
    <3>3. OrderInLoop(w)'
      BY <1>1, <1>2, <1>3, <2>1, <2>2, <2>3, <2>4 DEF OrderInList, OrderInChannel, OrderInLoop
    <3>4. OrderOnWire(w)'
      BY <1>1, <1>2, <2>1, <2>2, <2>3, <2>4, SMTT(30) DEF OrderInList, OrderInChannel, OrderInLoop, OrderOnWire
    <3>5. QED
      BY <3>1, <3>2, <3>3, <3>4
<1>6. CASE ~LoopTake /\ ~Enqueue(w)
  <2>1. \A i \in 1..Len(commands') :
           commands'[i].from = w => i \in 1..Len(commands) /\ commands'[i] = commands[i]
    BY <1>6, WriterCommands
  <2>2. /\ started' \in {started, started + 1}
        /\ \/ todo'[w] = todo[w] /\ (todo[w] # <<>> => Current(w)' = Current(w))
           \/ todo'[w] = <<>>
           \/ Current(w)'.n = started + 1 /\ started' = started + 1
    <3>1. \A p \in PacketKinds : Head(<<Write(p, started + 1)>>).n = started + 1
      BY DEF Write, Call
    <3>2. QED
      BY <3>1, WriterLists DEF Current
  <2>3. \/ /\ written' = written /\ (Writing(w)' => Writing(w)) /\ loopCmd' = loopCmd
        \/ RunWrite
    <3>1. CASE RunHeartbeat \/ RunBilling \/ FinishClose \/ PushExpectToken
      BY <3>1, LoopReturns DEF Writing
    <3>2. CASE Environment \/ (\E t \in Threads : Begin(t)) \/ UNCHANGED vars
      BY <3>2, QuietStep DEF Writing
    <3>3. CASE \E t \in Threads : Enqueue(t)
      BY <3>3 DEF Enqueue, Writing, loopVars, outVars
    <3>4. CASE LoopExit \/ RunSetExpires \/ RunClose \/ PushSetExpires \/ SelfDoClose
      BY <3>4 DEF LoopExit, RunSetExpires, RunClose, PushSetExpires, SelfDoClose, Writing, outVars
    <3>5. QED
      BY <1>6, <3>1, <3>2, <3>3, <3>4 DEF Next, LoopStep, ThreadStep
  <2>4. CASE written' = written /\ (Writing(w)' => Writing(w)) /\ loopCmd' = loopCmd
    <3>1. OrderInList(w)'
      BY <1>1, <1>2, <2>1, <2>2, <2>4 DEF OrderInList
    <3>2. OrderInChannel(w)'
      <4>1. ASSUME NEW i \in 1..Len(commands'), commands'[i].from = w
            PROVE  /\ commands'[i].call.n <= started'
                   /\ todo'[w] # <<>> => commands'[i].call.n < Current(w)'.n
        BY <1>1, <1>2, <2>1, <2>2, <2>4, <4>1, SMTT(30) DEF OrderInList, OrderInChannel
      <4>2. ASSUME NEW i \in 1..Len(commands'), NEW j \in 1..Len(commands'),
                   i < j, commands'[i].from = w, commands'[j].from = w
            PROVE  commands'[i].call.n < commands'[j].call.n
        BY <1>1, <1>2, <2>1, <2>2, <2>4, <1>3, <4>2 DEF OrderInList, OrderInChannel
      <4>3. QED
        BY <4>1, <4>2 DEF OrderInChannel
    <3>3. OrderInLoop(w)'
      BY <1>1, <1>2, <2>1, <2>2, <2>4 DEF OrderInList, OrderInChannel, OrderInLoop
    <3>4. OrderOnWire(w)'
      BY <1>1, <1>2, <2>1, <2>2, <2>4 DEF OrderInList, OrderInChannel, OrderInLoop, OrderOnWire
    <3>5. QED
      BY <3>1, <3>2, <3>3, <3>4
  <2>5. CASE RunWrite
    <3> DEFINE e == [by |-> loopCmd.from, n |-> loopCmd.call.n]
    <3>1. /\ written' = Append(written, e) /\ e.by = loopCmd.from /\ e.n = loopCmd.call.n
          /\ loopAt = "run" /\ ~Writing(w)'
          /\ UNCHANGED <<todo, started>>
      BY <2>5 DEF RunWrite, Running, Writing, threadVars, envVars
    <3> HIDE DEF e
    <3>2. /\ Len(written') = Len(written) + 1 /\ written'[Len(written) + 1] = e
          /\ \A k \in 1..Len(written) : written'[k] = written[k]
      <4>1. written \in Seq([by : Threads \cup {Loop}, n : Nat])
        BY DEF IInv, TypeOK
      <4>2. QED
        BY <3>1, <4>1
    <3>3. \A k \in 1..Len(written') : k \in 1..Len(written) \/ k = Len(written) + 1
      BY <1>1, <3>2
    <3>4. e.by = w => Writing(w)
      BY <3>1 DEF Writing
    <3>5. todo'[w] = todo[w] /\ Current(w)' = Current(w)
      BY <3>1 DEF Current
    <3>6. ASSUME NEW k \in 1..Len(written'), written'[k].by = w
          PROVE  /\ written'[k].n <= started'
                 /\ todo'[w] # <<>> => written'[k].n < Current(w)'.n
                 /\ \A i \in 1..Len(commands') :
                       commands'[i].from = w => written'[k].n < commands'[i].call.n
                 /\ \A l \in 1..Len(written') :
                       k < l /\ written'[l].by = w => written'[k].n < written'[l].n
      <4>1. started' = started
        BY <3>1
      <4>2. CASE k \in 1..Len(written)
        <5>1. written'[k] = written[k] /\ written[k].by = w
          BY <3>2, <3>6, <4>2
        <5>2. /\ written[k].n <= started
              /\ todo[w] # <<>> => written[k].n < Current(w).n
              /\ \A i \in 1..Len(commands) : commands[i].from = w => written[k].n < commands[i].call.n
              /\ Writing(w) => written[k].n < loopCmd.call.n
              /\ \A l \in 1..Len(written) : k < l /\ written[l].by = w => written[k].n < written[l].n
          BY <1>1, <4>2, <5>1 DEF OrderOnWire
        <5>3. ASSUME NEW l \in 1..Len(written'), k < l, written'[l].by = w
              PROVE  written[k].n < written'[l].n
          <6>1. CASE l \in 1..Len(written)
            BY <3>2, <5>2, <5>3, <6>1
          <6>2. CASE l = Len(written) + 1
            BY <3>1, <3>2, <3>4, <5>2, <5>3, <6>2
          <6>3. QED
            BY <3>3, <6>1, <6>2
        <5>4. \A i \in 1..Len(commands') : commands'[i].from = w => written[k].n < commands'[i].call.n
          BY <2>1, <5>2
        <5>5. QED
          BY <3>5, <4>1, <5>1, <5>2, <5>3, <5>4
      <4>3. CASE k = Len(written) + 1
        <5>1. written'[k].n = loopCmd.call.n /\ Writing(w)
          BY <3>1, <3>2, <3>4, <3>6, <4>3
        <5>2. /\ loopCmd.call.n <= started
              /\ todo[w] # <<>> => loopCmd.call.n < Current(w).n
              /\ \A i \in 1..Len(commands) : commands[i].from = w => loopCmd.call.n < commands[i].call.n
          BY <1>1, <5>1 DEF OrderInLoop
        <5>3. \A i \in 1..Len(commands') : commands'[i].from = w => loopCmd.call.n < commands'[i].call.n
          BY <2>1, <5>2
        <5>4. \A l \in 1..Len(written') : ~(k < l)
          BY <1>1, <3>2, <4>3
        <5>5. QED
          BY <3>5, <4>1, <5>1, <5>2, <5>3, <5>4
      <4>4. QED
        BY <3>3, <4>2, <4>3
    <3>7. OrderInList(w)' /\ OrderInChannel(w)' /\ OrderInLoop(w)'
      BY <1>1, <2>1, <3>1, <3>5 DEF OrderInList, OrderInChannel, OrderInLoop
    <3>8. OrderOnWire(w)'
      BY <3>1, <3>6 DEF OrderOnWire
    <3>9. QED
      BY <3>7, <3>8
  <2>6. QED
    BY <2>3, <2>4, <2>5
<1>7. QED
  BY <1>4, <1>5, <1>6

\* What a goroutine goes on to do after its packet: the subscription to the
\* billing topic is looked up if it was this packet, and not otherwise.
LEMMA FollowUpBilling ==
    /\ AfterPush("billSub") = <<Look("billSub")>>
    /\ \A p \in PacketKinds \ {"billSub"} : \A i \in 1..Len(AfterPush(p)) :
          AfterPush(p)[i].p # "billSub" \/ AfterPush(p)[i].op = "write"
    /\ \A i \in 1..Len(ErrorAndDisconnect) : ErrorAndDisconnect[i].p # "billSub"
<1>1. AfterPush("billSub") = <<Look("billSub")>>
  BY DEF AfterPush
<1>2. ASSUME NEW p \in PacketKinds \ {"billSub"}, NEW i \in 1..Len(AfterPush(p))
      PROVE  AfterPush(p)[i].p # "billSub" \/ AfterPush(p)[i].op = "write"
  <2>1. CASE p \in {"goodConnect", "badConnect", "plain", "error"}
    BY <1>2, <2>1 DEF AfterPush
  <2>2. CASE p = "disconnect"
    <3>1. AfterPush(p) = <<Write("disconnect", 0), DoClose>>
      BY <2>2 DEF AfterPush
    <3>2. i \in 1..2
      BY <1>2, <3>1
    <3>3. QED
      BY <3>1, <3>2 DEF Write, DoClose, Call
  <2>3. CASE p = "ping"
    <3>1. AfterPush(p) = <<Write("ping", 0)>>
      BY <2>3 DEF AfterPush
    <3>2. i \in 1..1
      BY <1>2, <3>1
    <3>3. QED
      BY <3>1, <3>2 DEF Write, Call
  <2>4. CASE p \notin {"goodConnect", "badConnect", "plain", "error", "disconnect", "ping"}
    <3>1. AfterPush(p) = <<Look(p)>>
      BY <2>4 DEF AfterPush
    <3>2. i \in 1..1
      BY <1>2, <3>1
    <3>3. QED
      BY <1>2, <3>1, <3>2 DEF Look, Call
  <2>5. QED
    BY <2>1, <2>2, <2>3, <2>4
<1>3. ASSUME NEW i \in 1..Len(ErrorAndDisconnect)
      PROVE  ErrorAndDisconnect[i].p # "billSub"
  <2>1. i \in 1..2
    BY <1>3 DEF ErrorAndDisconnect
  <2>2. QED
    BY <2>1 DEF ErrorAndDisconnect, Write, DoClose, Call
<1>4. QED
  BY <1>1, <1>2, <1>3

\* A step that hands nobody the subscription to the billing topic who had it
\* not, and does not look it up, keeps it in one place.
LEMMA BillKept ==
    ASSUME IInv, IInv', BillInv, looked' = looked, token => token',
           \A t \in Threads : \A i \in 1..Len(todo'[t]) :
              Billing(t, i)' => i = 1 /\ Len(todo'[t]) = 1 /\ todo[t] # <<>> /\ Billing(t, 1)
    PROVE  BillInv'
<1>1. ASSUME NEW t \in Threads, todo[t] # <<>> PROVE 1 \in 1..Len(todo[t])
  BY <1>1, TailElements DEF IInv, TypeOK
<1>2. ASSUME NEW t \in Threads, NEW i \in 1..Len(todo'[t]), Billing(t, i)'
      PROVE  /\ token' /\ i = 1 /\ Len(todo'[t]) = 1
             /\ \A k \in 1..Len(looked) : looked[k] # "billSub"
  BY <1>1, <1>2 DEF BillInv
<1>3. ASSUME NEW t \in Threads, todo'[t] # <<>>, Billing(t, 1)'
      PROVE  todo[t] # <<>> /\ Billing(t, 1)
  <2>1. 1 \in 1..Len(todo'[t])
    BY <1>3, TailElements DEF IInv, TypeOK
  <2>2. QED
    BY <1>3, <2>1
<1>4. QED
  BY <1>2, <1>3 DEF BillInv

\* A list handed back to a goroutine, where its new part has no subscription to
\* the billing topic in it, has none if the rest had none.
LEMMA NoBillInReturn ==
    ASSUME IInv, BillInv, NEW t \in Threads, todo[t] # <<>>, NEW f \in Seq(Calls),
           \A i \in 1..Len(f) : f[i].op \in {"push", "pushStats", "look"} => f[i].p # "billSub",
           todo'[t] = f \o Tail(todo[t])
    PROVE  \A i \in 1..Len(todo'[t]) : ~Billing(t, i)'
<1>1. /\ todo[t] \in Seq(Calls) /\ Len(f) \in Nat
      /\ Tail(todo[t]) \in Seq(Calls) /\ Len(todo[t]) \in Nat \ {0}
      /\ Len(Tail(todo[t])) = Len(todo[t]) - 1
      /\ \A i \in 1..(Len(todo[t]) - 1) : Tail(todo[t])[i] = todo[t][i + 1]
  BY TailElements, LenProperties DEF IInv, TypeOK
<1>2. /\ Len(todo'[t]) = Len(f) + Len(todo[t]) - 1
      /\ \A i \in 1..Len(todo'[t]) :
            todo'[t][i] = IF i <= Len(f) THEN f[i] ELSE Tail(todo[t])[i - Len(f)]
  BY <1>1, ConcatProperties
<1>3. ASSUME NEW i \in 1..Len(todo'[t]) PROVE ~Billing(t, i)'
  <2>1. CASE i <= Len(f)
    <3>1. i \in 1..Len(f) /\ todo'[t][i] = f[i]
      BY <1>1, <1>2, <2>1
    <3>2. QED
      BY <3>1 DEF Billing
  <2>2. CASE i > Len(f)
    <3> DEFINE k == i - Len(f) + 1
    <3>1. k \in 1..Len(todo[t]) /\ k # 1 /\ k - 1 \in 1..(Len(todo[t]) - 1) /\ i - Len(f) = k - 1
      BY <1>1, <1>2, <2>2
    <3>2. todo'[t][i] = Tail(todo[t])[i - Len(f)]
      BY <1>1, <1>2, <2>2
    <3>3. todo'[t][i] = todo[t][k]
      BY <1>1, <3>1, <3>2
    <3>4. ~Billing(t, k)
      BY <3>1 DEF BillInv
    <3> HIDE DEF k
    <3>5. QED
      BY <3>3, <3>4 DEF Billing
  <2>3. QED
    BY <1>1, <1>2, <2>1, <2>2
<1>4. QED
  BY <1>3

\* What the environment starts is not the subscription to the billing topic.
LEMMA EnvironmentBills ==
    ASSUME IInv, Environment, NEW t \in Threads, todo'[t] # todo[t]
    PROVE  \A i \in 1..Len(todo'[t]) : ~Billing(t, i)'
<1>1. todo \in [Threads -> Seq(Calls)]
  BY DEF IInv, TypeOK
<1>2. CASE ReadPacket
  <2>1. PICK p \in UpPackets : todo' = [todo EXCEPT ![Reader] = <<Push(p)>>]
    BY <1>2 DEF ReadPacket, Start
  <2>2. p # "billSub" /\ todo'[t] = <<Push(p)>>
    BY <1>1, <2>1, CallersAssumption
  <2>3. QED
    BY <2>2 DEF Billing, Push, Call
<1>3. CASE ReadError
  <2>1. todo'[t] = <<DoClose, DoClose>>
    BY <1>1, <1>3 DEF ReadError
  <2>2. ASSUME NEW i \in 1..Len(todo'[t]) PROVE ~Billing(t, i)'
    <3>1. i \in 1..2
      BY <2>1, <2>2
    <3>2. QED
      BY <2>1, <3>1 DEF Billing, DoClose, Call
  <2>3. QED
    BY <2>2
<1>4. CASE StartHeartbeat
  <2>1. todo'[t] = <<Call("beat", "plain", now)>>
    BY <1>1, <1>4 DEF StartHeartbeat, Start
  <2>2. QED
    BY <2>1 DEF Billing, Call
<1>5. CASE \E w \in Writers : StartDelivery(w)
  <2>1. PICK w \in Writers, p \in DownPackets : todo' = [todo EXCEPT ![w] = <<Write(p, started + 1)>>]
    BY <1>5 DEF StartDelivery, Start
  <2>2. todo'[t] = <<Write(p, started + 1)>>
    BY <1>1, <2>1
  <2>3. QED
    BY <2>2 DEF Billing, Write, Call
<1>6. CASE Tick
  BY <1>6 DEF Tick, threadVars
<1>7. QED
  BY <1>2, <1>3, <1>4, <1>5, <1>6 DEF Environment

\* Starting a call keeps the subscription to the billing topic in one place:
\* looking it up ends it.
LEMMA BeginBills ==
    ASSUME IInv, IInv', BillInv, NEW t \in Threads, Begin(t)
    PROVE  BillInv'
<1>1. /\ pc[t] = "call" /\ todo[t] # <<>> /\ todo \in [Threads -> Seq(Calls)]
      /\ looked \in Seq(PacketKinds) /\ Len(looked) \in Nat /\ token' = token
  BY LenProperties DEF Begin, Idle, stateVars, IInv, TypeOK
<1>2. /\ Current(t) = todo[t][1] /\ 1 \in 1..Len(todo[t])
      /\ Tail(todo[t]) \in Seq(Calls)
      /\ todo[t] \in Seq(Calls)
  BY <1>1, TailElements DEF Current
<1>3. /\ Tail(todo[t]) = <<>> \o Tail(todo[t]) /\ <<>> \in Seq(Calls)
      /\ \A i \in 1..Len(<<>>) : <<>>[i].op \in {"push", "pushStats", "look"} => <<>>[i].p # "billSub"
  BY <1>2, EmptySeq
<1>4. ASSUME todo'[t] = Tail(todo[t]) PROVE \A i \in 1..Len(todo'[t]) : ~Billing(t, i)'
  BY <1>1, <1>3, <1>4, NoBillInReturn
<1>5. CASE UNCHANGED <<todo, looked>>
  <2>1. \A u \in Threads : \A i \in 1..Len(todo'[u]) :
           Billing(u, i)' => i = 1 /\ Len(todo'[u]) = 1 /\ todo[u] # <<>> /\ Billing(u, 1)
    BY <1>1, <1>5, EmptySeq DEF BillInv, Billing
  <2>2. QED
    BY <1>1, <1>5, <2>1, BillKept
<1>6. CASE todo' = [todo EXCEPT ![t] = Tail(@)] /\ looked' = looked
  <2>1. \A u \in Threads \ {t} : todo'[u] = todo[u]
    BY <1>1, <1>6
  <2>2. \A u \in Threads : \A i \in 1..Len(todo'[u]) :
           Billing(u, i)' => i = 1 /\ Len(todo'[u]) = 1 /\ todo[u] # <<>> /\ Billing(u, 1)
    BY <1>1, <1>4, <1>6, <2>1, EmptySeq DEF BillInv, Billing
  <2>3. QED
    BY <1>1, <1>6, <2>2, BillKept
<1>7. CASE /\ CanGo /\ looked' = looked
           /\ todo' = [[todo EXCEPT ![t] = Tail(@)] EXCEPT ![NewGo] = <<PushStats>>]
  <2>1. PICK g \in Threads : g = NewGo /\ Idle(g) /\ g # t
    BY <1>1, <1>7, NewGoIsIdle DEF Idle
  <2>2. /\ todo'[t] = Tail(todo[t]) /\ todo'[g] = <<PushStats>>
        /\ \A u \in Threads \ {t, g} : todo'[u] = todo[u]
    BY <1>1, <1>7, <2>1
  <2>3. \A i \in 1..Len(todo'[g]) : ~Billing(g, i)'
    <3>1. \A i \in 1..Len(<<PushStats>>) : <<PushStats>>[i] = PushStats
      OBVIOUS
    <3>2. QED
      BY <2>2, <3>1 DEF Billing, PushStats, Call
  <2>4. ASSUME NEW u \in Threads, NEW i \in 1..Len(todo'[u]), Billing(u, i)'
        PROVE  i = 1 /\ Len(todo'[u]) = 1 /\ todo[u] # <<>> /\ Billing(u, 1)
    <3>1. u \in Threads \ {t, g}
      BY <1>4, <2>2, <2>3, <2>4
    <3>2. todo'[u] = todo[u] /\ i \in 1..Len(todo[u]) /\ Billing(u, i)
      BY <2>2, <2>4, <3>1 DEF Billing
    <3>3. QED
      BY <1>1, <3>2, EmptySeq DEF BillInv
  <2>5. QED
    BY <1>1, <1>7, <2>4, BillKept
<1>8. CASE /\ Current(t).op = "look" /\ looked' = Append(looked, Current(t).p)
           /\ todo' = [todo EXCEPT ![t] = Tail(@)]
  <2>1. \A u \in Threads \ {t} : todo'[u] = todo[u]
    BY <1>1, <1>8
  <2>2. todo'[t] = Tail(todo[t])
    BY <1>1, <1>8
  <2>3. /\ Len(looked') = Len(looked) + 1 /\ looked'[Len(looked) + 1] = Current(t).p
        /\ \A k \in 1..Len(looked) : looked'[k] = looked[k]
    BY <1>1, <1>8
  <2>4. \A k \in 1..Len(looked') : k \in 1..Len(looked) \/ k = Len(looked) + 1
    BY <1>1, <2>3
  <2>5. CASE Current(t).p = "billSub"
    <3>1. Billing(t, 1)
      BY <1>2, <1>8, <2>5 DEF Billing
    <3>2. token /\ \A k \in 1..Len(looked) : looked[k] # "billSub"
      BY <1>2, <3>1 DEF BillInv
    <3>3. ASSUME NEW u \in Threads, NEW i \in 1..Len(todo'[u]) PROVE ~Billing(u, i)'
      <4>1. CASE u = t
        BY <1>4, <2>2, <3>3, <4>1
      <4>2. CASE u # t
        <5>1. i \in 1..Len(todo[u]) /\ todo'[u] = todo[u]
          BY <2>1, <3>3, <4>2
        <5>2. Billing(u, i) => i = 1 /\ todo[u] # <<>>
          BY <1>1, <5>1, EmptySeq DEF BillInv
        <5>3. ~Billing(u, i)
          BY <1>1, <3>1, <4>2, <5>1, <5>2 DEF BillInv
        <5>4. QED
          BY <5>1, <5>3 DEF Billing
      <4>3. QED
        BY <4>1, <4>2
    <3>4. \A u \in Threads : todo'[u] # <<>> => 1 \in 1..Len(todo'[u])
      BY TailElements DEF IInv, TypeOK
    <3>5. QED
      BY <1>1, <2>3, <2>4, <3>2, <3>3, <3>4 DEF BillInv
  <2>6. CASE Current(t).p # "billSub"
    <3>1. ASSUME NEW u \in Threads, NEW i \in 1..Len(todo'[u]), Billing(u, i)'
          PROVE  todo'[u] = todo[u] /\ i \in 1..Len(todo[u]) /\ Billing(u, i)
      BY <1>4, <2>1, <2>2, <3>1 DEF Billing
    <3>2. \A u \in Threads : todo'[u] # <<>> => 1 \in 1..Len(todo'[u])
      BY TailElements DEF IInv, TypeOK
    <3>3. \A k \in 1..Len(looked') : looked'[k] = "billSub" => k \in 1..Len(looked) /\ looked[k] = "billSub"
      BY <2>3, <2>4, <2>6
    <3>4. ASSUME NEW u \in Threads, NEW i \in 1..Len(todo'[u]), Billing(u, i)'
          PROVE  /\ token' /\ i = 1 /\ Len(todo'[u]) = 1
                 /\ \A k \in 1..Len(looked') : looked'[k] # "billSub"
      BY <1>1, <3>1, <3>3, <3>4 DEF BillInv
    <3>5. ASSUME NEW u \in Threads, NEW v \in Threads,
                 todo'[u] # <<>>, todo'[v] # <<>>, Billing(u, 1)', Billing(v, 1)'
          PROVE  u = v
      <4>1. /\ Billing(u, 1) /\ todo[u] # <<>>
            /\ Billing(v, 1) /\ todo[v] # <<>>
        BY <3>1, <3>2, <3>5
      <4>2. QED
        BY <4>1 DEF BillInv
    <3>6. \A k \in 1..Len(looked') : looked'[k] = "billSub" => token'
      BY <1>1, <3>3 DEF BillInv
    <3>7. \A k, l \in 1..Len(looked') : looked'[k] = "billSub" /\ looked'[l] = "billSub" => k = l
      BY <3>3 DEF BillInv
    <3>8. QED
      BY <3>4, <3>5, <3>6, <3>7 DEF BillInv
  <2>7. QED
    BY <2>5, <2>6
<1>9. QED
  BY <1>5, <1>6, <1>7, <1>8 DEF Begin

\* The steps of the loop that end a call keep the subscription to the billing
\* topic in one place, and the check-in makes the only one.
LEMMA ReturnBills ==
    ASSUME IInv, IInv', CommandsAreCalls, BillInv,
           RunHeartbeat \/ RunBilling \/ FinishClose \/ PushExpectToken
    PROVE  BillInv'
<1> DEFINE t == loopCmd.from
           p == loopCmd.call.p
<1>1. /\ t \in Threads /\ Taken(t) /\ todo[t] # <<>> /\ looked' = looked
      /\ loopCmd.call = Current(t)
  BY LoopReturns DEF CommandsAreCalls
<1>2. todo \in [Threads -> Seq(Calls)] /\ token \in BOOLEAN /\ p \in PacketKinds
  BY DEF IInv, TypeOK, Commands
<1>3. /\ 1 \in 1..Len(todo[t]) /\ Current(t) = todo[t][1] /\ Tail(todo[t]) \in Seq(Calls)
  BY <1>1, <1>2, TailElements DEF Current
<1>4. ASSUME NEW u \in Threads, NEW i \in 1..Len(todo'[u]), Billing(u, i)', todo'[u] = todo[u]
      PROVE  i = 1 /\ Len(todo'[u]) = 1 /\ todo[u] # <<>> /\ Billing(u, 1)
  <2>1. i \in 1..Len(todo[u]) /\ Billing(u, i)
    BY <1>4 DEF Billing
  <2>2. QED
    BY <1>2, <1>4, <2>1, EmptySeq DEF BillInv
<1>5. CASE RunHeartbeat \/ RunBilling \/ FinishClose
  <2>1. /\ token' = token
        /\ \A u \in Threads \ {t} : todo'[u] = todo[u]
    <3>1. /\ token' = token
          /\ \E f : Return(f)
      <4>1. CASE RunHeartbeat
        BY <4>1 DEF RunHeartbeat, stateVars
      <4>2. CASE RunBilling
        BY <4>2 DEF RunBilling
      <4>3. CASE FinishClose
        BY <4>3 DEF FinishClose
      <4>4. QED
        BY <1>5, <4>1, <4>2, <4>3
    <3>2. QED
      BY <1>2, <3>1 DEF Return
  <2>2. PICK f \in Seq(Calls) :
           /\ todo'[t] = f \o Tail(todo[t])
           /\ \A i \in 1..Len(f) : f[i].op \in {"push", "pushStats", "look"} => f[i].p # "billSub"
    <3>1. CASE RunHeartbeat
      <4> DEFINE when == loopCmd.call.n
                 bill == IF nextBilling < when THEN <<Call("bill", "stats", 0)>> ELSE <<>>
                 close == IF ~IsGuru /\ expires < when THEN <<DoClose>> ELSE <<>>
      <4>1. /\ Call("bill", "stats", 0).p # "billSub" /\ DoClose.p # "billSub"
            /\ Call("bill", "stats", 0) \in Calls /\ DoClose \in Calls
        BY DEF Call, DoClose, Calls, SendOps, PacketKinds
      <4>2. /\ bill \in Seq(Calls) /\ \A i \in 1..Len(bill) : bill[i].p # "billSub"
            /\ close \in Seq(Calls) /\ \A i \in 1..Len(close) : close[i].p # "billSub"
        BY <4>1, EmptySeq
      <4> HIDE DEF bill, close
      <4>3. /\ bill \o close \in Seq(Calls)
            /\ \A i \in 1..Len(bill \o close) : (bill \o close)[i].p # "billSub"
        BY <4>2, ConcatProperties, LenProperties
      <4>4. <<>> \in Seq(Calls) /\ \A i \in 1..Len(<<>>) : <<>>[i].p # "billSub"
        BY EmptySeq
      <4>5. todo'[t] = (IF token THEN bill \o close ELSE <<>>) \o Tail(todo[t])
        BY <1>1, <1>2, <3>1 DEF RunHeartbeat, Return, bill, close
      <4>6. QED
        BY <4>3, <4>4, <4>5
    <3>2. CASE RunBilling \/ FinishClose
      <4>1. GoStats \in Calls /\ GoStats.p # "billSub"
        BY DEF GoStats, Call, Calls, SendOps, LocalOps, PacketKinds
      <4>2. /\ <<>> \in Seq(Calls) /\ \A i \in 1..Len(<<>>) : <<>>[i].p # "billSub"
            /\ <<GoStats>> \in Seq(Calls) /\ \A i \in 1..Len(<<GoStats>>) : <<GoStats>>[i].p # "billSub"
        BY <4>1, EmptySeq
      <4>3. todo'[t] = <<>> \o Tail(todo[t]) \/ todo'[t] = <<GoStats>> \o Tail(todo[t])
        BY <1>1, <1>2, <3>2 DEF RunBilling, FinishClose, Return
      <4>4. QED
        BY <4>2, <4>3
    <3>3. QED
      BY <1>5, <3>1, <3>2
  <2>3. \A u \in Threads : u = t => \A i \in 1..Len(todo'[u]) : ~Billing(u, i)'
    <3>1. PICK u \in Threads : u = t
      BY <1>1
    <3>2. \A i \in 1..Len(todo'[u]) : ~Billing(u, i)'
      BY <1>1, <2>2, <3>1, NoBillInReturn
    <3>3. QED
      BY <3>1, <3>2
  <2>4. \A u \in Threads : \A i \in 1..Len(todo'[u]) :
           Billing(u, i)' => i = 1 /\ Len(todo'[u]) = 1 /\ todo[u] # <<>> /\ Billing(u, 1)
    BY <1>4, <2>1, <2>3
  <2>5. QED
    BY <1>1, <2>1, <2>4, BillKept
<1>6. CASE PushExpectToken
  <2>1. loopCmd.call.op \in {"push", "pushStats"}
    BY <1>6 DEF PushExpectToken, Running, IInv, LoopInv
  <2>2. AfterPush(p) \in Seq(Calls)
    BY <1>2, FollowUps
  <2>3. CASE p = "billSub"
    <3>1. Billing(t, 1)
      BY <1>1, <1>3, <2>1, <2>3 DEF Billing
    <3>2. token /\ Len(todo[t]) = 1
      BY <1>1, <1>3, <3>1 DEF BillInv
    <3>3. todo' = [todo EXCEPT ![t] = AfterPush(p) \o Tail(@)] /\ token' = token
      BY <1>6, <3>2 DEF PushExpectToken, NotCheckedIn
    <3>4. todo'[t] = <<Look("billSub")>>
      <4>1. Tail(todo[t]) = <<>>
        BY <1>1, <1>2, <3>2, TailOfOne
      <4>2. AfterPush(p) = <<Look("billSub")>> /\ AfterPush(p) \o <<>> = AfterPush(p)
        BY <2>2, <2>3, FollowUpBilling, ConcatEmptySeq
      <4>3. QED
        BY <1>1, <1>2, <3>3, <4>1, <4>2
    <3>5. \A u \in Threads \ {t} : todo'[u] = todo[u]
      BY <1>2, <3>3
    <3>6. \A i \in 1..Len(todo'[t]) : i = 1 /\ Len(todo'[t]) = 1
      BY <3>4
    <3>7. \A u \in Threads : \A i \in 1..Len(todo'[u]) :
             Billing(u, i)' => i = 1 /\ Len(todo'[u]) = 1 /\ todo[u] # <<>> /\ Billing(u, 1)
      BY <1>1, <1>4, <3>1, <3>5, <3>6
    <3>8. QED
      BY <1>1, <3>3, <3>7, BillKept
  <2>4. CASE p # "billSub"
    <3>1. \A i \in 1..Len(AfterPush(p)) :
             AfterPush(p)[i].op \in {"push", "pushStats", "look"} => AfterPush(p)[i].p # "billSub"
      BY <1>2, <2>4, FollowUpBilling
    <3>2. ASSUME NEW u \in Threads, u = t, todo'[u] = AfterPush(p) \o Tail(todo[u])
          PROVE  \A i \in 1..Len(todo'[u]) : ~Billing(u, i)'
      BY <1>1, <2>2, <3>1, <3>2, NoBillInReturn
    <3>3. CASE ~NotCheckedIn
      <4>1. todo' = [todo EXCEPT ![t] = AfterPush(p) \o Tail(@)] /\ token' = token
        BY <1>6, <3>3 DEF PushExpectToken
      <4>2. todo'[t] = AfterPush(p) \o Tail(todo[t]) /\ \A u \in Threads \ {t} : todo'[u] = todo[u]
        BY <1>1, <1>2, <4>1
      <4>3. \A u \in Threads : \A i \in 1..Len(todo'[u]) :
               Billing(u, i)' => i = 1 /\ Len(todo'[u]) = 1 /\ todo[u] # <<>> /\ Billing(u, 1)
        BY <1>4, <3>2, <4>2
      <4>4. QED
        BY <1>1, <4>1, <4>3, BillKept
    <3>4. CASE NotCheckedIn
      <4> DEFINE cs == IF p = "goodConnect" THEN <<Push("billSub")>> ELSE ErrorAndDisconnect
      <4>1. PICK g \in Threads : g = NewGo /\ Idle(g) /\ g # t
        BY <1>1, <1>6, <3>4, NewGoIsIdle DEF PushExpectToken, Idle
      <4>2. /\ todo' = [[todo EXCEPT ![t] = AfterPush(p) \o Tail(@)] EXCEPT ![g] = cs]
            /\ token' = (token \/ p = "goodConnect")
        BY <1>6, <3>4, <4>1 DEF PushExpectToken
      <4> HIDE DEF cs
      <4>3. /\ todo'[t] = AfterPush(p) \o Tail(todo[t]) /\ todo'[g] = cs
            /\ \A u \in Threads \ {t, g} : todo'[u] = todo[u]
        BY <1>1, <1>2, <4>1, <4>2
      <4>4. ~token
        BY <3>4 DEF NotCheckedIn
      <4>5. /\ \A u \in Threads : \A i \in 1..Len(todo[u]) : ~Billing(u, i)
            /\ \A k \in 1..Len(looked) : looked[k] # "billSub"
        BY <4>4 DEF BillInv
      <4>6. ASSUME NEW u \in Threads \ {g}, NEW i \in 1..Len(todo'[u]) PROVE ~Billing(u, i)'
        <5>1. CASE u = t
          BY <3>2, <4>3, <4>6, <5>1
        <5>2. CASE u # t
          BY <4>3, <4>5, <4>6, <5>2 DEF Billing
        <5>3. QED
          BY <5>1, <5>2
      <4>7. CASE p = "goodConnect"
        <5>1. token' /\ todo'[g] = <<Push("billSub")>>
          BY <4>2, <4>3, <4>7 DEF cs
        <5>2. \A i \in 1..Len(todo'[g]) : i = 1 /\ Len(todo'[g]) = 1
          BY <5>1
        <5>3. ASSUME NEW u \in Threads, todo'[u] # <<>> PROVE 1 \in 1..Len(todo'[u])
          BY <5>3, TailElements DEF IInv, TypeOK
        <5>4. \A u \in Threads : todo'[u] # <<>> /\ Billing(u, 1)' => u = g
          BY <4>6, <5>3
        <5>5. ASSUME NEW u \in Threads, NEW i \in 1..Len(todo'[u]), Billing(u, i)'
              PROVE  i = 1 /\ Len(todo'[u]) = 1
          BY <4>6, <5>2, <5>5
        <5>6. QED
          BY <1>1, <4>5, <5>1, <5>4, <5>5 DEF BillInv
      <4>8. CASE p # "goodConnect"
        <5>1. todo'[g] = ErrorAndDisconnect
          BY <4>3, <4>8 DEF cs
        <5>2. \A i \in 1..Len(todo'[g]) : ~Billing(g, i)'
          BY <5>1, FollowUpBilling DEF Billing
        <5>3. \A u \in Threads : \A i \in 1..Len(todo'[u]) : ~Billing(u, i)'
          BY <4>6, <5>2
        <5>4. QED
          BY <1>1, <4>4, <5>3, BillKept
      <4>9. QED
        BY <4>7, <4>8
    <3>5. QED
      BY <3>3, <3>4
  <2>5. QED
    BY <2>3, <2>4
<1>7. QED
  BY <1>5, <1>6

\* Sending a command takes a write off the list, or nothing.
LEMMA EnqueueBills ==
    ASSUME IInv, IInv', BillInv, NEW t \in Threads, Enqueue(t)
    PROVE  BillInv'
<1>1. /\ todo[t] # <<>> /\ todo \in [Threads -> Seq(Calls)]
      /\ looked' = looked /\ token' = token
  BY DEF Enqueue, outVars, stateVars, IInv, TypeOK, ThreadInv
<1>2. todo' = todo \/ todo' = [todo EXCEPT ![t] = Tail(@)]
  BY DEF Enqueue
<1>3. todo[t] \in Seq(Calls) /\ Tail(todo[t]) \in Seq(Calls)
  BY <1>1, TailElements
<1>4. /\ Tail(todo[t]) = <<>> \o Tail(todo[t]) /\ <<>> \in Seq(Calls)
      /\ \A i \in 1..Len(<<>>) : <<>>[i].op \in {"push", "pushStats", "look"} => <<>>[i].p # "billSub"
  BY <1>3, EmptySeq
<1>5. ASSUME todo'[t] = Tail(todo[t]) PROVE \A i \in 1..Len(todo'[t]) : ~Billing(t, i)'
  BY <1>1, <1>4, <1>5, NoBillInReturn
<1>6. ASSUME NEW u \in Threads, NEW i \in 1..Len(todo'[u]), Billing(u, i)'
      PROVE  i = 1 /\ Len(todo'[u]) = 1 /\ todo[u] # <<>> /\ Billing(u, 1)
  <2>1. todo'[u] = todo[u]
    BY <1>1, <1>2, <1>5, <1>6
  <2>2. i \in 1..Len(todo[u]) /\ Billing(u, i)
    BY <1>6, <2>1 DEF Billing
  <2>3. QED
    BY <1>1, <2>1, <2>2, EmptySeq DEF BillInv
<1>7. QED
  BY <1>1, <1>6, BillKept

\* Every step keeps the subscription to the billing topic in one place.
LEMMA BillStep ==
    ASSUME IInv, IInv', CommandsAreCalls, BillInv, [Next]_vars
    PROVE  BillInv'
<1>1. todo \in [Threads -> Seq(Calls)]
  BY DEF IInv, TypeOK
<1>2. ASSUME NEW u \in Threads, NEW i \in 1..Len(todo'[u]), Billing(u, i)', todo'[u] = todo[u]
      PROVE  i = 1 /\ Len(todo'[u]) = 1 /\ todo[u] # <<>> /\ Billing(u, 1)
  <2>1. i \in 1..Len(todo[u]) /\ Billing(u, i)
    BY <1>2 DEF Billing
  <2>2. QED
    BY <1>1, <1>2, <2>1, EmptySeq DEF BillInv
<1>3. CASE Environment
  <2>1. looked' = looked
    BY <1>3 DEF Environment, ReadPacket, ReadError, StartHeartbeat, StartDelivery, Start, Tick, outVars
  <2>2. token' = token
    BY <1>3, QuietStep
  <2>3. \A u \in Threads : \A i \in 1..Len(todo'[u]) :
           Billing(u, i)' => i = 1 /\ Len(todo'[u]) = 1 /\ todo[u] # <<>> /\ Billing(u, 1)
    BY <1>2, <1>3, EnvironmentBills
  <2>4. QED
    BY <2>1, <2>2, <2>3, BillKept
<1>4. CASE LoopTake \/ UNCHANGED vars
  <2>1. UNCHANGED <<todo, looked, token>>
    BY <1>4 DEF LoopTake, vars, threadVars, stateVars, outVars
  <2>2. QED
    BY <1>2, <2>1, BillKept
<1>5. CASE LoopExit \/ RunSetExpires \/ RunWrite \/ RunClose \/ PushSetExpires \/ SelfDoClose
  <2>1. UNCHANGED <<todo, looked, token>>
    BY <1>5, LoopGoesOn
  <2>2. QED
    BY <1>2, <2>1, BillKept
<1>6. QED
  BY <1>3, <1>4, <1>5, BeginBills, EnqueueBills, ReturnBills DEF Next, LoopStep, ThreadStep

\* The invariant about the two histories.
HistoryInv == IInv /\ CommandsAreCalls /\ BillInv /\ WritersWrite /\ OrderInv

\* A contact starts with nothing to do and nothing done.
LEMMA InitHistory == Init => HistoryInv
<1> SUFFICES ASSUME Init PROVE HistoryInv
  OBVIOUS
<1>1. /\ IInv /\ commands = <<>> /\ looked = <<>> /\ written = <<>>
      /\ \A t \in Threads : todo[t] = <<>>
      /\ loopAt = "select" /\ loopCmd.from = Loop
  BY InitIInv DEF Init
<1>2. Len(<<>>) = 0
  OBVIOUS
<1>3. CommandsAreCalls
  BY <1>1, <1>2 DEF CommandsAreCalls, Queued, Taken
<1>4. BillInv
  BY <1>1, <1>2 DEF BillInv
<1>5. Writers \subseteq Threads /\ Loop \notin Writers
  BY ContactAssumption DEF Threads
<1>6. WritersWrite
  BY <1>1, <1>2, <1>5 DEF WritersWrite
<1>7. OrderInv
  BY <1>1, <1>2, <1>5 DEF OrderInv, Order, OrderInList, OrderInChannel, OrderInLoop, OrderOnWire, Writing
<1>8. QED
  BY <1>1, <1>3, <1>4, <1>6, <1>7 DEF HistoryInv

\* Every step keeps it.
LEMMA NextHistory == HistoryInv /\ [Next]_vars => HistoryInv'
<1> SUFFICES ASSUME HistoryInv, [Next]_vars PROVE HistoryInv'
  OBVIOUS
<1>1. IInv /\ CommandsAreCalls /\ BillInv /\ WritersWrite /\ OrderInv
  BY DEF HistoryInv
<1>2. IInv'
  BY <1>1, NextIInv
<1>3. CommandsAreCalls' /\ BillInv' /\ WritersWrite'
  BY <1>1, <1>2, CommandsAreCallsStep, BillStep, WritersWriteStep
<1>4. OrderInv'
  BY <1>1, OrderStep DEF OrderInv
<1>5. QED
  BY <1>2, <1>3, <1>4 DEF HistoryInv

\* The histories agree with what is still under way, in every state.
THEOREM ContactHistory == Spec => []HistoryInv
<1>1. QED
  BY InitHistory, NextHistory, PTL DEF Spec

\* The packets one goroutine delivers reach the wire in the order it sent them,
\* each at most once, whoever else uses the channel (contacts.go:210-233).
THEOREM ContactWireOrder == Spec => []WireOrder
<1>1. ASSUME HistoryInv PROVE WireOrder
  <2>1. ASSUME NEW i \in 1..Len(written), NEW j \in 1..Len(written),
               i < j, written[i].by = written[j].by, written[i].by \in Writers
        PROVE  written[i].n < written[j].n
    <3>1. OrderOnWire(written[i].by)
      BY <1>1, <2>1 DEF HistoryInv, OrderInv, Order
    <3>2. QED
      BY <2>1, <3>1 DEF OrderOnWire
  <2>2. QED
    BY <2>1 DEF WireOrder
<1>2. QED
  BY <1>1, ContactHistory, PTL

\* A contact subscribes to its billing topic at most once, and only after it has
\* checked in, however many Connect packets arrive (contacts.go:625-676).
THEOREM ContactBilledOnce == Spec => []BilledOnce
<1>1. ASSUME HistoryInv PROVE BilledOnce
  <2> DEFINE S == {i \in 1..Len(looked) : looked[i] = "billSub"}
  <2>1. \A i, j \in S : i = j
    BY <1>1 DEF HistoryInv, BillInv
  <2>2. Cardinality(S) <= 1
    <3> HIDE DEF S
    <3>1. CASE S = {}
      BY <3>1, FS_EmptySet
    <3>2. CASE S # {}
      <4>1. PICK i : S = {i}
        BY <2>1, <3>2
      <4>2. Cardinality({i}) = 1
        BY FS_Singleton
      <4>3. QED
        BY <4>1, <4>2
    <3>3. QED
      BY <3>1, <3>2
  <2>3. (\E i \in 1..Len(looked) : looked[i] = "billSub") => token
    BY <1>1 DEF HistoryInv, BillInv
  <2>4. QED
    BY <2>2, <2>3 DEF BilledOnce
<1>2. QED
  BY <1>1, ContactHistory, PTL
=============================================================================

--------------------------- MODULE ServiceProofs ---------------------------
(***************************************************************************)
(* Proofs about Service, for every set of calls, both flavours, every      *)
(* capacity and any number of answers and broken connections: the type     *)
(* invariant, and that each step is a step of Rpc or none.                 *)
(***************************************************************************)
EXTENDS Service, SequenceTheorems, TLAPS

Started == {c \in Calls : caller[c] # "idle"}
Answered == {c \in Calls : answers[c] > 0}

\* Requests are those of calls that were made, and a packet that arrives is a
\* reply that was given.  What the dispatcher sends goes to the call it is for.
OriginInv ==
    /\ outgoing \in Seq(Started \cup {Sub}) /\ atCluster \subseteq Started \cup {Sub}
    /\ \A c \in Calls : sender[c] # "none" => c \in Started
    /\ wire \in Seq(Answered \cup {Sub}) /\ packetsChan \in Seq(Answered \cup {Sub})
    /\ holding \in Answered \cup {Sub, NoReply}
    /\ delivering # Nothing => delivering.packet = delivering.to /\ delivering.to \in Answered

IInv == TypeOK /\ OriginInv
----------------------------------------------------------------------------
(* Sequences *)

LEMMA AppendTypes ==
    ASSUME NEW S, NEW s \in Seq(S), NEW e \in S
    PROVE  Append(s, e) \in Seq(S) /\ Len(Append(s, e)) = Len(s) + 1 /\ Len(s) \in Nat
BY AppendProperties, LenProperties

LEMMA AppendFits ==
    ASSUME TypeOK, NEW e \in Calls \cup {Sub}, Len(outgoing) < OutCap
    PROVE  Append(outgoing, e) \in Seq(Calls \cup {Sub}) /\ Len(Append(outgoing, e)) <= OutCap
<1> DEFINE P == Calls \cup {Sub}
<1>1. outgoing \in Seq(P) /\ e \in P
  BY DEF TypeOK
<1> HIDE DEF P
<1>2. Append(outgoing, e) \in Seq(P) /\ Len(Append(outgoing, e)) = Len(outgoing) + 1 /\ Len(outgoing) \in Nat
  BY <1>1, AppendTypes
<1>3. Len(outgoing) + 1 <= OutCap
  BY <1>2, ServiceAssumption
<1> QED
  BY <1>2, <1>3 DEF P

LEMMA TailTypes ==
    ASSUME NEW S, NEW s \in Seq(S), s # <<>>
    PROVE  Head(s) \in S /\ Tail(s) \in Seq(S) /\ Len(Tail(s)) = Len(s) - 1 /\ Len(s) \in Nat \ {0}
BY HeadTailProperties, LenProperties, EmptySeq

LEMMA EmptyTypes == \A S : <<>> \in Seq(S) /\ Len(<<>>) = 0
BY EmptySeq
----------------------------------------------------------------------------
(* The type invariant *)

LEMMA TypeStep == TypeOK /\ [Next]_vars => TypeOK'
<1> SUFFICES ASSUME TypeOK, [Next]_vars PROVE TypeOK'
  OBVIOUS
<1> USE ServiceAssumption DEF TypeOK, callVars, tcpVars, clusterVars
<1>1. CASE StartTakes
  BY <1>1, TailTypes DEF StartTakes
<1>2. CASE StartSeesClosed \/ StartTimesOut
  BY <1>2 DEF StartSeesClosed, StartTimesOut
<1>3. CASE DispatcherTakes
  <2>1. packetsChan' \in Seq(Calls \cup {Sub}) /\ Len(packetsChan') <= PacketsCap /\ Head(packetsChan) \in Calls \cup {Sub}
    BY <1>3, TailTypes DEF DispatcherTakes
  <2>2. delivering' \in [to : Calls, packet : Calls] \cup {Nothing}
    BY <1>3, <2>1 DEF DispatcherTakes, Destination
  <2> QED
    BY <1>3, <2>1, <2>2 DEF DispatcherTakes
<1>4. CASE Deliver
  <2>1. delivering.to \in Calls /\ delivering.packet \in Calls
    BY <1>4 DEF Deliver
  <2>2. caller' \in [Calls -> {"idle", "waiting", "answered", "timedout"}] /\ got' \in [Calls -> Calls \cup {NoReply}]
    BY <1>4, <2>1 DEF Deliver
  <2> QED
    BY <1>4, <2>2 DEF Deliver
<1>5. CASE KeepAlive
  <2>1. CASE tcp
    <3>1. outgoing' = Append(outgoing, Sub) /\ Len(outgoing) < OutCap
      BY <1>5, <2>1 DEF KeepAlive, OutRoom
    <3>2. outgoing' \in Seq(Calls \cup {Sub}) /\ Len(outgoing') <= OutCap
      BY <3>1, AppendFits
    <3> QED
      BY <1>5, <2>1, <3>2 DEF KeepAlive
  <2>2. CASE ~tcp
    BY <1>5, <2>2 DEF KeepAlive
  <2> QED
    BY <2>1, <2>2
<1>6. CASE ReaderReads
  BY <1>6, TailTypes DEF ReaderReads
<1>7. CASE ReaderPasses
  BY <1>7, AppendTypes DEF ReaderPasses
<1>8. CASE DialSucceeds
  BY <1>8, EmptyTypes DEF DialSucceeds
<1>9. CASE DialFails \/ ReadFails \/ WritersEnd
  BY <1>9 DEF DialFails, ReadFails, WritersEnd
<1>10. CASE WriterWrites
  <2>1. outgoing' \in Seq(Calls \cup {Sub}) /\ Len(outgoing') <= OutCap /\ Head(outgoing) \in Calls \cup {Sub}
    BY <1>10, TailTypes DEF WriterWrites
  <2>2. atCluster' \subseteq Calls \cup {Sub} /\ panicked' \in BOOLEAN
    BY <1>10, <2>1 DEF WriterWrites
  <2> QED
    BY <1>10, <2>1, <2>2 DEF WriterWrites
<1>11. ASSUME NEW c \in Calls, CallerStarts(c) \/ CallerTimesOut(c) \/ SenderRegisters(c) \/ SenderLeaves(c)
       PROVE  TypeOK'
  <2>1. /\ caller' \in [Calls -> {"idle", "waiting", "answered", "timedout"}]
        /\ sender' \in [Calls -> {"none", "register", "push", "listen", "gone"}]
        /\ key2channel' \subseteq Calls
    BY <1>11 DEF CallerStarts, CallerTimesOut, SenderRegisters, SenderLeaves
  <2> QED
    BY <1>11, <2>1 DEF CallerStarts, CallerTimesOut, SenderRegisters, SenderLeaves
<1>12. ASSUME NEW c \in Calls, SenderPushes(c) PROVE TypeOK'
  <2>1. sender' \in [Calls -> {"none", "register", "push", "listen", "gone"}]
    BY <1>12 DEF SenderPushes
  <2>2. outgoing' \in Seq(Calls \cup {Sub}) /\ Len(outgoing') <= OutCap /\ atCluster' \subseteq Calls \cup {Sub}
    <3>1. CASE tcp
      <4>1. outgoing' = Append(outgoing, c) /\ Len(outgoing) < OutCap /\ UNCHANGED atCluster
        BY <1>12, <3>1 DEF SenderPushes, OutRoom
      <4> QED
        BY <4>1, AppendFits
    <3>2. CASE ~tcp
      BY <1>12, <3>2 DEF SenderPushes
    <3> QED
      BY <3>1, <3>2
  <2> QED
    BY <1>12, <2>1, <2>2 DEF SenderPushes
<1>13. CASE ClusterSubscribes
  BY <1>13, AppendTypes DEF ClusterSubscribes
<1>14. ASSUME NEW c \in Calls, ClusterAnswers(c) PROVE TypeOK'
  <2>1. answers' \in [Calls -> 0..MaxAnswers]
    BY <1>14 DEF ClusterAnswers
  <2>2. wire' \in Seq(Calls \cup {Sub})
    BY <1>14, AppendTypes DEF ClusterAnswers
  <2> QED
    BY <1>14, <2>1, <2>2 DEF ClusterAnswers
<1>15. CASE Break
  <2>1. breaks' \in 0..MaxBreaks
    BY <1>15 DEF Break
  <2>2. conn' \in {"nil", "up", "lost", "closed"} /\ open' \in BOOLEAN
    BY <1>15 DEF Break
  <2> QED
    BY <1>15, <2>1, <2>2, EmptyTypes DEF Break
<1>16. CASE UNCHANGED vars
  BY <1>16 DEF vars
<1> QED
  BY <1>1, <1>2, <1>3, <1>4, <1>5, <1>6, <1>7, <1>8, <1>9, <1>10, <1>11, <1>12, <1>13,
     <1>14, <1>15, <1>16 DEF Next, Process
----------------------------------------------------------------------------
(* Where packets come from *)

\* A sequence of the packets there were is one of those there are.
LEMMA SeqGrows ==
    ASSUME NEW S, NEW T, S \subseteq T
    PROVE  \A s \in Seq(S) : s \in Seq(T)
BY SeqMonotonic

\* A step that neither makes a call nor gives an answer changes neither set.
LEMMA SetsGrow ==
    ASSUME TypeOK, [Next]_vars
    PROVE  Started \subseteq Started' /\ Answered \subseteq Answered'
<1> USE DEF TypeOK, Started, Answered, callVars, tcpVars, clusterVars
<1>1. \A c \in Calls : caller[c] # "idle" => caller'[c] # "idle"
  <2>1. CASE Deliver
    BY <2>1 DEF Deliver
  <2>2. ASSUME NEW c \in Calls, CallerStarts(c) \/ CallerTimesOut(c)
        PROVE  \A d \in Calls : caller[d] # "idle" => caller'[d] # "idle"
    BY <2>2 DEF CallerStarts, CallerTimesOut
  <2>3. CASE UNCHANGED caller
    BY <2>3
  <2> QED
    BY <2>1, <2>2, <2>3
       DEF Next, Process, vars, StartTakes, StartSeesClosed, StartTimesOut, DispatcherTakes, KeepAlive,
           ReaderReads, ReaderPasses, DialSucceeds, DialFails, ReadFails, WriterWrites, WritersEnd,
           SenderRegisters, SenderPushes, SenderLeaves, ClusterSubscribes, ClusterAnswers, Break
<1>2. \A c \in Calls : answers[c] > 0 => answers'[c] > 0
  <2>1. ASSUME NEW c \in Calls, ClusterAnswers(c)
        PROVE  \A d \in Calls : answers[d] > 0 => answers'[d] > 0
    BY <2>1, ServiceAssumption DEF ClusterAnswers
  <2>2. CASE UNCHANGED answers
    BY <2>2
  <2> QED
    BY <2>1, <2>2
       DEF Next, Process, vars, StartTakes, StartSeesClosed, StartTimesOut, DispatcherTakes, Deliver, KeepAlive,
           ReaderReads, ReaderPasses, DialSucceeds, DialFails, ReadFails, WriterWrites, WritersEnd, CallerStarts,
           CallerTimesOut, SenderRegisters, SenderPushes, SenderLeaves, ClusterSubscribes, Break
<1> QED
  BY <1>1, <1>2

\* The origins of all that is on its way, in a later state.
LEMMA OriginsStay ==
    ASSUME TypeOK, OriginInv, [Next]_vars
    PROVE  /\ outgoing \in Seq(Started' \cup {Sub}) /\ atCluster \subseteq Started' \cup {Sub}
           /\ \A c \in Calls : sender[c] # "none" => c \in Started'
           /\ wire \in Seq(Answered' \cup {Sub}) /\ packetsChan \in Seq(Answered' \cup {Sub})
           /\ holding \in Answered' \cup {Sub, NoReply}
           /\ delivering # Nothing => delivering.to \in Answered'
<1>1. Started \cup {Sub} \subseteq Started' \cup {Sub} /\ Answered \cup {Sub} \subseteq Answered' \cup {Sub}
  BY SetsGrow
<1> QED
  BY <1>1, SetsGrow, SeqGrows DEF OriginInv

LEMMA OriginStep == TypeOK /\ OriginInv /\ [Next]_vars => OriginInv'
<1> SUFFICES ASSUME TypeOK, OriginInv, [Next]_vars PROVE OriginInv'
  OBVIOUS
<1> DEFINE S == Started' \cup {Sub}
           A == Answered' \cup {Sub}
<1>o. /\ outgoing \in Seq(S) /\ atCluster \subseteq S
      /\ \A c \in Calls : sender[c] # "none" => c \in Started'
      /\ wire \in Seq(A) /\ packetsChan \in Seq(A)
      /\ holding \in A \cup {NoReply}
      /\ delivering # Nothing => delivering.packet = delivering.to /\ delivering.to \in Answered'
  <2>1. holding \in Answered' \cup {Sub, NoReply}
    BY OriginsStay
  <2> QED
    BY <2>1, OriginsStay DEF OriginInv
<1> DEFINE Kept ==
        /\ outgoing' \in Seq(S) /\ atCluster' \subseteq S
        /\ \A c \in Calls : sender'[c] # "none" => c \in Started'
        /\ wire' \in Seq(A) /\ packetsChan' \in Seq(A)
        /\ holding' \in A \cup {NoReply}
        /\ delivering' # Nothing => delivering'.packet = delivering'.to /\ delivering'.to \in Answered'
<1> SUFFICES Kept
  BY DEF OriginInv, Nothing
<1>f. UNCHANGED Nothing
  BY DEF Nothing
<1>s. Sub \in S /\ Sub \in A
  OBVIOUS
<1> HIDE DEF S, A
<1> USE DEF callVars, tcpVars, clusterVars
<1>1. CASE StartTakes
  BY <1>1, <1>o, TailTypes DEF StartTakes
<1>2. CASE StartSeesClosed \/ StartTimesOut \/ DialFails \/ ReadFails \/ WritersEnd
  BY <1>2, <1>o DEF StartSeesClosed, StartTimesOut, DialFails, ReadFails, WritersEnd
<1>3. CASE DispatcherTakes
  <2>1. Head(packetsChan) \in A /\ packetsChan' \in Seq(A)
    BY <1>3, <1>o, TailTypes DEF DispatcherTakes
  <2>2. delivering' # Nothing => delivering'.packet = delivering'.to /\ delivering'.to \in Answered'
    <3>1. \A c \in Destination(Head(packetsChan)) : c = Head(packetsChan) /\ c \in Calls
      BY DEF Destination, TypeOK
    <3>2. \A c \in Calls : c \in A => c \in Answered'
      BY ServiceAssumption DEF A
    <3> QED
      BY <1>3, <2>1, <3>1, <3>2 DEF DispatcherTakes
  <2> QED
    BY <1>3, <1>o, <2>1, <2>2 DEF DispatcherTakes
<1>4. CASE Deliver
  BY <1>4, <1>o DEF Deliver
<1>5. CASE KeepAlive
  <2>1. CASE tcp
    BY <1>5, <1>o, <1>s, <2>1, AppendTypes DEF KeepAlive
  <2>2. CASE ~tcp
    BY <1>5, <1>o, <1>s, <2>2 DEF KeepAlive
  <2> QED
    BY <2>1, <2>2
<1>6. CASE ReaderReads
  BY <1>6, <1>o, TailTypes DEF ReaderReads
<1>7. CASE ReaderPasses
  BY <1>7, <1>o, AppendTypes DEF ReaderPasses
<1>8. CASE DialSucceeds
  BY <1>8, <1>o, EmptyTypes DEF DialSucceeds
<1>9. CASE WriterWrites
  <2>1. Head(outgoing) \in S /\ outgoing' \in Seq(S)
    BY <1>9, <1>o, TailTypes DEF WriterWrites
  <2>2. atCluster' \subseteq S
    BY <1>9, <1>o, <2>1 DEF WriterWrites
  <2> QED
    BY <1>9, <1>o, <2>1, <2>2 DEF WriterWrites
<1>10. ASSUME NEW c \in Calls, CallerStarts(c) PROVE Kept
  <2>1. c \in Started'
    BY <1>10 DEF CallerStarts, Started, TypeOK
  <2>2. \A d \in Calls : sender'[d] # "none" => d \in Started'
    BY <1>10, <1>o, <2>1 DEF CallerStarts, TypeOK
  <2> QED
    BY <1>10, <1>o, <2>2 DEF CallerStarts
<1>11. CASE \E c \in Calls : CallerTimesOut(c)
  BY <1>11, <1>o DEF CallerTimesOut
<1>12. ASSUME NEW c \in Calls, SenderRegisters(c) \/ SenderLeaves(c) PROVE Kept
  <2>1. \A d \in Calls : sender'[d] # "none" => d \in Started'
    BY <1>12, <1>o DEF SenderRegisters, SenderLeaves, TypeOK
  <2> QED
    BY <1>12, <1>o, <2>1 DEF SenderRegisters, SenderLeaves
<1>13. ASSUME NEW c \in Calls, SenderPushes(c) PROVE Kept
  <2>1. c \in Started' /\ \A d \in Calls : sender'[d] # "none" => d \in Started'
    BY <1>13, <1>o DEF SenderPushes, TypeOK
  <2>2. c \in S
    BY <2>1 DEF S
  <2>3. CASE tcp
    BY <1>13, <1>o, <2>1, <2>2, <2>3, AppendTypes DEF SenderPushes
  <2>4. CASE ~tcp
    BY <1>13, <1>o, <2>1, <2>2, <2>4 DEF SenderPushes
  <2> QED
    BY <2>3, <2>4
<1>14. CASE ClusterSubscribes
  BY <1>14, <1>o, <1>s, AppendTypes DEF ClusterSubscribes
<1>15. ASSUME NEW c \in Calls, ClusterAnswers(c) PROVE Kept
  <2>1. c \in A
    BY <1>15, ServiceAssumption DEF ClusterAnswers, Answered, TypeOK, A
  <2>2. wire' \in Seq(A)
    BY <1>15, <1>o, <2>1, AppendTypes DEF ClusterAnswers
  <2> QED
    BY <1>15, <1>o, <2>2 DEF ClusterAnswers
<1>16. CASE Break
  BY <1>16, <1>o, EmptyTypes DEF Break
<1>17. CASE UNCHANGED vars
  BY <1>17, <1>o DEF vars
<1> QED
  BY <1>1, <1>2, <1>3, <1>4, <1>5, <1>6, <1>7, <1>8, <1>9, <1>10, <1>11, <1>12, <1>13,
     <1>14, <1>15, <1>16, <1>17 DEF Next, Process

LEMMA InitInv == Init => IInv
<1> SUFFICES ASSUME Init PROVE IInv
  OBVIOUS
<1>1. TypeOK
  <2>1. outgoing \in Seq(Calls \cup {Sub}) /\ Len(outgoing) <= OutCap
    <3>1. <<Sub>> \in Seq(Calls \cup {Sub}) /\ Len(<<Sub>>) = 1
      OBVIOUS
    <3>2. CASE tcp
      BY <3>1, <3>2, ServiceAssumption DEF Init
    <3>3. CASE ~tcp
      BY <3>3, EmptyTypes, ServiceAssumption DEF Init
    <3> QED
      BY <3>2, <3>3
  <2>2. packetsChan \in Seq(Calls \cup {Sub}) /\ Len(packetsChan) <= PacketsCap /\ wire \in Seq(Calls \cup {Sub})
    BY EmptyTypes, ServiceAssumption DEF Init
  <2>3. answers \in [Calls -> 0..MaxAnswers] /\ breaks \in 0..MaxBreaks
    BY ServiceAssumption DEF Init
  <2>4. atCluster \subseteq Calls \cup {Sub}
    BY DEF Init
  <2> QED
    BY <2>1, <2>2, <2>3, <2>4 DEF Init, TypeOK
<1>2. <<Sub>> \in Seq(Started \cup {Sub})
  OBVIOUS
<1>3. OriginInv
  BY <1>2, EmptyTypes DEF Init, OriginInv
<1> QED
  BY <1>1, <1>3 DEF IInv

\* In every state the variables have their types and nothing is full beyond
\* its capacity: a packet is only passed on or written where there is room.
THEOREM ServiceTypeOK == Spec => []TypeOK
<1>1. TypeOK /\ [Next]_vars => TypeOK'
  BY TypeStep
<1>2. Init => TypeOK
  BY InitInv DEF IInv
<1> QED
  BY <1>1, <1>2, PTL DEF Spec

LEMMA ServiceInvariant == Spec => []IInv
<1>1. IInv /\ [Next]_vars => IInv'
  BY TypeStep, OriginStep DEF IInv
<1> QED
  BY <1>1, InitInv, PTL DEF Spec
----------------------------------------------------------------------------
(* Each step is a step of Rpc *)

\* What a step that neither starts nor ends a call, and gives no answer,
\* leaves as it is.
LEMMA Unseen ==
    ASSUME UNCHANGED <<caller, answers, got, panicked>>
    PROVE  UNCHANGED Abstract!vars
BY DEF Abstract!vars, RpcCall

LEMMA InitMaps == Init => Abstract!Init
BY DEF Init, Abstract!Init, RpcCall

LEMMA StartsAsk ==
    ASSUME TypeOK, ~panicked, NEW c \in Calls, CallerStarts(c)
    PROVE  Abstract!Ask(c)
<1>1. caller' = [caller EXCEPT ![c] = "waiting"] /\ caller[c] = "idle" /\ UNCHANGED <<answers, got, panicked>>
  BY DEF CallerStarts, tcpVars, clusterVars
<1>2. [d \in Calls |-> RpcCall(d)'] = [[d \in Calls |-> RpcCall(d)] EXCEPT ![c] = "asked"]
  BY <1>1 DEF RpcCall, TypeOK
<1> QED
  BY <1>1, <1>2 DEF Abstract!Ask, RpcCall

LEMMA TimeOutFails ==
    ASSUME TypeOK, ~panicked, NEW c \in Calls, CallerTimesOut(c)
    PROVE  Abstract!Fail({c})
<1>1. caller' = [caller EXCEPT ![c] = "timedout"] /\ caller[c] = "waiting" /\ UNCHANGED <<answers, got, panicked>>
  BY DEF CallerTimesOut, tcpVars, clusterVars
<1> QED
  BY <1>1 DEF Abstract!Fail, RpcCall, TypeOK

LEMMA DeliverAnswers ==
    ASSUME TypeOK, OriginInv, ~panicked, Deliver
    PROVE  \E c \in Calls : Abstract!Answer(c)
<1> DEFINE c == delivering.to
<1>1. c \in Calls /\ delivering.packet = c /\ answers[c] > 0
  BY DEF Deliver, OriginInv, Answered
<1>2. /\ caller' = [caller EXCEPT ![c] = "answered"] /\ caller[c] = "waiting"
      /\ got' = [got EXCEPT ![c] = c] /\ UNCHANGED <<answers, panicked>>
  BY <1>1 DEF Deliver, tcpVars, clusterVars
<1> HIDE DEF c
<1>3. [d \in Calls |-> RpcCall(d)'] = [[d \in Calls |-> RpcCall(d)] EXCEPT ![c] = "answered"]
  BY <1>1, <1>2 DEF RpcCall, TypeOK
<1>4. Abstract!Answer(c)
  BY <1>1, <1>2, <1>3 DEF Abstract!Answer, RpcCall
<1> QED
  BY <1>1, <1>4

LEMMA AnswersServe ==
    ASSUME TypeOK, OriginInv, ~panicked, NEW c \in Calls, ClusterAnswers(c)
    PROVE  Abstract!Serve(c)
<1>1. answers' = [answers EXCEPT ![c] = @ + 1] /\ UNCHANGED <<caller, got, panicked>>
  BY DEF ClusterAnswers, callVars, tcpVars
<1>2. caller[c] # "idle"
  BY ServiceAssumption DEF ClusterAnswers, OriginInv, Started
<1>3. \A d \in Calls : answers'[d] > 0 <=> answers[d] > 0 \/ d = c
  BY <1>1, ServiceAssumption DEF TypeOK
<1>4. RpcCall(c) # "idle"
  BY <1>2 DEF RpcCall
<1> QED
  BY <1>1, <1>3, <1>4 DEF Abstract!Serve, RpcCall

\* The end of the process fails the calls that wait, all at once.
LEMMA PanicFails ==
    ASSUME TypeOK, ~panicked, WriterWrites, panicked'
    PROVE  \E lost \in SUBSET Calls : Abstract!Fail(lost)
<1> DEFINE lost == {c \in Calls : caller[c] = "waiting"}
<1>1. UNCHANGED <<caller, answers, got>>
  BY DEF WriterWrites, callVars
<1>2. Abstract!Fail(lost)
  BY <1>1 DEF Abstract!Fail, RpcCall
<1> QED
  BY <1>2

LEMMA StepMaps == IInv /\ [Next]_vars => [Abstract!Next]_(Abstract!vars)
<1> SUFFICES ASSUME TypeOK, OriginInv, [Next]_vars PROVE Abstract!Next \/ UNCHANGED Abstract!vars
  BY DEF IInv
<1>1. ASSUME ~panicked, NEW c \in Calls, CallerStarts(c) PROVE Abstract!Next
  BY <1>1, StartsAsk DEF Abstract!Next
<1>2. ASSUME ~panicked, NEW c \in Calls, CallerTimesOut(c) PROVE Abstract!Next
  BY <1>2, TimeOutFails DEF Abstract!Next
<1>3. ASSUME ~panicked, Deliver PROVE Abstract!Next
  BY <1>3, DeliverAnswers DEF Abstract!Next
<1>4. ASSUME ~panicked, NEW c \in Calls, ClusterAnswers(c) PROVE Abstract!Next
  BY <1>4, AnswersServe DEF Abstract!Next
<1>5. ASSUME ~panicked, WriterWrites PROVE Abstract!Next \/ UNCHANGED Abstract!vars
  <2>1. CASE panicked'
    BY <1>5, <2>1, PanicFails DEF Abstract!Next
  <2>2. CASE ~panicked'
    <3>1. UNCHANGED <<caller, answers, got, panicked>>
      BY <1>5, <2>2 DEF WriterWrites, callVars, TypeOK
    <3> QED
      BY <3>1, Unseen
  <2> QED
    BY <2>1, <2>2
<1>6. CASE UNCHANGED <<caller, answers, got, panicked>>
  BY <1>6, Unseen
<1> QED
  BY <1>1, <1>2, <1>3, <1>4, <1>5, <1>6
     DEF Next, Process, vars, callVars, tcpVars, clusterVars, StartTakes, StartSeesClosed, StartTimesOut,
         DispatcherTakes, KeepAlive, ReaderReads, ReaderPasses, DialSucceeds, DialFails, ReadFails, WritersEnd,
         SenderRegisters, SenderPushes, SenderLeaves, ClusterSubscribes, Break

\* Over either contact, whatever is lost, late or answered twice, a call does
\* nothing but what Rpc allows: the dispatcher passes a reply only to the call
\* it was given for, and each returns once.
THEOREM ServiceImplementsRpc == Spec => Abstract!Safety
<1>1. IInv /\ [Next]_vars => [Abstract!Next]_(Abstract!vars)
  BY StepMaps
<1> QED
  BY <1>1, InitMaps, ServiceInvariant, PTL DEF Spec, Abstract!Safety
=============================================================================

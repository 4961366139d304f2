-------------------------- MODULE AideDialerProofs --------------------------
(***************************************************************************)
(* Proofs about AideDialer, for every list of aides, every number of       *)
(* connections and packets and every capacity of the channel: the type     *)
(* invariant, that the end of a connection costs one packet more at most,  *)
(* and that none is left open.                                             *)
(***************************************************************************)
EXTENDS AideDialer, TLAPS

\* What TypeOK leaves out and its proof needs.
TypeInv == TypeOK /\ stats \in Lists

\* A packet is lost on the way to the next dial, or by a writer that has no
\* connection and is on its way to find that out.
LossInv ==
    /\ lost \in {0, 1}
    /\ lost = 1 => \/ writer \in {"reset", "index", "dial"}
                   \/ writer \in {"check", "gone"} /\ conn = None

\* Who is about to dial has closed its connection.
ClosedBeforeDial ==
    writer \in {"index", "dial", "reset"} /\ conn # None => state[conn] = "closed"

\* The reader closed the connection that it is about to forget, unless the
\* writer dialed meanwhile, and then the writer waits for the reader.
ClosedBeforeClear ==
    reader = "clear" /\ conn # None /\ state[conn] # "closed" => writer = "start"

ConnInv == TypeInv /\ ClosedBeforeDial /\ ClosedBeforeClear /\ NoneLeftOpen
----------------------------------------------------------------------------
(* The steps *)

\* The type invariant is inductive: each action of either goroutine, of the
\* network and of the operator keeps it.
LEMMA TypeInvStep == TypeInv /\ [Next]_vars => TypeInv'
<1> SUFFICES ASSUME TypeInv, [Next]_vars PROVE TypeInv'
  OBVIOUS
<1> USE DialerAssumption DEF TypeInv, TypeOK
<1>1. CASE GetTheIndex
  <2>1. stats \in Seq(Aides \cup {"guru"})
    OBVIOUS
  <2>2. index' \in Nat /\ name' \in Aides \cup {None}
    BY <1>1, <2>1 DEF GetTheIndex
  <2> QED
    BY <1>1, <2>2 DEF GetTheIndex, WriterGoes, WriterOnly, net
<1>2. CASE DialSucceeds
  BY <1>2 DEF DialSucceeds, WriterGoes, WriterOnly
<1>3. CASE DialFails
  BY <1>3 DEF DialFails, WriterGoes, net
<1>4. CASE Start
  BY <1>4 DEF Start, StartReader, WriterGoes, shared, net
<1>5. CASE Connect
  BY <1>5 DEF Connect, Panic, shared, net
<1>6. CASE Hello
  BY <1>6 DEF Hello, Close, WriterOnly, net
<1>7. CASE Check
  BY <1>7 DEF Check, Close, WriterOnly, shared
<1>8. CASE Gone
  BY <1>8 DEF Gone, Panic, Close, shared, net
<1>9. CASE Pop
  BY <1>9 DEF Pop, WriterGoes, WriterOnly, shared, net
<1>10. CASE Write
  BY <1>10 DEF Write, AfterError, Close, WriterOnly, shared
<1>11. CASE Reset
  BY <1>11 DEF Reset, WriterGoes, WriterOnly, net
<1>12. CASE ReaderChecks
  BY <1>12 DEF ReaderChecks, ReaderOnly
<1>13. CASE ReadFails
  BY <1>13 DEF ReadFails, ReaderGoes, ReaderOnly
<1>14. CASE ReaderCloses
  BY <1>14 DEF ReaderCloses, Panic, Close, shared, net
<1>15. CASE ReaderClears
  BY <1>15 DEF ReaderClears, ReaderGoes, ReaderOnly
<1>16. CASE ReaderSignals
  BY <1>16 DEF ReaderSignals, ReaderWaits, ReaderOnly
<1>17. CASE Produce
  BY <1>17 DEF Produce, Room, OthersOnly, shared
<1>18. CASE PostClusterStats
  BY <1>18 DEF PostClusterStats, OthersOnly, shared
<1>19. CASE \E c \in Conns : Break(c) \/ AideCloses(c)
  BY <1>19 DEF Break, AideCloses, Breaks, OthersOnly, shared
<1>20. CASE UNCHANGED vars
  BY <1>20 DEF vars, shared, net
<1> QED
  BY <1>1, <1>2, <1>3, <1>4, <1>5, <1>6, <1>7, <1>8, <1>9, <1>10, <1>11, <1>12, <1>13,
     <1>14, <1>15, <1>16, <1>17, <1>18, <1>19, <1>20 DEF Next, WriterNext, ReaderNext

\* What was lost is lost until the next dial: the writer does not write on its
\* way there, and a new connection starts with none.
LEMMA LossInvStep == LossInv /\ [Next]_vars => LossInv'
<1> SUFFICES ASSUME LossInv, [Next]_vars PROVE LossInv'
  OBVIOUS
<1> USE DEF LossInv
<1>1. CASE GetTheIndex
  BY <1>1 DEF GetTheIndex, WriterGoes
<1>2. CASE DialSucceeds
  BY <1>2 DEF DialSucceeds
<1>3. CASE DialFails
  BY <1>3 DEF DialFails, WriterGoes
<1>4. CASE Start \/ Pop
  BY <1>4 DEF Start, Pop, WriterGoes
<1>5. CASE Connect
  BY <1>5 DEF Connect, Panic
<1>6. CASE Hello
  BY <1>6 DEF Hello
<1>7. CASE Check
  BY <1>7 DEF Check, shared
<1>8. CASE Gone
  BY <1>8 DEF Gone, Panic, shared
<1>9. CASE Write
  <2>1. lost = 0
    BY <1>9 DEF Write
  <2> QED
    BY <1>9, <2>1 DEF Write, AfterError, shared
<1>10. CASE Reset
  BY <1>10 DEF Reset, WriterGoes
<1>11. CASE ReaderNext
  <2>1. lost' = lost /\ writer' = writer /\ conn' \in {conn, None}
    BY <1>11 DEF ReaderNext, ReaderChecks, ReadFails, ReaderCloses, ReaderClears, ReaderSignals,
                 ReaderOnly, Panic, shared
  <2> QED
    BY <2>1
<1>12. CASE Produce \/ PostClusterStats \/ \E c \in Conns : Break(c) \/ AideCloses(c)
  BY <1>12 DEF Produce, PostClusterStats, Break, AideCloses, OthersOnly, shared
<1>13. CASE UNCHANGED vars
  BY <1>13 DEF vars, shared
<1> QED
  BY <1>1, <1>2, <1>3, <1>4, <1>5, <1>6, <1>7, <1>8, <1>9, <1>10, <1>11, <1>12, <1>13
     DEF Next, WriterNext

\* A connection is forgotten only when it is closed, or when the writer waits
\* to start its reader and finds it missing after that.
LEMMA ConnInvStep == ConnInv /\ [Next]_vars => ConnInv'
<1> SUFFICES ASSUME ConnInv, [Next]_vars
             PROVE (ClosedBeforeDial /\ ClosedBeforeClear /\ NoneLeftOpen)'
  BY TypeInvStep DEF ConnInv
<1> USE DialerAssumption DEF ConnInv, TypeInv, TypeOK, ClosedBeforeDial, ClosedBeforeClear, NoneLeftOpen
<1>1. CASE GetTheIndex \/ Pop
  BY <1>1 DEF GetTheIndex, Pop, WriterGoes, WriterOnly, shared, net
<1>2. CASE DialSucceeds
  <2>1. \A c \in Conns : state[c] = "closed"
    BY <1>2 DEF DialSucceeds, WriterGoes
  <2>2. PICK c \in Conns : conn' = c /\ state' = [state EXCEPT ![c] = "open"]
    BY <1>2 DEF DialSucceeds
  <2>3. writer' = "start"
    BY <1>2 DEF DialSucceeds, WriterGoes
  <2> QED
    BY <2>1, <2>2, <2>3
<1>3. CASE DialFails
  <2>1. \A c \in Conns : state'[c] = "closed"
    BY <1>3 DEF DialFails, WriterGoes, net
  <2> QED
    BY <1>3, <2>1 DEF DialFails
<1>4. CASE Start
  BY <1>4 DEF Start, StartReader, WriterGoes, shared, net
<1>5. CASE Connect
  BY <1>5 DEF Connect, Panic, shared, net
<1>6. CASE Hello
  BY <1>6 DEF Hello, Close, WriterOnly, net
<1>7. CASE Check
  BY <1>7 DEF Check, Close, WriterOnly, shared
<1>8. CASE Gone
  BY <1>8 DEF Gone, Panic, Close, shared, net
<1>9. CASE Write
  BY <1>9 DEF Write, AfterError, Close, WriterOnly, shared
<1>10. CASE Reset
  BY <1>10 DEF Reset, WriterGoes, WriterOnly, net
<1>11. CASE ReaderChecks \/ ReadFails \/ ReaderSignals
  BY <1>11 DEF ReaderChecks, ReadFails, ReaderSignals, ReaderWaits, ReaderGoes, ReaderOnly
<1>12. CASE ReaderCloses
  BY <1>12 DEF ReaderCloses, Panic, Close, shared, net
<1>13. CASE ReaderClears
  <2>1. conn' = None /\ reader' = "signal" /\ UNCHANGED <<state, writer>>
    BY <1>13 DEF ReaderClears, ReaderGoes, ReaderOnly
  <2>2. conn # None /\ state[conn] # "closed" => writer = "start"
    BY <1>13 DEF ReaderClears, ReaderGoes
  <2> QED
    BY <2>1, <2>2
<1>14. CASE Produce \/ PostClusterStats
  BY <1>14 DEF Produce, PostClusterStats, OthersOnly, shared
<1>15. CASE \E c \in Conns : Break(c) \/ AideCloses(c)
  <2>1. PICK c \in Conns : Breaks(c) /\ OthersOnly
    BY <1>15 DEF Break, AideCloses
  <2> QED
    BY <2>1 DEF Breaks, OthersOnly, shared
<1>16. CASE UNCHANGED vars
  BY <1>16 DEF vars, shared, net
<1> QED
  BY <1>1, <1>2, <1>3, <1>4, <1>5, <1>6, <1>7, <1>8, <1>9, <1>10, <1>11, <1>12, <1>13,
     <1>14, <1>15, <1>16 DEF Next, WriterNext, ReaderNext
----------------------------------------------------------------------------
(* The theorems *)

\* The channel stays within its capacity and the reader reads from a
\* connection, whatever both goroutines do to the variables they share.
THEOREM TypeCorrect == Spec => []TypeOK
<1>1. Init => TypeInv
  BY DialerAssumption DEF Init, TypeInv, TypeOK
<1>2. TypeInv => TypeOK
  BY DEF TypeInv
<1> QED
  BY <1>1, <1>2, TypeInvStep, PTL DEF Spec

\* A connection that this node has ended, or whose write failed, costs one
\* packet at most (aide-dialer.go:243-252).
THEOREM LosesOneMore == Spec => []OneLossMore
<1>1. Init => LossInv
  BY DEF Init, LossInv
<1>2. LossInv => OneLossMore
  BY DEF LossInv, OneLossMore
<1> QED
  BY <1>1, <1>2, LossInvStep, PTL DEF Spec

\* No connection is dialed over and left open (aide-dialer.go:172, 235-237,
\* 250, 296).
THEOREM LeavesNoneOpen == Spec => []NoneLeftOpen
<1>1. Init => ConnInv
  BY DialerAssumption
     DEF Init, ConnInv, TypeInv, TypeOK, ClosedBeforeDial, ClosedBeforeClear, NoneLeftOpen
<1>2. ConnInv => NoneLeftOpen
  BY DEF ConnInv
<1> QED
  BY <1>1, <1>2, ConnInvStep, PTL DEF Spec
=============================================================================

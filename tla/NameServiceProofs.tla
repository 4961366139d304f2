------------------------- MODULE NameServiceProofs -------------------------
(***************************************************************************)
(* Proofs about NameService, for any names, keys, commands, restarts and   *)
(* channels: who owns a name, that the table agrees with the database, and *)
(* that a command is answered once.                                        *)
(***************************************************************************)
EXTENDS NameService, SequenceTheorems, TLAPS

Messages == Cmds \cup [op : {"back"}, cmd : Cmds, obj : Nat]
Works == {Idle} \cup [stage : {"reserve", "push"}, cmd : Cmds, obj : Nat]

\* TypeOK without the bounds on channels and restarts.
Types ==
    /\ db \in [Names -> Records \cup {NoRecord}]
    /\ heap \in Seq(Objects)
    /\ table \in [Names -> Nat]
    /\ incoming \in [Names -> Seq(Messages)]
    /\ busy \in [Names -> Works]
    /\ loads \subseteq [cmd : Cmds, name : Names, obj : Nat]
    /\ replies \in [1..MaxCommands -> Seq({"ok", "error"})]
    /\ sent \in 0..MaxCommands /\ restarts \in Nat
    /\ reserved \in [Names -> SUBSET Keys] /\ deletes \subseteq Names

\* A guru that went down by itself had a command for each time, and there is
\* no command left when it comes back.
AtWork == loads # {} \/ \E n \in Names : incoming[n] # <<>> \/ busy[n] # Idle

BoundsInv ==
    /\ \A n \in Names : Len(incoming[n]) <= InCap
    /\ restarts <= MaxRestarts + sent
    /\ AtWork => restarts < MaxRestarts + sent

\* A load or its callback is for a command on an entry, and the callback has
\* one; a reserve comes from somebody who sent it for this name; a command has
\* one of its forms.
CommandsInv ==
    /\ \A n \in Names : \A m \in Range(incoming[n]) :
          /\ m.op = "back" /\ m.cmd.op \in EntryOps => m.obj # 0
          /\ m.op = "reserve" => m.key \in reserved[n]
          /\ m.op # "back" => HasForm(m)
    /\ \A n \in Names : busy[n] # Idle =>
          /\ busy[n].cmd.op \notin EntryOps
          /\ busy[n].stage = "reserve" => busy[n].cmd.tokenKey \in reserved[n]

\* What n refers to.
Refers(n, o) ==
    \/ o = table[n]
    \/ \E m \in Range(incoming[n]) : m.op = "back" /\ m.obj = o
    \/ busy[n] # Idle /\ busy[n].obj = o
    \/ \E l \in loads : l.name = n /\ l.obj = o

\* Options are from the owner, in objects and in documents.
OptionsInv ==
    /\ \A o \in 1..Len(heap) : \A x \in heap[o].opts : x[2] = heap[o].owner
    /\ \A n \in Names : db[n] # NoRecord => \A x \in db[n].opts : x[2] = db[n].owner

\* k may be the owner in an object that n refers to.
Proper(n, k) ==
    \/ k = NoKey
    \/ k \in reserved[n] /\ (n \notin deletes => db[n] # NoRecord /\ db[n].owner = k)

OwnersInv ==
    /\ \A n \in Names : db[n] # NoRecord => db[n].owner \in reserved[n]
    /\ \A n \in Names, o \in Nat \ {0} : Refers(n, o) => o \in 1..Len(heap) /\ Proper(n, heap[o].owner)

IInv == Types /\ BoundsInv /\ CommandsInv /\ OptionsInv /\ OwnersInv
----------------------------------------------------------------------------
(* Sequences *)

LEMMA Appended ==
    ASSUME NEW S, NEW s \in Seq(S), NEW e
    PROVE  /\ Range(Append(s, e)) = Range(s) \cup {e}
           /\ Len(Append(s, e)) = Len(s) + 1 /\ Len(s) \in Nat /\ Append(s, e) # <<>>
           /\ e \in S => Append(s, e) \in Seq(S)
<1> DEFINE T == S \cup {e}
<1>1. s \in Seq(T) /\ e \in T
  BY SeqMonotonic
<1> HIDE DEF T
<1>2. /\ Len(Append(s, e)) = Len(s) + 1 /\ Len(s) \in Nat
      /\ \A i \in 1..Len(s) : Append(s, e)[i] = s[i]
      /\ Append(s, e)[Len(s) + 1] = e
      /\ DOMAIN s = 1..Len(s) /\ DOMAIN Append(s, e) = 1..(Len(s) + 1)
      /\ Append(s, e) # <<>>
  BY <1>1, AppendProperties, LenProperties
<1>3. Range(Append(s, e)) = Range(s) \cup {e}
  <2>1. 1..(Len(s) + 1) = 1..Len(s) \cup {Len(s) + 1}
    BY <1>2
  <2> QED
    BY <1>2, <2>1 DEF Range
<1> QED
  BY <1>2, <1>3, AppendProperties

LEMMA Taken ==
    ASSUME NEW S, NEW s \in Seq(S), s # <<>>
    PROVE  /\ Head(s) \in S /\ Head(s) \in Range(s)
           /\ Tail(s) \in Seq(S) /\ Range(Tail(s)) \subseteq Range(s)
           /\ Len(Tail(s)) < Len(s) /\ Len(s) \in Nat
<1>1. /\ Head(s) \in S /\ Tail(s) \in Seq(S) /\ Len(Tail(s)) = Len(s) - 1 /\ Len(s) \in Nat \ {0}
      /\ Head(s) = s[1] /\ \A i \in 1..Len(Tail(s)) : Tail(s)[i] = s[i + 1]
      /\ DOMAIN s = 1..Len(s) /\ DOMAIN Tail(s) = 1..Len(Tail(s))
  BY HeadTailProperties, LenProperties, EmptySeq
<1>2. \A i \in 1..(Len(s) - 1) : i + 1 \in 1..Len(s)
  BY <1>1
<1> QED
  BY <1>1, <1>2 DEF Range

LEMMA Elements ==
    ASSUME NEW S, NEW s \in Seq(S)
    PROVE  /\ Range(s) \subseteq S /\ Len(s) \in Nat /\ DOMAIN s = 1..Len(s)
           /\ \A m \in Range(s) : \E i \in 1..Len(s) : m = s[i]
           /\ \A i \in 1..Len(s) : s[i] \in S /\ s[i] \in Range(s)
BY LenProperties, ElementOfSeq DEF Range

LEMMA Nothing == \A S : <<>> \in Seq(S) /\ Len(<<>>) = 0 /\ Range(<<>>) = {}
BY EmptySeq DEF Range
----------------------------------------------------------------------------
(* Types *)

\* Whatever a bucket takes off its channel.
LEMMA Message ==
    ASSUME Types, NEW n \in Names, NEW m \in Next1(n)
    PROVE  /\ m \in Messages /\ m = Head(incoming[n]) /\ incoming[n] # <<>>
           /\ m.op = "back" => m.cmd \in Cmds /\ m.obj \in Nat
           /\ m.op # "back" => m \in Cmds
<1>1. incoming[n] \in Seq(Messages) /\ incoming[n] # <<>> /\ m = Head(incoming[n])
  BY DEF Types, Next1
<1>2. m \in Messages
  BY <1>1, Taken
<1> QED
  BY <1>1, <1>2 DEF Messages, Cmds, AllKinds, SetOps

\* All that n refers to is in the heap.
LEMMA InHeap ==
    ASSUME IInv, NEW n \in Names
    PROVE  /\ \A o \in Nat \ {0} : Refers(n, o) => o \in 1..Len(heap) /\ heap[o] \in Objects
           /\ Loaded(n) => table[n] \in 1..Len(heap) /\ Entry(n) \in Objects
<1>1. \A o \in Nat \ {0} : Refers(n, o) => o \in 1..Len(heap) /\ heap[o] \in Objects
  BY Elements DEF IInv, OwnersInv, Types
<1>2. Refers(n, table[n]) /\ table[n] \in Nat
  BY DEF Refers, IInv, Types
<1> QED
  BY <1>1, <1>2 DEF Loaded, Entry

LEMMA Replies ==
    ASSUME Types, NEW c \in Cmds, NEW r \in {"ok", "error"}, Reply(c, r)
    PROVE  replies' \in [1..MaxCommands -> Seq({"ok", "error"})]
<1>1. c.id \in 1..MaxCommands
  BY DEF Cmds
<1>2. Append(replies[c.id], r) \in Seq({"ok", "error"})
  BY <1>1, AppendProperties DEF Types
<1> QED
  BY <1>1, <1>2 DEF Reply, Types

\* The channel of n gets one message less, or one more.
LEMMA ChannelTaken ==
    ASSUME Types, NEW n \in Names, incoming[n] # <<>>, incoming' = [incoming EXCEPT ![n] = Tail(@)]
    PROVE  /\ incoming' \in [Names -> Seq(Messages)]
           /\ \A k \in Names : Range(incoming'[k]) \subseteq Range(incoming[k]) /\ Len(incoming'[k]) <= Len(incoming[k])
<1>1. /\ incoming[n] \in Seq(Messages) /\ Tail(incoming[n]) \in Seq(Messages)
      /\ Range(Tail(incoming[n])) \subseteq Range(incoming[n]) /\ Len(Tail(incoming[n])) < Len(incoming[n])
  BY Taken DEF Types
<1>2. \A k \in Names : Len(incoming[k]) \in Nat
  BY Elements DEF Types
<1>3. Len(Tail(incoming[n])) <= Len(incoming[n])
  BY <1>1, <1>2, Elements
<1>4. incoming'[n] = Tail(incoming[n]) /\ \A k \in Names \ {n} : incoming'[k] = incoming[k]
  BY DEF Types
<1>5. incoming' \in [Names -> Seq(Messages)]
  BY <1>1 DEF Types
<1>6. \A k \in Names : Range(incoming'[k]) \subseteq Range(incoming[k]) /\ Len(incoming'[k]) <= Len(incoming[k])
  BY <1>1, <1>2, <1>3, <1>4
<1> QED
  BY <1>5, <1>6

LEMMA ChannelGets ==
    ASSUME Types, NEW n \in Names, NEW m \in Messages, incoming' = [incoming EXCEPT ![n] = Append(@, m)]
    PROVE  /\ incoming' \in [Names -> Seq(Messages)]
           /\ Range(incoming'[n]) = Range(incoming[n]) \cup {m} /\ Len(incoming'[n]) = Len(incoming[n]) + 1
           /\ \A k \in Names \ {n} : incoming'[k] = incoming[k]
<1>1. incoming[n] \in Seq(Messages)
  BY DEF Types
<1>2. incoming'[n] = Append(incoming[n], m) /\ \A k \in Names \ {n} : incoming'[k] = incoming[k]
  BY DEF Types
<1> QED
  BY <1>1, <1>2, Appended DEF Types

LEMMA CallBackMessage ==
    ASSUME NEW c \in Cmds, NEW o \in Nat
    PROVE  CallBack(c, o) \in Messages
BY DEF CallBack, Messages

\* If the document of n changes, it is that of an object with an owner.
SavesAtMost(n, o) ==
    UNCHANGED db \/ (heap[o].owner \in Keys /\ db' = [db EXCEPT ![n] = AsDocument(heap'[o])])

\* What the end of a command does to the objects and documents.
LEMMA Finished ==
    ASSUME Types, NEW n \in Names, NEW c \in Cmds, NEW o \in 1..Len(heap), Finish(n, c, o)
    PROVE  /\ replies' \in [1..MaxCommands -> Seq({"ok", "error"})]
           /\ db' \in [Names -> Records \cup {NoRecord}]
           /\ heap' \in Seq(Objects) /\ Len(heap') = Len(heap)
           /\ \A i \in 1..Len(heap) :
                 /\ heap'[i].owner = heap[i].owner
                 /\ \A x \in heap'[i].opts : x \in heap[i].opts \/ x[2] = heap[i].owner
           /\ SavesAtMost(n, o)
<1> DEFINE ok == May(c, heap[o]) /\ c.form = "good"
<1>1. replies' \in [1..MaxCommands -> Seq({"ok", "error"})]
  BY Replies DEF Finish
<1>2. heap \in Seq(Objects) /\ heap[o] \in Objects /\ c.key \in Keys /\ c.id \in 1..MaxCommands
  BY Elements DEF Types, Cmds
<1>3. CASE ok /\ c.op \in SetOps
  <2>1. c.key = heap[o].owner
    BY <1>3 DEF May
  <2>2. PICK e : /\ e = (IF c.op = "replace" THEN ReplaceOptions(c, heap[o]) ELSE SetOption(c, heap[o]))
                 /\ heap' = [heap EXCEPT ![o] = e] /\ SaveSubscription(n, e)
    BY <1>3 DEF Finish
  <2>3. /\ e \in Objects /\ e.owner = heap[o].owner
        /\ \A x \in e.opts : x \in heap[o].opts \/ x[2] = heap[o].owner
    <3>1. CASE c.op = "replace"
      <4>1. e = [heap[o] EXCEPT !.opts = {<<c.id, c.key>>}]
        BY <2>2, <3>1 DEF ReplaceOptions
      <4>2. <<c.id, c.key>> \in (1..MaxCommands) \X Keys
        BY <1>2
      <4>3. {<<c.id, c.key>>} \in SUBSET ((1..MaxCommands) \X Keys)
        BY <4>2
      <4>4. e \in Objects /\ e.owner = heap[o].owner /\ e.opts = {<<c.id, c.key>>}
        BY <1>2, <4>1, <4>3 DEF Objects
      <4> QED
        BY <2>1, <4>4
    <3>2. CASE c.op # "replace"
      BY <1>2, <2>1, <2>2, <3>2 DEF SetOption, Objects
    <3> QED
      BY <3>1, <3>2
  <2>4. /\ heap' \in Seq(Objects) /\ Len(heap') = Len(heap)
        /\ \A i \in 1..Len(heap) : heap'[i] = IF i = o THEN e ELSE heap[i]
    BY <1>2, <2>2, <2>3, ExceptSeq
  <2>5. AsDocument(e) \in Records
    BY <2>3 DEF AsDocument, Objects, Records
  <2>6. db' = [db EXCEPT ![n] = AsDocument(heap'[o])]
    BY <2>2, <2>4 DEF SaveSubscription
  <2>7. db' \in [Names -> Records \cup {NoRecord}]
    BY <2>2, <2>5 DEF SaveSubscription, Types
  <2>8. SavesAtMost(n, o)
    BY <1>2, <2>1, <2>6 DEF SavesAtMost
  <2>9. \A i \in 1..Len(heap) :
           /\ heap'[i].owner = heap[i].owner
           /\ \A x \in heap'[i].opts : x \in heap[i].opts \/ x[2] = heap[i].owner
    BY <2>3, <2>4
  <2> QED
    BY <1>1, <2>4, <2>7, <2>8, <2>9
<1>4. CASE ~(ok /\ c.op \in SetOps)
  <2>1. UNCHANGED <<heap, db>>
    BY <1>4 DEF Finish
  <2>2. SavesAtMost(n, o)
    BY <2>1 DEF SavesAtMost
  <2> QED
    BY <1>1, <2>1, <2>2 DEF Types
<1> QED
  BY <1>3, <1>4

\* A bucket that works has a command.
LEMMA Working ==
    ASSUME Types, NEW n \in Names, busy[n] # Idle
    PROVE  busy[n].stage \in {"reserve", "push"} /\ busy[n].cmd \in Cmds /\ busy[n].obj \in Nat
BY DEF Types, Works

LEMMA NewObject ==
    ASSUME Types, NEW e \in Objects, heap' = Append(heap, e)
    PROVE  /\ heap' \in Seq(Objects) /\ Len(heap') = Len(heap) + 1 /\ Len(heap) \in Nat
           /\ heap'[Len(heap) + 1] = e /\ \A i \in 1..Len(heap) : heap'[i] = heap[i]
BY AppendProperties, LenProperties DEF Types

ReserveRefused(n) ==
    Reply(busy[n].cmd, "error") /\ busy' = [busy EXCEPT ![n] = Idle] /\ UNCHANGED <<heap, db>>

\* What a reserve does to them: the name gets a document of the sender of the
\* reserve, and so does the entry.
LEMMA ReserveSaved ==
    ASSUME IInv, NEW n \in Names, ReserveSave(n), ~ReserveRefused(n)
    PROVE  \E o \in Nat \ {0} :
             /\ (Refers(n, o) /\ Len(heap') = Len(heap)) \/ o = Len(heap) + 1
             /\ heap' \in Seq(Objects) /\ Len(heap) <= Len(heap') /\ o \in 1..Len(heap') /\ Len(heap') <= Len(heap) + 1
             /\ \A i \in 1..Len(heap) : heap'[i].owner = heap[i].owner /\ heap'[i].opts = heap[i].opts
             /\ heap'[o] \in Objects /\ heap'[o].owner = busy[n].cmd.tokenKey
             /\ \A x \in heap'[o].opts : x[2] = heap'[o].owner
             /\ db[n] # NoRecord /\ ~Refers(n, o) => heap'[o].owner = db[n].owner
             /\ db' = [db EXCEPT ![n] = AsDocument(heap'[o])]
             /\ busy' = [busy EXCEPT ![n] = [stage |-> "push", cmd |-> busy[n].cmd, obj |-> o]]
             /\ UNCHANGED replies
<1> DEFINE c == busy[n].cmd
           o == busy[n].obj
           obj == IF o # 0 THEN heap[o]
                  ELSE IF db[n] # NoRecord THEN AsEntry(db[n])
                  ELSE [owner |-> c.tokenKey, opts |-> {}, subs |-> {}]
<1>1. busy[n] # Idle /\ c \in Cmds /\ c.tokenKey \in Keys /\ o \in Nat /\ Types /\ OptionsInv
  <2>1. busy[n] # Idle
    BY DEF ReserveSave, Idle
  <2> QED
    BY <2>1, Working DEF IInv, Cmds
<1>2. Len(heap) \in Nat
  BY <1>1, Elements DEF Types
<1>3. Mine(obj.owner, c.tokenKey)
  BY DEF ReserveSave, ReserveRefused
<1>4. CASE o # 0
  <2>1. Refers(n, o) /\ o \in 1..Len(heap) /\ heap[o] \in Objects
    BY <1>1, <1>4, InHeap DEF Refers
  <2>2. heap[o].owner = c.tokenKey
    BY <1>3, <1>4 DEF Mine
  <2> DEFINE kept == [heap[o] EXCEPT !.owner = c.tokenKey]
  <2>3. kept \in Objects /\ kept.owner = heap[o].owner /\ kept.opts = heap[o].opts
    BY <1>1, <2>1, <2>2 DEF Objects
  <2>4. heap' = [heap EXCEPT ![o] = kept] /\ db' = [db EXCEPT ![n] = AsDocument(kept)]
        /\ busy' = [busy EXCEPT ![n] = [stage |-> "push", cmd |-> c, obj |-> o]] /\ UNCHANGED replies
    BY <1>3, <1>4 DEF ReserveSave, SaveSubscription
  <2> HIDE DEF kept
  <2>5. heap' \in Seq(Objects) /\ Len(heap') = Len(heap) /\ \A i \in 1..Len(heap) : heap'[i] = IF i = o THEN kept ELSE heap[i]
    BY <1>1, <2>1, <2>3, <2>4, ExceptSeq DEF Types
  <2>6. \A x \in heap'[o].opts : x[2] = heap'[o].owner
    BY <1>1, <2>1, <2>3, <2>5 DEF OptionsInv
  <2>7. o \in Nat \ {0} /\ Len(heap) <= Len(heap') /\ Len(heap') <= Len(heap) + 1 /\ o \in 1..Len(heap')
    BY <1>1, <1>2, <1>4, <2>1, <2>5
  <2>8. \A i \in 1..Len(heap) : heap'[i].owner = heap[i].owner /\ heap'[i].opts = heap[i].opts
    BY <2>3, <2>5
  <2>9. heap'[o] = kept
    BY <2>1, <2>5
  <2> HIDE DEF o, c
  <2> QED
    BY <2>1, <2>2, <2>3, <2>4, <2>5, <2>6, <2>7, <2>8, <2>9 DEF c
<1>5. CASE o = 0
  <2>1. obj \in Objects /\ obj.owner = c.tokenKey /\ (\A x \in obj.opts : x[2] = obj.owner)
        /\ (db[n] # NoRecord => obj.owner = db[n].owner)
    <3>1. CASE db[n] # NoRecord
      <4>1. db[n] \in Records /\ obj = AsEntry(db[n])
        BY <1>1, <1>5, <3>1 DEF Types
      <4>2. AsEntry(db[n]) \in Objects /\ AsEntry(db[n]).owner = db[n].owner /\ AsEntry(db[n]).opts = db[n].opts
        BY <4>1 DEF AsEntry, Records, Objects
      <4>3. obj.owner = c.tokenKey
        BY <1>3 DEF Mine
      <4> QED
        BY <1>1, <3>1, <4>1, <4>2, <4>3 DEF OptionsInv
    <3>2. CASE db[n] = NoRecord
      <4>1. obj = [owner |-> c.tokenKey, opts |-> {}, subs |-> {}]
        BY <1>5, <3>2
      <4> QED
        BY <1>1, <3>2, <4>1 DEF Objects
    <3> QED
      BY <3>1, <3>2
  <2>2. heap' = Append(heap, obj) /\ db' = [db EXCEPT ![n] = AsDocument(obj)]
        /\ busy' = [busy EXCEPT ![n] = [stage |-> "push", cmd |-> c, obj |-> Len(heap) + 1]] /\ UNCHANGED replies
    BY <1>3, <1>5 DEF ReserveSave, SaveSubscription
  <2> HIDE DEF obj
  <2>3. heap' \in Seq(Objects) /\ Len(heap') = Len(heap) + 1 /\ heap'[Len(heap) + 1] = obj
        /\ \A i \in 1..Len(heap) : heap'[i] = heap[i]
    BY <1>1, <2>1, <2>2, NewObject
  <2>4. Len(heap) + 1 \in Nat \ {0} /\ Len(heap) + 1 \in 1..Len(heap') /\ Len(heap) <= Len(heap')
        /\ Len(heap') <= Len(heap) + 1
    BY <1>2, <2>3
  <2> QED
    BY <2>1, <2>2, <2>3, <2>4
<1> QED
  BY <1>1, <1>4, <1>5

\* Watchers change, and nothing else of an entry.
LEMMA Watchers ==
    ASSUME IInv, NEW n \in Names, Loaded(n), NEW S \in SUBSET Subscribers,
           heap' = [heap EXCEPT ![table[n]].subs = S]
    PROVE  /\ heap' \in Seq(Objects) /\ Len(heap') = Len(heap)
           /\ \A i \in 1..Len(heap) : heap'[i].owner = heap[i].owner /\ heap'[i].opts = heap[i].opts
<1>1. table[n] \in 1..Len(heap) /\ heap[table[n]] \in Objects /\ heap \in Seq(Objects)
  BY InHeap DEF IInv, Types, Entry
<1> DEFINE e == [heap[table[n]] EXCEPT !.subs = S]
<1>2. e \in Objects /\ e.owner = heap[table[n]].owner /\ e.opts = heap[table[n]].opts
  BY <1>1 DEF Objects
<1>3. heap' = [heap EXCEPT ![table[n]] = e]
  OBVIOUS
<1> HIDE DEF e
<1>4. heap' \in Seq(Objects) /\ Len(heap') = Len(heap)
      /\ \A i \in 1..Len(heap) : heap'[i] = IF i = table[n] THEN e ELSE heap[i]
  BY <1>1, <1>2, <1>3, ExceptSeq
<1> QED
  BY <1>2, <1>4
----------------------------------------------------------------------------
(* Objects and documents in a step *)

\* No object is lost, none changes its owner, and options come from the owner.
HeapGrows ==
    /\ heap' \in Seq(Objects) /\ Len(heap) <= Len(heap')
    /\ \A i \in 1..Len(heap) :
          /\ heap'[i].owner = heap[i].owner
          /\ \A x \in heap'[i].opts : x \in heap[i].opts \/ x[2] = heap[i].owner
    /\ \A i \in 1..Len(heap') : i > Len(heap) => \A x \in heap'[i].opts : x[2] = heap'[i].owner

LEMMA CallBackRuns ==
    ASSUME IInv, NEW n \in Names, RunCallBack(n)
    PROVE  \E b \in Next1(n) :
             /\ b \in Range(incoming[n]) /\ b.op = "back" /\ b.cmd \in Cmds /\ b.obj \in Nat /\ Refers(n, b.obj)
             /\ Takes(n, b) /\ table' = [table EXCEPT ![n] = b.obj] /\ UNCHANGED <<busy, loads, deletes>>
             /\ \/ b.obj \in 1..Len(heap) /\ Finish(n, b.cmd, b.obj)
                \/ Reply(b.cmd, "ok") /\ UNCHANGED <<heap, db>>
<1>1. PICK b \in Next1(n) :
         /\ Takes(n, b) /\ b.op = "back" /\ table' = [table EXCEPT ![n] = b.obj] /\ UNCHANGED <<busy, loads, deletes>>
         /\ IF b.cmd.op \in EntryOps THEN Finish(n, b.cmd, b.obj) ELSE Reply(b.cmd, "ok") /\ UNCHANGED <<heap, db>>
  BY DEF RunCallBack
<1>2. b \in Range(incoming[n]) /\ b.cmd \in Cmds /\ b.obj \in Nat
  <2>1. incoming[n] \in Seq(Messages) /\ incoming[n] # <<>> /\ b = Head(incoming[n]) /\ b.cmd \in Cmds /\ b.obj \in Nat
    BY <1>1, Message DEF IInv, Types
  <2> QED
    BY <2>1, Taken
<1>3. Refers(n, b.obj)
  BY <1>1, <1>2 DEF Refers
<1>4. b.cmd.op \in EntryOps => b.obj \in 1..Len(heap)
  BY <1>1, <1>2, <1>3, InHeap DEF IInv, CommandsInv
<1> QED
  BY <1>1, <1>2, <1>3, <1>4

LEMMA HeapSame ==
    ASSUME Types, UNCHANGED heap
    PROVE  HeapGrows
BY Elements DEF Types, HeapGrows

LEMMA WatchersChange ==
    ASSUME IInv, NEW n \in Names, Loaded(n),
           \E S \in SUBSET Subscribers : heap' = [heap EXCEPT ![table[n]].subs = S]
    PROVE  HeapGrows
<1>1. heap' \in Seq(Objects) /\ Len(heap') = Len(heap) /\ Len(heap) \in Nat
      /\ \A i \in 1..Len(heap) : heap'[i].owner = heap[i].owner /\ heap'[i].opts = heap[i].opts
  BY Watchers, Elements DEF IInv, Types
<1> QED
  BY <1>1 DEF HeapGrows

LEMMA HeapStep ==
    ASSUME IInv, [Next]_vars
    PROVE  GoesDown \/ HeapGrows
<1> USE DEF IInv
<1>h. heap \in Seq(Objects) /\ Len(heap) \in Nat
  BY Elements DEF Types
<1>1. ASSUME NEW n \in Names, NEW s \in Subscribers, Subscribe(n, s) PROVE HeapGrows
  <2>1. CASE Loaded(n)
    <3>1. Entry(n) \in Objects
      BY <2>1, InHeap
    <3>2. Entry(n).subs \cup {s} \in SUBSET Subscribers
      BY <3>1 DEF Objects
    <3>3. heap' = [heap EXCEPT ![table[n]].subs = Entry(n).subs \cup {s}]
      BY <1>1, <2>1 DEF Subscribe, Entry
    <3> QED
      BY <2>1, <3>2, <3>3, WatchersChange
  <2>2. CASE ~Loaded(n)
    <3> DEFINE e == [owner |-> NoKey, opts |-> {}, subs |-> {s}]
    <3>1. heap' = Append(heap, e) /\ e \in Objects /\ e.opts = {}
      BY <1>1, <2>2 DEF Subscribe, Objects
    <3> HIDE DEF e
    <3>2. heap' \in Seq(Objects) /\ Len(heap') = Len(heap) + 1 /\ heap'[Len(heap) + 1] = e
          /\ \A i \in 1..Len(heap) : heap'[i] = heap[i]
      BY <3>1, NewObject
    <3>3. Len(heap) <= Len(heap') /\ \A i \in 1..Len(heap') : i > Len(heap) => i = Len(heap) + 1
      BY <1>h, <3>2
    <3> QED
      BY <3>1, <3>2, <3>3 DEF HeapGrows
  <2> QED
    BY <2>1, <2>2
<1>2. ASSUME NEW n \in Names, NEW s \in Subscribers, Unsubscribe(n, s) PROVE HeapGrows
  <2>1. Loaded(n) /\ Entry(n) \in Objects
    BY <1>2, InHeap DEF Unsubscribe
  <2>2. Entry(n).subs \ {s} \in SUBSET Subscribers
    BY <2>1 DEF Objects
  <2>3. heap' = [heap EXCEPT ![table[n]].subs = Entry(n).subs \ {s}]
    BY <1>2 DEF Unsubscribe, Entry
  <2> QED
    BY <2>1, <2>2, <2>3, WatchersChange
<1>3. ASSUME NEW n \in Names, Sweep(n) PROVE HeapGrows
  <2>1. Loaded(n) /\ Entry(n) \in Objects
    BY <1>3, InHeap DEF Sweep
  <2>2. PICK left \in SUBSET Entry(n).subs : heap' = [heap EXCEPT ![table[n]].subs = left]
    BY <1>3 DEF Sweep
  <2>3. left \in SUBSET Subscribers
    BY <2>1, <2>2 DEF Objects
  <2> QED
    BY <2>1, <2>2, <2>3, WatchersChange
<1>4. ASSUME NEW n \in Names, OnEntry(n) PROVE HeapGrows
  <2>1. PICK c \in Next1(n) : c \in Cmds /\ Finish(n, c, table[n])
    BY <1>4, Message DEF OnEntry, Executes, EntryOps, SetOps
  <2>2. table[n] \in 1..Len(heap)
    BY <1>4, InHeap DEF OnEntry
  <2> QED
    BY <1>h, <2>1, <2>2, Finished DEF HeapGrows
<1>5. ASSUME NEW n \in Names, RunCallBack(n) PROVE HeapGrows
  <2>1. PICK b \in Next1(n) : b.cmd \in Cmds /\ ((b.obj \in 1..Len(heap) /\ Finish(n, b.cmd, b.obj)) \/ UNCHANGED heap)
    BY <1>5, CallBackRuns
  <2>2. CASE UNCHANGED heap
    BY <2>2, HeapSame
  <2>3. CASE b.obj \in 1..Len(heap) /\ Finish(n, b.cmd, b.obj)
    BY <1>h, <2>1, <2>3, Finished DEF HeapGrows
  <2> QED
    BY <2>1, <2>2, <2>3
<1>6. ASSUME NEW l \in loads, LoadRead(l) PROVE HeapGrows
  <2>1. CASE db[l.name] = NoRecord
    BY <1>6, <2>1, HeapSame DEF LoadRead
  <2>2. CASE db[l.name] # NoRecord
    <3> DEFINE e == AsEntry(db[l.name])
    <3>1. l.name \in Names
      BY DEF Types
    <3>2. db[l.name] \in Records
      BY <2>2, <3>1 DEF Types
    <3>3. e \in Objects /\ e.owner = db[l.name].owner /\ e.opts = db[l.name].opts
      BY <3>2 DEF AsEntry, Records, Objects
    <3>4. heap' = Append(heap, e)
      BY <1>6, <2>2 DEF LoadRead
    <3>5. \A x \in e.opts : x[2] = e.owner
      BY <2>2, <3>1, <3>3 DEF OptionsInv
    <3> HIDE DEF e
    <3>6. heap' \in Seq(Objects) /\ Len(heap') = Len(heap) + 1 /\ heap'[Len(heap) + 1] = e
          /\ \A i \in 1..Len(heap) : heap'[i] = heap[i]
      BY <3>3, <3>4, NewObject
    <3>7. Len(heap) <= Len(heap') /\ \A i \in 1..Len(heap') : i > Len(heap) => i = Len(heap) + 1
      BY <1>h, <3>6
    <3> QED
      BY <3>5, <3>6, <3>7 DEF HeapGrows
  <2> QED
    BY <2>1, <2>2
<1>7. ASSUME NEW n \in Names, ReserveSave(n) PROVE HeapGrows
  <2>1. CASE ReserveRefused(n)
    BY <2>1, HeapSame DEF ReserveRefused
  <2>2. CASE ~ReserveRefused(n)
    <3>1. PICK o \in Nat \ {0} :
             /\ (Refers(n, o) /\ Len(heap') = Len(heap)) \/ o = Len(heap) + 1
             /\ heap' \in Seq(Objects) /\ Len(heap) <= Len(heap') /\ o \in 1..Len(heap') /\ Len(heap') <= Len(heap) + 1
             /\ \A i \in 1..Len(heap) : heap'[i].owner = heap[i].owner /\ heap'[i].opts = heap[i].opts
             /\ \A x \in heap'[o].opts : x[2] = heap'[o].owner
      BY <1>7, <2>2, ReserveSaved
    <3>2. \A i \in 1..Len(heap') : i > Len(heap) => i = o
      <4>1. Refers(n, o) => o \in 1..Len(heap)
        BY InHeap
      <4>2. Len(heap') \in Nat
        BY <3>1, Elements
      <4> QED
        BY <1>h, <3>1, <4>1, <4>2
    <3> QED
      BY <3>1, <3>2 DEF HeapGrows
  <2> QED
    BY <2>1, <2>2
<1>8. CASE UNCHANGED heap
  BY <1>8, HeapSame
<1> QED
  BY <1>1, <1>2, <1>3, <1>4, <1>5, <1>6, <1>7, <1>8
     DEF Next, vars, Bucket, Load, Send, Restart, Ruin, Refuse, Info, StartLoad, LoadPush, ReserveStart, DeleteStart, Push

LEMMA OptionsStep ==
    ASSUME IInv, HeapGrows
    PROVE  \A o \in 1..Len(heap') : \A x \in heap'[o].opts : x[2] = heap'[o].owner
<1>1. Len(heap) \in Nat /\ Len(heap') \in Nat
  BY Elements DEF HeapGrows, IInv, Types
<1>2. ASSUME NEW o \in 1..Len(heap'), NEW x \in heap'[o].opts PROVE x[2] = heap'[o].owner
  <2>1. CASE o > Len(heap)
    BY <1>2, <2>1 DEF HeapGrows
  <2>2. CASE ~(o > Len(heap))
    <3>1. o \in 1..Len(heap)
      BY <1>1, <2>2
    <3> QED
      BY <3>1, <1>2 DEF HeapGrows, IInv, OptionsInv
  <2> QED
    BY <2>1, <2>2
<1> QED
  BY <1>2

\* What is reserved or deleted is remembered.
LEMMA HistoryStep ==
    ASSUME Types, [Next]_vars
    PROVE  /\ reserved' \in [Names -> SUBSET Keys] /\ deletes' \subseteq Names /\ deletes \subseteq deletes'
           /\ \A n \in Names : reserved[n] \subseteq reserved'[n]
<1> USE DEF Types, history
<1>1. ASSUME NEW n \in Names, Send(n)
      PROVE  /\ reserved' \in [Names -> SUBSET Keys] /\ UNCHANGED deletes
             /\ \A k \in Names : reserved[k] \subseteq reserved'[k]
  BY <1>1 DEF Send
<1>2. ASSUME NEW n \in Names, DeleteStart(n)
      PROVE  UNCHANGED reserved /\ deletes' \subseteq Names /\ deletes \subseteq deletes'
  BY <1>2 DEF DeleteStart, Executes, Takes
<1>3. CASE UNCHANGED <<reserved, deletes>>
  BY <1>3
<1> QED
  BY <1>1, <1>2, <1>3
     DEF Next, vars, Bucket, Load, Subscribe, Unsubscribe, Sweep, Restart, Ruin, GoesDown, Refuse, Info, OnEntry,
         StartLoad, RunCallBack, LoadRead, LoadPush, ReserveStart, ReserveSave, Push, Executes, Takes

\* A name is not lost and not given away, unless it is deleted.
DbKept ==
    /\ db' \in [Names -> Records \cup {NoRecord}]
    /\ \A n \in Names : n \notin deletes' /\ db[n] # NoRecord => db'[n] # NoRecord /\ db'[n].owner = db[n].owner
    /\ \A n \in Names : db'[n] # NoRecord =>
          db'[n].owner \in reserved'[n] /\ \A x \in db'[n].opts : x[2] = db'[n].owner

LEMMA DbSame ==
    ASSUME IInv, UNCHANGED db, \A n \in Names : reserved[n] \subseteq reserved'[n]
    PROVE  DbKept
BY DEF DbKept, IInv, Types, OwnersInv, OptionsInv

\* An object is saved, of somebody who reserved the name and owned it before.
LEMMA Saved ==
    ASSUME IInv, HeapGrows, UNCHANGED <<reserved, deletes>>, NEW n \in Names, NEW o \in 1..Len(heap'),
           db' = [db EXCEPT ![n] = AsDocument(heap'[o])],
           heap'[o].owner \in reserved[n],
           n \notin deletes /\ db[n] # NoRecord => db[n].owner = heap'[o].owner
    PROVE  DbKept
<1> DEFINE d == AsDocument(heap'[o])
<1>1. heap'[o] \in Objects
  BY Elements DEF HeapGrows
<1>2. d \in Records /\ d.owner = heap'[o].owner /\ d.opts = heap'[o].opts
  BY <1>1 DEF AsDocument, Objects, Records
<1>3. \A x \in d.opts : x[2] = d.owner
  BY <1>2, OptionsStep
<1>4. d # NoRecord
  BY <1>2, NoRecordAssumption
<1>5. db' = [db EXCEPT ![n] = d] /\ db \in [Names -> Records \cup {NoRecord}]
  BY DEF IInv, Types
<1> HIDE DEF d
<1>6. db' \in [Names -> Records \cup {NoRecord}] /\ db'[n] = d /\ \A k \in Names \ {n} : db'[k] = db[k]
  BY <1>2, <1>5
<1> QED
  BY <1>2, <1>3, <1>4, <1>6 DEF DbKept, IInv, OwnersInv, OptionsInv

LEMMA FinishSaves ==
    ASSUME IInv, HeapGrows, UNCHANGED <<reserved, deletes>>, NEW n \in Names, NEW c \in Cmds,
           NEW o \in 1..Len(heap), Refers(n, o), Finish(n, c, o)
    PROVE  DbKept
<1>1. Len(heap') = Len(heap) /\ heap'[o].owner = heap[o].owner
      /\ (UNCHANGED db \/ (heap[o].owner \in Keys /\ db' = [db EXCEPT ![n] = AsDocument(heap'[o])]))
  <2>1. Types
    BY DEF IInv
  <2>2. Len(heap') = Len(heap) /\ \A i \in 1..Len(heap) : heap'[i].owner = heap[i].owner
    BY <2>1, Finished
  <2>3. SavesAtMost(n, o)
    BY <2>1, Finished
  <2> QED
    BY <2>2, <2>3 DEF SavesAtMost
<1>2. o \in Nat \ {0}
  OBVIOUS
<1>3. Proper(n, heap[o].owner)
  BY <1>2 DEF IInv, OwnersInv
<1>4. CASE UNCHANGED db
  BY <1>4, DbSame
<1>5. CASE heap[o].owner \in Keys /\ db' = [db EXCEPT ![n] = AsDocument(heap'[o])]
  <2>1. heap'[o].owner \in reserved[n] /\ (n \notin deletes => db[n] # NoRecord /\ db[n].owner = heap'[o].owner)
    BY <1>1, <1>3, <1>5, NameServiceAssumption DEF Proper
  <2> QED
    BY <1>1, <1>5, <2>1, Saved
<1> QED
  BY <1>1, <1>4, <1>5

LEMMA DbStep ==
    ASSUME IInv, [Next]_vars
    PROVE  DbKept
<1>1. \A n \in Names : reserved[n] \subseteq reserved'[n]
  BY HistoryStep DEF IInv
<1>2. GoesDown => DbKept
  BY <1>1, DbSame DEF GoesDown
<1> SUFFICES ASSUME ~GoesDown PROVE DbKept
  BY <1>2
<1>h. HeapGrows
  BY HeapStep
<1>3. ASSUME NEW n \in Names, OnEntry(n) PROVE DbKept
  <2>1. PICK c \in Next1(n) : c \in Cmds /\ Finish(n, c, table[n]) /\ UNCHANGED <<reserved, deletes>>
    BY <1>3, Message DEF OnEntry, Executes, Takes, EntryOps, SetOps, IInv
  <2>2. table[n] \in 1..Len(heap) /\ Refers(n, table[n])
    BY <1>3, InHeap DEF OnEntry, Refers
  <2> QED
    BY <1>h, <2>1, <2>2, FinishSaves
<1>4. ASSUME NEW n \in Names, RunCallBack(n) PROVE DbKept
  <2>1. PICK b \in Next1(n) :
           /\ b.cmd \in Cmds /\ Refers(n, b.obj) /\ UNCHANGED <<reserved, deletes>>
           /\ (b.obj \in 1..Len(heap) /\ Finish(n, b.cmd, b.obj)) \/ UNCHANGED <<heap, db>>
    BY <1>4, CallBackRuns DEF Takes
  <2>2. CASE UNCHANGED <<heap, db>>
    BY <1>1, <2>2, DbSame
  <2>3. CASE b.obj \in 1..Len(heap) /\ Finish(n, b.cmd, b.obj)
    BY <1>h, <2>1, <2>3, FinishSaves
  <2> QED
    BY <2>1, <2>2, <2>3
<1>5. ASSUME NEW n \in Names, ReserveSave(n) PROVE DbKept
  <2>1. CASE ReserveRefused(n)
    BY <1>1, <2>1, DbSame DEF ReserveRefused
  <2>2. CASE ~ReserveRefused(n)
    <3>1. PICK o \in Nat \ {0} :
             /\ (Refers(n, o) /\ Len(heap') = Len(heap)) \/ o = Len(heap) + 1
             /\ o \in 1..Len(heap')
             /\ \A i \in 1..Len(heap) : heap'[i].owner = heap[i].owner
             /\ heap'[o].owner = busy[n].cmd.tokenKey
             /\ db[n] # NoRecord /\ ~Refers(n, o) => heap'[o].owner = db[n].owner
             /\ db' = [db EXCEPT ![n] = AsDocument(heap'[o])]
      BY <1>5, <2>2, ReserveSaved
    <3>3. busy[n] # Idle /\ busy[n].stage = "reserve" /\ UNCHANGED <<reserved, deletes>>
      BY <1>5 DEF ReserveSave, Idle, history
    <3>4. heap'[o].owner \in reserved[n] /\ heap'[o].owner \in Keys
      BY <3>1, <3>3, Working DEF IInv, CommandsInv, Cmds
    <3>5. n \notin deletes /\ db[n] # NoRecord => db[n].owner = heap'[o].owner
      <4>1. CASE ~Refers(n, o)
        BY <3>1, <4>1
      <4>2. CASE Refers(n, o)
        <5>1. Proper(n, heap[o].owner) /\ o \in 1..Len(heap)
          BY <4>2, <3>1 DEF IInv, OwnersInv
        <5> QED
          BY <5>1, <3>1, <3>4, NameServiceAssumption DEF Proper
      <4> QED
        BY <4>1, <4>2
    <3> QED
      BY <1>h, <3>1, <3>3, <3>4, <3>5, Saved
  <2> QED
    BY <2>1, <2>2
<1>6. ASSUME NEW n \in Names, DeleteStart(n) PROVE DbKept
  <2>1. CASE UNCHANGED db
    BY <1>1, <2>1, DbSame
  <2>2. CASE ~UNCHANGED db
    <3>1. db' = [db EXCEPT ![n] = NoRecord] /\ n \in deletes'
      BY <1>6, <2>2 DEF DeleteStart
    <3> QED
      BY <1>1, <3>1 DEF DbKept, IInv, Types, OwnersInv, OptionsInv
  <2> QED
    BY <2>1, <2>2
<1>7. CASE UNCHANGED db
  BY <1>1, <1>7, DbSame
<1> QED
  BY <1>3, <1>4, <1>5, <1>6, <1>7
     DEF Next, vars, Bucket, Load, Send, Subscribe, Unsubscribe, Sweep, Restart, Ruin, Refuse, Info, StartLoad,
         LoadRead, LoadPush, ReserveStart, Push
----------------------------------------------------------------------------
(* References in a step *)

\* Proper, after the step.
ProperThen(n, k) ==
    \/ k = NoKey
    \/ k \in reserved'[n] /\ (n \notin deletes' => db'[n] # NoRecord /\ db'[n].owner = k)

\* An object that was made in this step for name n.
NewFor(n, o) == o = Len(heap) + 1 /\ o \in 1..Len(heap') /\ ProperThen(n, heap'[o].owner)

TableKept ==
    /\ table' \in [Names -> Nat]
    /\ \A k \in Names : table'[k] = 0 \/ Refers(k, table'[k]) \/ NewFor(k, table'[k])

LEMMA TableSame ==
    ASSUME Types, UNCHANGED table
    PROVE  TableKept
BY DEF Types, TableKept, Refers

LEMMA TableSet ==
    ASSUME Types, NEW n \in Names, NEW o \in Nat, o = 0 \/ Refers(n, o) \/ NewFor(n, o),
           table' = [table EXCEPT ![n] = o]
    PROVE  TableKept
<1>1. table' \in [Names -> Nat] /\ table'[n] = o
  BY DEF Types
<1>2. \A k \in Names \ {n} : table'[k] = table[k]
  BY DEF Types
<1>3. \A k \in Names : Refers(k, table[k])
  BY DEF Refers
<1> QED
  BY <1>1, <1>2, <1>3 DEF TableKept

LEMMA TableStep ==
    ASSUME IInv, [Next]_vars, ~GoesDown
    PROVE  TableKept
<1>t. Types /\ Len(heap) \in Nat /\ Len(heap) + 1 \in Nat
  BY Elements DEF IInv, Types
<1>1. ASSUME NEW n \in Names, NEW s \in Subscribers, Subscribe(n, s) PROVE TableKept
  <2>1. CASE Loaded(n)
    BY <1>t, <1>1, <2>1, TableSame DEF Subscribe
  <2>2. CASE ~Loaded(n)
    <3> DEFINE e == [owner |-> NoKey, opts |-> {}, subs |-> {s}]
    <3>1. heap' = Append(heap, e) /\ e \in Objects /\ e.owner = NoKey /\ table' = [table EXCEPT ![n] = Len(heap) + 1]
      BY <1>1, <2>2 DEF Subscribe, Objects
    <3> HIDE DEF e
    <3>2. heap'[Len(heap) + 1] = e /\ Len(heap') = Len(heap) + 1
      BY <1>t, <3>1, NewObject
    <3>3. NewFor(n, Len(heap) + 1)
      BY <1>t, <3>1, <3>2 DEF NewFor, ProperThen
    <3> QED
      BY <1>t, <3>1, <3>3, TableSet
  <2> QED
    BY <2>1, <2>2
<1>2. ASSUME NEW n \in Names, (\E s \in Subscribers : Unsubscribe(n, s)) \/ Sweep(n) PROVE TableKept
  <2>1. table' = [table EXCEPT ![n] = 0] \/ UNCHANGED table
    BY <1>2 DEF Unsubscribe, Sweep
  <2> QED
    BY <1>t, <2>1, TableSame, TableSet
<1>3. ASSUME NEW n \in Names, RunCallBack(n) PROVE TableKept
  <2>1. PICK b \in Next1(n) : b.obj \in Nat /\ Refers(n, b.obj) /\ table' = [table EXCEPT ![n] = b.obj]
    BY <1>3, CallBackRuns
  <2> QED
    BY <1>t, <2>1, TableSet
<1>4. CASE UNCHANGED table
  BY <1>t, <1>4, TableSame
<1> QED
  BY <1>1, <1>2, <1>3, <1>4
     DEF Next, vars, Bucket, Load, Send, Restart, Ruin, Refuse, Info, OnEntry, StartLoad,
         LoadRead, LoadPush, ReserveStart, ReserveSave, DeleteStart, Push

\* Loads go on, or are new and refer to nothing or to an object of their own.
LoadsKept ==
    /\ loads' \subseteq [cmd : Cmds, name : Names, obj : Nat]
    /\ \A l \in loads' : l \in loads \/ l.obj = 0 \/ NewFor(l.name, l.obj)

LEMMA LoadsStep ==
    ASSUME IInv, [Next]_vars, ~GoesDown
    PROVE  LoadsKept
<1>t. Types /\ Len(heap) \in Nat /\ Len(heap) + 1 \in Nat /\ loads \subseteq [cmd : Cmds, name : Names, obj : Nat]
  BY Elements DEF IInv, Types
<1>1. ASSUME NEW n \in Names, StartLoad(n) PROVE LoadsKept
  <2>1. PICK c \in Next1(n) : c.op \in EntryOps /\ loads' = loads \cup {[cmd |-> c, name |-> n, obj |-> 0]}
    BY <1>1 DEF StartLoad, Executes
  <2>2. c \in Cmds
    BY <1>t, <2>1, Message DEF EntryOps, SetOps
  <2> QED
    BY <1>t, <2>1, <2>2 DEF LoadsKept
<1>2. ASSUME NEW l \in loads, LoadRead(l) PROVE LoadsKept
  <2>1. CASE db[l.name] = NoRecord
    BY <1>t, <1>2, <2>1 DEF LoadRead, LoadsKept
  <2>2. CASE db[l.name] # NoRecord
    <3> DEFINE e == AsEntry(db[l.name])
    <3>1. l.name \in Names /\ db[l.name] \in Records
      BY <1>t, <2>2 DEF Types
    <3>2. e \in Objects /\ e.owner = db[l.name].owner
      BY <3>1 DEF AsEntry, Records, Objects
    <3>3. heap' = Append(heap, e) /\ loads' = (loads \ {l}) \cup {[l EXCEPT !.obj = Len(heap) + 1]}
          /\ UNCHANGED <<db, reserved, deletes>>
      BY <1>2, <2>2 DEF LoadRead, history
    <3> HIDE DEF e
    <3>4. heap'[Len(heap) + 1] = e /\ Len(heap') = Len(heap) + 1
      BY <1>t, <3>2, <3>3, NewObject
    <3>5. db[l.name].owner \in reserved[l.name]
      BY <2>2, <3>1 DEF IInv, OwnersInv
    <3>6. NewFor(l.name, Len(heap) + 1)
      BY <1>t, <2>2, <3>2, <3>3, <3>4, <3>5 DEF NewFor, ProperThen
    <3> DEFINE k == [l EXCEPT !.obj = Len(heap) + 1]
    <3>7. k \in [cmd : Cmds, name : Names, obj : Nat] /\ k.name = l.name /\ k.obj = Len(heap) + 1
      BY <1>t
    <3>8. loads' = (loads \ {l}) \cup {k}
      BY <3>3
    <3> HIDE DEF k
    <3> QED
      BY <1>t, <3>6, <3>7, <3>8 DEF LoadsKept
  <2> QED
    BY <2>1, <2>2
<1>3. ASSUME NEW l \in loads, LoadPush(l) PROVE LoadsKept
  BY <1>t, <1>3 DEF LoadPush, LoadsKept
<1>4. CASE UNCHANGED loads
  BY <1>t, <1>4 DEF LoadsKept
<1> QED
  BY <1>1, <1>2, <1>3, <1>4
     DEF Next, vars, Bucket, Load, Send, Subscribe, Unsubscribe, Sweep, Restart, Ruin, Refuse, Info, OnEntry,
         RunCallBack, ReserveStart, ReserveSave, DeleteStart, Push

\* A message that comes into the channel of n: a command of a client, or the
\* callback for an object that n refers to.
Comes(n, m) ==
    \/ m \in Cmds /\ HasForm(m) /\ (m.op = "reserve" => m.key \in reserved'[n])
    \/ m.op = "back" /\ Refers(n, m.obj) /\ (m.cmd.op \in EntryOps => m.obj # 0)

ChannelsKept ==
    /\ incoming' \in [Names -> Seq(Messages)]
    /\ \A k \in Names : Len(incoming'[k]) <= InCap
    /\ \A k \in Names : \A m \in Range(incoming'[k]) : m \in Range(incoming[k]) \/ Comes(k, m)

LEMMA OneTaken ==
    ASSUME IInv, NEW n \in Names, NEW m, Takes(n, m)
    PROVE  ChannelsKept
<1>1. /\ incoming' \in [Names -> Seq(Messages)]
      /\ \A k \in Names : Range(incoming'[k]) \subseteq Range(incoming[k]) /\ Len(incoming'[k]) <= Len(incoming[k])
  BY ChannelTaken DEF IInv, Takes
<1>2. \A k \in Names : Len(incoming[k]) <= InCap /\ Len(incoming[k]) \in Nat
  BY Elements DEF IInv, Types, BoundsInv
<1>3. \A k \in Names : Len(incoming'[k]) \in Nat
  BY <1>1, Elements
<1>4. \A k \in Names : Len(incoming'[k]) <= InCap
  BY <1>1, <1>2, <1>3, NameServiceAssumption
<1> QED
  BY <1>1, <1>4 DEF ChannelsKept

LEMMA OneComes ==
    ASSUME IInv, NEW n \in Names, NEW m \in Messages, Room(n), Comes(n, m),
           incoming' = [incoming EXCEPT ![n] = Append(@, m)]
    PROVE  ChannelsKept
<1>1. /\ incoming' \in [Names -> Seq(Messages)]
      /\ Range(incoming'[n]) = Range(incoming[n]) \cup {m} /\ Len(incoming'[n]) = Len(incoming[n]) + 1
      /\ \A k \in Names \ {n} : incoming'[k] = incoming[k]
  BY ChannelGets DEF IInv
<1>2. \A k \in Names : Len(incoming[k]) <= InCap /\ Len(incoming[k]) \in Nat
  BY Elements DEF IInv, Types, BoundsInv
<1>3. Len(incoming[n]) + 1 <= InCap
  BY <1>2, NameServiceAssumption DEF Room
<1> QED
  BY <1>1, <1>2, <1>3 DEF ChannelsKept

LEMMA ChannelsSame ==
    ASSUME IInv, UNCHANGED incoming
    PROVE  ChannelsKept
BY DEF ChannelsKept, IInv, Types, BoundsInv

LEMMA ChannelsStep ==
    ASSUME IInv, [Next]_vars, ~GoesDown
    PROVE  ChannelsKept
<1>t. Types
  BY DEF IInv
<1>1. ASSUME NEW n \in Names, Send(n) PROVE ChannelsKept
  <2>1. PICK c \in [op : Kinds, id : {sent + 1}, key : Keys, form : Forms, tokenKey : Keys, allowed : Allowances] :
           /\ HasForm(c)
           /\ incoming' = [incoming EXCEPT ![n] = Append(@, c)]
           /\ reserved' = IF c.op = "reserve" THEN [reserved EXCEPT ![n] = @ \cup {c.key}] ELSE reserved
    BY <1>1 DEF Send
  <2>2. sent + 1 \in 1..MaxCommands
    BY <1>t, <1>1, NameServiceAssumption DEF Send, Types
  <2>3. c \in Cmds
    BY <2>1, <2>2, NameServiceAssumption DEF Cmds
  <2>4. c \in Messages
    BY <2>3 DEF Messages
  <2>5. c.op = "reserve" => c.key \in reserved'[n]
    BY <1>t, <2>1 DEF Types
  <2>6. Comes(n, c)
    BY <2>1, <2>3, <2>5 DEF Comes
  <2>7. Room(n)
    BY <1>1 DEF Send
  <2> QED
    BY <2>1, <2>4, <2>6, <2>7, OneComes
<1>2. ASSUME NEW l \in loads, LoadPush(l) PROVE ChannelsKept
  <2>1. l.cmd \in Cmds /\ l.name \in Names /\ l.obj \in Nat /\ Refers(l.name, l.obj)
    BY <1>t DEF Types, Refers
  <2>2. CallBack(l.cmd, l.obj) \in Messages /\ Comes(l.name, CallBack(l.cmd, l.obj))
    BY <1>2, <2>1, CallBackMessage DEF CallBack, Comes, LoadPush
  <2>3. Room(l.name) /\ incoming' = [incoming EXCEPT ![l.name] = Append(@, CallBack(l.cmd, l.obj))]
    BY <1>2 DEF LoadPush
  <2> QED
    BY <2>1, <2>2, <2>3, OneComes
<1>3. ASSUME NEW n \in Names, Push(n) PROVE ChannelsKept
  <2>1. busy[n] # Idle
    BY <1>3 DEF Push, Idle
  <2>2. busy[n].cmd \in Cmds /\ busy[n].obj \in Nat /\ busy[n].cmd.op \notin EntryOps
    BY <1>t, <2>1, Working DEF IInv, CommandsInv
  <2>3. Refers(n, busy[n].obj)
    BY <2>1 DEF Refers
  <2> DEFINE m == CallBack(busy[n].cmd, busy[n].obj)
  <2>4. m \in Messages /\ Comes(n, m)
    BY <2>2, <2>3, CallBackMessage DEF CallBack, Comes
  <2>5. Room(n) /\ incoming' = [incoming EXCEPT ![n] = Append(@, m)]
    BY <1>3 DEF Push
  <2> HIDE DEF m
  <2> QED
    BY <2>4, <2>5, OneComes
<1>4. ASSUME NEW n \in Names, Refuse(n) \/ Info(n) \/ OnEntry(n) \/ StartLoad(n) \/ RunCallBack(n) \/ ReserveStart(n) \/ DeleteStart(n)
      PROVE  ChannelsKept
  <2>1. \E m : Takes(n, m)
    BY <1>4 DEF Refuse, Info, OnEntry, StartLoad, RunCallBack, ReserveStart, DeleteStart, Executes
  <2> QED
    BY <2>1, OneTaken
<1>5. CASE UNCHANGED incoming
  BY <1>5, ChannelsSame
<1> QED
  BY <1>1, <1>2, <1>3, <1>4, <1>5
     DEF Next, vars, Bucket, Load, Subscribe, Unsubscribe, Sweep, Restart, Ruin, LoadRead, ReserveSave

\* A bucket goes on with its work, or begins with a command that it has taken.
Begins(n) ==
    /\ busy'[n].cmd.op \notin EntryOps
    /\ busy'[n].stage = "reserve" => busy'[n].cmd.tokenKey \in reserved[n]
    /\ busy'[n].obj = 0 \/ Refers(n, busy'[n].obj) \/ NewFor(n, busy'[n].obj)

WorkKept ==
    /\ busy' \in [Names -> Works]
    /\ \A k \in Names : busy'[k] = busy[k] \/ busy'[k] = Idle \/ Begins(k)

LEMMA WorkSet ==
    ASSUME Types, NEW n \in Names, NEW w \in Works, busy' = [busy EXCEPT ![n] = w], w = Idle \/ Begins(n)
    PROVE  WorkKept
BY DEF Types, WorkKept

LEMMA WorkStep ==
    ASSUME IInv, [Next]_vars, ~GoesDown
    PROVE  WorkKept
<1>t. Types
  BY DEF IInv
<1>1. ASSUME NEW n \in Names, ReserveStart(n), ~UNCHANGED busy PROVE WorkKept
  <2>1. PICK c \in Next1(n) : /\ Takes(n, c) /\ c.op = "reserve" /\ OwnToken(c)
                              /\ busy' = [busy EXCEPT ![n] = [stage |-> "reserve", cmd |-> c, obj |-> table[n]]]
    BY <1>1 DEF ReserveStart, Executes
  <2>2. c \in Cmds /\ incoming[n] \in Seq(Messages) /\ incoming[n] # <<>> /\ c = Head(incoming[n])
    BY <1>t, <2>1, Message DEF Types
  <2>3. c.key \in reserved[n]
    BY <2>1, <2>2, Taken DEF IInv, CommandsInv
  <2> DEFINE w == [stage |-> "reserve", cmd |-> c, obj |-> table[n]]
  <2>4. w \in Works /\ w.cmd = c /\ w.obj = table[n]
    BY <1>t, <2>2 DEF Works, Types
  <2>5. busy' = [busy EXCEPT ![n] = w] /\ busy'[n] = w
    BY <1>t, <2>1 DEF Types
  <2> HIDE DEF w
  <2>6. Begins(n)
    BY <2>1, <2>3, <2>4, <2>5 DEF Begins, OwnToken, Refers, EntryOps, SetOps
  <2> QED
    BY <1>t, <2>4, <2>5, <2>6, WorkSet
<1>2. ASSUME NEW n \in Names, ReserveSave(n) PROVE WorkKept
  <2>1. CASE ReserveRefused(n)
    BY <1>t, <2>1, WorkSet DEF ReserveRefused, Works
  <2>2. CASE ~ReserveRefused(n)
    <3>1. busy[n] # Idle /\ busy[n].stage = "reserve" /\ UNCHANGED <<reserved, deletes>>
      BY <1>2 DEF ReserveSave, Idle, history
    <3>2. busy[n].cmd \in Cmds /\ busy[n].cmd.op \notin EntryOps /\ busy[n].cmd.tokenKey \in reserved[n]
      BY <1>t, <3>1, Working DEF IInv, CommandsInv
    <3>3. PICK o \in Nat \ {0} :
             /\ Refers(n, o) \/ o = Len(heap) + 1
             /\ o \in 1..Len(heap') /\ heap'[o] \in Objects /\ heap'[o].owner = busy[n].cmd.tokenKey
             /\ db' = [db EXCEPT ![n] = AsDocument(heap'[o])]
             /\ busy' = [busy EXCEPT ![n] = [stage |-> "push", cmd |-> busy[n].cmd, obj |-> o]]
      BY <1>2, <2>2, ReserveSaved
    <3>4. db'[n] # NoRecord /\ db'[n].owner = heap'[o].owner
      <4>1. db'[n] = AsDocument(heap'[o])
        BY <1>t, <3>3 DEF Types
      <4>2. AsDocument(heap'[o]) \in Records /\ AsDocument(heap'[o]).owner = heap'[o].owner
        BY <3>3 DEF AsDocument, Objects, Records
      <4> QED
        BY <4>1, <4>2, NoRecordAssumption
    <3>5. Refers(n, o) \/ NewFor(n, o)
      BY <3>1, <3>2, <3>3, <3>4 DEF NewFor, ProperThen
    <3> DEFINE w == [stage |-> "push", cmd |-> busy[n].cmd, obj |-> o]
    <3>6. w \in Works /\ w.cmd = busy[n].cmd /\ w.obj = o /\ w.stage = "push"
      BY <3>2 DEF Works
    <3>7. busy' = [busy EXCEPT ![n] = w] /\ busy'[n] = w
      BY <1>t, <3>3 DEF Types
    <3> HIDE DEF w
    <3>8. Begins(n)
      BY <3>2, <3>5, <3>6, <3>7 DEF Begins
    <3> QED
      BY <1>t, <3>6, <3>7, <3>8, WorkSet
  <2> QED
    BY <2>1, <2>2
<1>3. ASSUME NEW n \in Names, DeleteStart(n), ~UNCHANGED busy PROVE WorkKept
  <2>1. PICK c \in Next1(n) : /\ c.op = "delete"
                              /\ busy' = [busy EXCEPT ![n] = [stage |-> "push", cmd |-> c, obj |-> 0]]
    BY <1>3 DEF DeleteStart, Executes
  <2>2. c \in Cmds
    BY <1>t, <2>1, Message
  <2> DEFINE w == [stage |-> "push", cmd |-> c, obj |-> 0]
  <2>3. w \in Works /\ w.cmd = c /\ w.obj = 0 /\ w.stage = "push"
    BY <2>2 DEF Works
  <2>4. busy' = [busy EXCEPT ![n] = w] /\ busy'[n] = w
    BY <1>t, <2>1 DEF Types
  <2> HIDE DEF w
  <2>5. Begins(n)
    BY <2>1, <2>3, <2>4 DEF Begins, EntryOps, SetOps
  <2> QED
    BY <1>t, <2>3, <2>4, <2>5, WorkSet
<1>4. ASSUME NEW n \in Names, Push(n) PROVE WorkKept
  BY <1>t, <1>4, WorkSet DEF Push, Works
<1>5. CASE UNCHANGED busy
  BY <1>t, <1>5 DEF Types, WorkKept
<1> QED
  BY <1>1, <1>2, <1>3, <1>4, <1>5
     DEF Next, vars, Bucket, Load, Send, Subscribe, Unsubscribe, Sweep, Restart, Ruin, Refuse, Info, OnEntry,
         StartLoad, RunCallBack, LoadRead, LoadPush
----------------------------------------------------------------------------
(* The invariant *)

\* A bucket that takes a step has work.
LEMMA AtWorkThere ==
    ASSUME NEW n \in Names, Bucket(n)
    PROVE  AtWork
<1>1. ASSUME Ruin(n) \/ Refuse(n) \/ Info(n) \/ OnEntry(n) \/ StartLoad(n) \/ RunCallBack(n) \/ ReserveStart(n) \/ DeleteStart(n)
      PROVE  incoming[n] # <<>>
  BY <1>1 DEF Ruin, Refuse, Info, OnEntry, StartLoad, RunCallBack, ReserveStart, DeleteStart, Next1
<1>2. ASSUME ReserveSave(n) \/ Push(n) PROVE busy[n] # Idle
  BY <1>2 DEF ReserveSave, Push, Idle
<1> QED
  BY <1>1, <1>2 DEF Bucket, AtWork

LEMMA RepliesStep ==
    ASSUME IInv, [Next]_vars
    PROVE  replies' \in [1..MaxCommands -> Seq({"ok", "error"})]
<1>t. Types
  BY DEF IInv
<1>1. ASSUME NEW n \in Names, Refuse(n) \/ Info(n) \/ ReserveStart(n) \/ DeleteStart(n) \/ Ruin(n), ~UNCHANGED replies
      PROVE  replies' \in [1..MaxCommands -> Seq({"ok", "error"})]
  <2>1. PICK c \in Next1(n) : (Bad(c) \/ c.op # "back") /\ (Reply(c, "ok") \/ Reply(c, "error"))
    BY <1>1 DEF Refuse, Info, ReserveStart, DeleteStart, Ruin, Ruins, Executes
  <2>2. c \in Cmds
    BY <1>t, <2>1, Message DEF Bad
  <2> QED
    BY <1>t, <2>1, <2>2, Replies
<1>2. ASSUME NEW n \in Names, OnEntry(n) PROVE replies' \in [1..MaxCommands -> Seq({"ok", "error"})]
  <2>1. PICK c \in Next1(n) : c \in Cmds /\ Finish(n, c, table[n])
    BY <1>t, <1>2, Message DEF OnEntry, Executes, EntryOps, SetOps
  <2>2. table[n] \in 1..Len(heap)
    BY <1>2, InHeap DEF OnEntry
  <2> QED
    BY <1>t, <2>1, <2>2, Finished
<1>3. ASSUME NEW n \in Names, RunCallBack(n) PROVE replies' \in [1..MaxCommands -> Seq({"ok", "error"})]
  <2>1. PICK b \in Next1(n) :
           /\ b.cmd \in Cmds
           /\ \/ b.obj \in 1..Len(heap) /\ Finish(n, b.cmd, b.obj)
              \/ Reply(b.cmd, "ok")
    BY <1>3, CallBackRuns
  <2> QED
    BY <1>t, <2>1, Finished, Replies
<1>4. ASSUME NEW n \in Names, ReserveSave(n), ~UNCHANGED replies
      PROVE  replies' \in [1..MaxCommands -> Seq({"ok", "error"})]
  <2>1. Reply(busy[n].cmd, "error") /\ busy[n] # Idle
    BY <1>4 DEF ReserveSave, Idle
  <2> QED
    BY <1>t, <2>1, Working, Replies
<1>5. ASSUME NEW l \in loads, LoadRead(l), ~UNCHANGED replies
      PROVE  replies' \in [1..MaxCommands -> Seq({"ok", "error"})]
  <2>1. l.cmd \in Cmds /\ (Reply(l.cmd, "ok") \/ Reply(l.cmd, "error"))
    BY <1>t, <1>5 DEF LoadRead, NotFound, Types
  <2> QED
    BY <1>t, <2>1, Replies
<1>6. CASE UNCHANGED replies
  BY <1>t, <1>6 DEF Types
<1> QED
  BY <1>1, <1>2, <1>3, <1>4, <1>5, <1>6
     DEF Next, vars, Bucket, Load, Send, Subscribe, Unsubscribe, Sweep, Restart, StartLoad, LoadPush, Push

\* The number of commands and the number of restarts.
LEMMA CountsStep ==
    ASSUME IInv, [Next]_vars
    PROVE  /\ sent' \in 0..MaxCommands /\ restarts' \in Nat
           /\ restarts' <= MaxRestarts + sent' /\ (AtWork' => restarts' < MaxRestarts + sent')
<1>t. sent \in 0..MaxCommands /\ restarts \in Nat /\ restarts <= MaxRestarts + sent
      /\ (AtWork => restarts < MaxRestarts + sent) /\ MaxRestarts \in Nat /\ MaxCommands \in Nat
  BY NameServiceAssumption DEF IInv, Types, BoundsInv
<1>1. ASSUME NEW n \in Names, Send(n)
      PROVE  sent' \in 0..MaxCommands /\ restarts' \in Nat /\ restarts' < MaxRestarts + sent'
  BY <1>t, <1>1 DEF Send
<1>2. CASE GoesDown
  <2>1. ~AtWork'
    BY <1>2 DEF GoesDown, AtWork
  <2>2. restarts' = restarts + 1 /\ sent' = sent
    BY <1>2 DEF GoesDown
  <2>3. restarts < MaxRestarts \/ AtWork
    <3>1. restarts' # restarts
      BY <1>t, <2>2
    <3>2. CASE \E n \in Names : Bucket(n)
      BY <3>2, AtWorkThere
    <3>3. CASE Restart
      BY <3>3 DEF Restart
    <3> QED
      BY <3>1, <3>2, <3>3 DEF Next, vars, Load, Send, Subscribe, Unsubscribe, Sweep, LoadRead, LoadPush
  <2> QED
    BY <1>t, <2>1, <2>2, <2>3
<1>3. ASSUME UNCHANGED <<sent, restarts>>, AtWork \/ UNCHANGED <<loads, incoming, busy>>
      PROVE  /\ sent' \in 0..MaxCommands /\ restarts' \in Nat
             /\ restarts' <= MaxRestarts + sent' /\ (AtWork' => restarts' < MaxRestarts + sent')
  <2>1. AtWork' => AtWork
    BY <1>3 DEF AtWork
  <2> QED
    BY <1>t, <1>3, <2>1
<1>4. ASSUME NEW n \in Names, Bucket(n), ~GoesDown PROVE UNCHANGED <<sent, restarts>> /\ AtWork
  BY <1>4, AtWorkThere
     DEF Bucket, Ruin, Refuse, Info, OnEntry, StartLoad, RunCallBack, ReserveStart, DeleteStart, ReserveSave, Push,
         Executes, Takes
<1>5. ASSUME NEW l \in loads, Load(l) PROVE UNCHANGED <<sent, restarts>> /\ AtWork
  BY <1>5 DEF Load, LoadRead, LoadPush, AtWork
<1>6. ASSUME NEW n \in Names, (\E s \in Subscribers : Subscribe(n, s) \/ Unsubscribe(n, s)) \/ Sweep(n)
      PROVE  UNCHANGED <<sent, restarts>> /\ UNCHANGED <<loads, incoming, busy>>
  BY <1>6 DEF Subscribe, Unsubscribe, Sweep
<1>7. CASE UNCHANGED vars
  BY <1>3, <1>7 DEF vars
<1> QED
  BY <1>t, <1>1, <1>2, <1>3, <1>4, <1>5, <1>6, <1>7 DEF Next, Restart

LEMMA TypesStep ==
    ASSUME IInv, [Next]_vars, ~GoesDown
    PROVE  Types'
<1>1. heap' \in Seq(Objects) /\ db' \in [Names -> Records \cup {NoRecord}]
  BY HeapStep, DbStep DEF HeapGrows, DbKept
<1>2. table' \in [Names -> Nat] /\ incoming' \in [Names -> Seq(Messages)] /\ busy' \in [Names -> Works]
      /\ loads' \subseteq [cmd : Cmds, name : Names, obj : Nat]
  BY TableStep, ChannelsStep, WorkStep, LoadsStep DEF TableKept, ChannelsKept, WorkKept, LoadsKept
<1>3. reserved' \in [Names -> SUBSET Keys] /\ deletes' \subseteq Names
  BY HistoryStep DEF IInv
<1> QED
  BY <1>1, <1>2, <1>3, RepliesStep, CountsStep DEF Types

LEMMA CommandsStep ==
    ASSUME IInv, [Next]_vars, ~GoesDown
    PROVE  CommandsInv'
<1>g. \A n \in Names : reserved[n] \subseteq reserved'[n]
  BY HistoryStep DEF IInv
<1>c. ChannelsKept /\ WorkKept
  BY ChannelsStep, WorkStep
<1>i. CommandsInv
  BY DEF IInv
<1>1. ASSUME NEW n \in Names, NEW m \in Range(incoming'[n])
      PROVE  /\ m.op = "back" /\ m.cmd.op \in EntryOps => m.obj # 0
             /\ m.op = "reserve" => m.key \in reserved'[n]
             /\ m.op # "back" => HasForm(m)
  <2>1. CASE m \in Range(incoming[n])
    BY <1>g, <1>i, <2>1 DEF CommandsInv
  <2>2. CASE Comes(n, m)
    <3>1. m \in Cmds => m.op # "back"
      BY DEF Cmds, AllKinds, SetOps
    <3> QED
      BY <2>2, <3>1 DEF Comes
  <2> QED
    BY <1>c, <1>1, <2>1, <2>2 DEF ChannelsKept
<1>2. ASSUME NEW n \in Names, busy'[n] # Idle
      PROVE  /\ busy'[n].cmd.op \notin EntryOps
             /\ busy'[n].stage = "reserve" => busy'[n].cmd.tokenKey \in reserved'[n]
  <2>1. CASE busy'[n] = busy[n]
    BY <1>g, <1>i, <1>2, <2>1 DEF CommandsInv
  <2>2. CASE Begins(n)
    BY <1>g, <2>2 DEF Begins
  <2> QED
    BY <1>c, <1>2, <2>1, <2>2 DEF WorkKept
<1> QED
  BY <1>1, <1>2 DEF CommandsInv, Idle

LEMMA OwnersStep ==
    ASSUME IInv, [Next]_vars, ~GoesDown
    PROVE  OwnersInv'
<1>k. HeapGrows /\ DbKept /\ TableKept /\ ChannelsKept /\ WorkKept /\ LoadsKept
  BY HeapStep, DbStep, TableStep, ChannelsStep, WorkStep, LoadsStep
<1>g. (\A n \in Names : reserved[n] \subseteq reserved'[n]) /\ deletes \subseteq deletes'
  BY HistoryStep DEF IInv
<1>l. Len(heap) \in Nat /\ Len(heap') \in Nat
  BY <1>k, Elements DEF HeapGrows, IInv, Types
\* Who was an owner is one.
<1>1. ASSUME NEW n \in Names, NEW k, Proper(n, k) PROVE ProperThen(n, k)
  BY <1>k, <1>g, <1>1 DEF Proper, ProperThen, DbKept
\* What was referred to is still good, and so is what is new.
<1>2. ASSUME NEW n \in Names, NEW o \in Nat \ {0}, Refers(n, o) \/ NewFor(n, o)
      PROVE  o \in 1..Len(heap') /\ ProperThen(n, heap'[o].owner)
  <2>1. CASE Refers(n, o)
    <3>1. o \in 1..Len(heap) /\ Proper(n, heap[o].owner)
      BY <2>1 DEF IInv, OwnersInv
    <3>2. heap'[o].owner = heap[o].owner /\ o \in 1..Len(heap')
      BY <1>k, <1>l, <3>1 DEF HeapGrows
    <3> QED
      BY <1>1, <3>1, <3>2
  <2>2. CASE NewFor(n, o)
    BY <2>2 DEF NewFor
  <2> QED
    BY <1>2, <2>1, <2>2
\* Nothing else is referred to.
<1>3. ASSUME NEW n \in Names, NEW o \in Nat \ {0}, Refers(n, o)' PROVE Refers(n, o) \/ NewFor(n, o)
  <2>1. CASE o = table'[n]
    BY <1>k, <2>1 DEF TableKept
  <2>2. ASSUME NEW m \in Range(incoming'[n]), m.op = "back", m.obj = o PROVE Refers(n, o)
    <3>1. CASE m \in Range(incoming[n])
      BY <2>2, <3>1 DEF Refers
    <3>2. CASE Comes(n, m)
      BY <2>2, <3>2 DEF Comes, Cmds, AllKinds, SetOps
    <3> QED
      BY <1>k, <2>2, <3>1, <3>2 DEF ChannelsKept
  <2>3. CASE busy'[n] # Idle /\ busy'[n].obj = o
    <3>1. CASE busy'[n] = busy[n]
      BY <2>3, <3>1 DEF Refers
    <3>2. CASE Begins(n)
      BY <2>3, <3>2 DEF Begins
    <3> QED
      BY <1>k, <2>3, <3>1, <3>2 DEF WorkKept
  <2>4. ASSUME NEW l \in loads', l.name = n, l.obj = o PROVE Refers(n, o) \/ NewFor(n, o)
    BY <1>k, <2>4 DEF LoadsKept, Refers
  <2> QED
    BY <1>3, <2>1, <2>2, <2>3, <2>4 DEF Refers, Idle
<1>4. \A n \in Names : db'[n] # NoRecord => db'[n].owner \in reserved'[n]
  BY <1>k DEF DbKept
<1>5. ASSUME NEW n \in Names, NEW o \in Nat \ {0}, Refers(n, o)'
      PROVE  o \in 1..Len(heap') /\ ProperThen(n, heap'[o].owner)
  BY <1>2, <1>3, <1>5
<1> QED
  BY <1>4, <1>5 DEF OwnersInv, ProperThen, Proper

LEMMA OptionsKept ==
    ASSUME IInv, HeapGrows, DbKept
    PROVE  OptionsInv'
BY OptionsStep DEF DbKept, OptionsInv

\* After a restart there are only documents.
LEMMA DownStep ==
    ASSUME IInv, [Next]_vars, GoesDown
    PROVE  IInv'
<1>1. /\ heap' = <<>> /\ table' = [n \in Names |-> 0] /\ incoming' = [n \in Names |-> <<>>]
      /\ busy' = [n \in Names |-> Idle] /\ loads' = {} /\ UNCHANGED <<db, reserved, deletes>>
  BY DEF GoesDown, history
<1>2. <<>> \in Seq(Objects) /\ <<>> \in Seq(Messages) /\ Len(<<>>) = 0 /\ Range(<<>>) = {}
  BY Nothing
<1>3. Types'
  BY <1>1, <1>2, RepliesStep, CountsStep DEF IInv, Types, Works
<1>4. BoundsInv'
  BY <1>1, <1>2, CountsStep, NameServiceAssumption DEF BoundsInv
<1>5. CommandsInv'
  BY <1>1, <1>2 DEF CommandsInv, Idle
<1>6. OptionsInv'
  BY <1>1, <1>2 DEF IInv, OptionsInv
<1>7. \A n \in Names, o \in Nat \ {0} : ~Refers(n, o)'
  BY <1>1, <1>2 DEF Refers, Idle
<1>8. OwnersInv'
  BY <1>1, <1>7 DEF IInv, OwnersInv
<1> QED
  BY <1>3, <1>4, <1>5, <1>6, <1>8 DEF IInv

LEMMA NextIInv == IInv /\ [Next]_vars => IInv'
<1> SUFFICES ASSUME IInv, [Next]_vars PROVE IInv'
  OBVIOUS
<1>1. CASE GoesDown
  BY <1>1, DownStep
<1>2. CASE ~GoesDown
  <2>1. Types' /\ CommandsInv' /\ OwnersInv'
    BY <1>2, TypesStep, CommandsStep, OwnersStep
  <2>2. OptionsInv'
    BY <1>2, HeapStep, DbStep, OptionsKept
  <2>3. BoundsInv'
    <3>1. \A n \in Names : Len(incoming'[n]) <= InCap
      BY <1>2, ChannelsStep DEF ChannelsKept
    <3> QED
      BY <3>1, CountsStep DEF BoundsInv
  <2> QED
    BY <2>1, <2>2, <2>3 DEF IInv
<1> QED
  BY <1>1, <1>2

LEMMA InitIInv == Init => IInv
<1> SUFFICES ASSUME Init PROVE IInv
  OBVIOUS
<1>1. <<>> \in Seq(Objects) /\ <<>> \in Seq(Messages) /\ <<>> \in Seq({"ok", "error"}) /\ Len(<<>>) = 0 /\ Range(<<>>) = {}
  BY Nothing
<1>2. Types
  BY <1>1, NameServiceAssumption DEF Init, Types, Works
<1>3. ~AtWork
  BY DEF Init, AtWork
<1>4. BoundsInv
  BY <1>1, <1>3, NameServiceAssumption DEF Init, BoundsInv
<1>5. CommandsInv
  BY <1>1 DEF Init, CommandsInv, Idle
<1>6. OptionsInv
  BY <1>1 DEF Init, OptionsInv
<1>7. \A n \in Names, o \in Nat \ {0} : ~Refers(n, o)
  BY <1>1 DEF Init, Refers, Idle
<1>8. OwnersInv
  BY <1>7 DEF Init, OwnersInv
<1> QED
  BY <1>2, <1>4, <1>5, <1>6, <1>8 DEF IInv
----------------------------------------------------------------------------
(* The theorems *)

\* Objects, documents, commands and the references between them are right, as
\* the parts of IInv say, through loads, callbacks and restarts (lookmsg.go).
THEOREM NamesInvariant == Spec => []IInv
BY InitIInv, NextIInv, PTL DEF Spec

\* Every variable has its type, no channel exceeds its capacity and a callback,
\* a load or the table never refers to an object that is not there.
THEOREM NamesTypeOK == Spec => []TypeOK
<1>1. IInv => TypeOK
  <2> SUFFICES ASSUME IInv PROVE TypeOK
    OBVIOUS
  <2>1. Types /\ BoundsInv
    BY DEF IInv
  <2>2. Len(heap) \in Nat
    BY <2>1, Elements DEF Types
  <2>3. ASSUME NEW n \in Names, NEW o \in Nat, Refers(n, o) PROVE o \in 0..Len(heap)
    BY <2>2, <2>3, InHeap
  <2>4. table \in [Names -> 0..Len(heap)]
    BY <2>1, <2>3 DEF Types, Refers
  <2>5. ASSUME NEW n \in Names, NEW m \in Range(incoming[n])
        PROVE  IF m.op = "back" THEN m.cmd \in Cmds /\ m.obj \in 0..Len(heap) ELSE m \in Cmds
    <3>1. m \in Messages
      BY <2>1, Elements DEF Types
    <3>2. m.op = "back" => m.cmd \in Cmds /\ m.obj \in Nat
      BY <3>1 DEF Messages, Cmds, AllKinds, SetOps
    <3>3. m.op # "back" => m \in Cmds
      BY <3>1 DEF Messages
    <3>4. m.op = "back" => Refers(n, m.obj)
      BY <2>5 DEF Refers
    <3> QED
      BY <2>3, <3>2, <3>3, <3>4
  <2>6. ASSUME NEW n \in Names
        PROVE  \/ busy[n] = Idle
               \/ busy[n].stage \in {"reserve", "push"} /\ busy[n].cmd \in Cmds /\ busy[n].obj \in 0..Len(heap)
    BY <2>1, <2>3, Working DEF Refers
  <2>7. ASSUME NEW l \in loads PROVE l.cmd \in Cmds /\ l.name \in Names /\ l.obj \in 0..Len(heap)
    BY <2>1, <2>3 DEF Types, Refers
  <2>8. restarts \in 0..(MaxRestarts + MaxCommands)
    BY <2>1, NameServiceAssumption DEF Types, BoundsInv
  <2> QED
    BY <2>1, <2>4, <2>5, <2>6, <2>7, <2>8 DEF TypeOK, Types, BoundsInv
<1> QED
  BY <1>1, NamesInvariant, PTL

\* Whoever owns a name has reserved it, and nobody else has set one of its
\* options: every command compares the owner of the object it changes.
THEOREM NamesOwnersOptions == Spec => []OwnersOptions
<1>1. IInv => OwnersOptions
  BY DEF IInv, OwnersInv, OptionsInv, OwnersOptions
<1> QED
  BY <1>1, NamesInvariant, PTL

\* As long as a name is not deleted, what the table holds for it has no other
\* owner than the document has.
THEOREM NamesCacheAgrees == Spec => []CacheAgrees
<1>1. IInv => CacheAgrees
  <2> SUFFICES ASSUME IInv, NEW n \in Names \ deletes, Loaded(n), Entry(n).owner # NoKey
               PROVE  db[n] # NoRecord /\ db[n].owner = Entry(n).owner
    BY DEF CacheAgrees
  <2>1. Refers(n, table[n]) /\ table[n] \in Nat \ {0}
    BY DEF IInv, Types, Refers, Loaded
  <2> QED
    BY <2>1 DEF IInv, OwnersInv, Proper, Entry
<1> QED
  BY <1>1, NamesInvariant, PTL

\* No step takes a name from its owner, unless it is deleted: neither a
\* reserve of somebody else, nor an old copy that was being loaded.
THEOREM NamesOwnerKept == Spec => OwnerKept
<1>1. IInv /\ [Next]_vars =>
        [\A n \in Names : n \notin deletes' /\ db[n] # NoRecord => db'[n] # NoRecord /\ db'[n].owner = db[n].owner]_vars
  BY DbStep DEF DbKept
<1> QED
  BY <1>1, NamesInvariant, PTL DEF Spec, OwnerKept

----------------------------------------------------------------------------
(* Answers *)


\* The command a message is for.
CommandOf(m) == IF m.op = "back" THEN m.cmd ELSE m

\* Where command x is: in a channel, in a bucket, in a goroutine.
InChannel(x) == \E n \in Names : \E m \in Range(incoming[n]) : CommandOf(m).id = x
InBucket(x) == \E n \in Names : busy[n] # Idle /\ busy[n].cmd.id = x
InLoad(x) == \E l \in loads : l.cmd.id = x
InSystem(x) == InChannel(x) \/ InBucket(x) \/ InLoad(x)

\* No command is in two places.
ChannelsApart ==
    /\ \A n \in Names : \A i, j \in 1..Len(incoming[n]) :
          CommandOf(incoming[n][i]).id = CommandOf(incoming[n][j]).id => i = j
    /\ \A n, k \in Names : \A a \in Range(incoming[n]), b \in Range(incoming[k]) :
          CommandOf(a).id = CommandOf(b).id => n = k
BucketsApart ==
    \A n, k \in Names : busy[n] # Idle /\ busy[k] # Idle /\ busy[n].cmd.id = busy[k].cmd.id => n = k
LoadsApart ==
    \A l, k \in loads : l.cmd.id = k.cmd.id => l = k
PlacesApart ==
    \A x \in 1..MaxCommands :
       ~(InChannel(x) /\ InBucket(x)) /\ ~(InChannel(x) /\ InLoad(x)) /\ ~(InBucket(x) /\ InLoad(x))

\* A command that is somewhere, or is yet to come, has no answer.
Unanswered ==
    /\ \A x \in 1..MaxCommands : InSystem(x) => x <= sent
    /\ \A x \in 1..MaxCommands : InSystem(x) \/ x > sent => replies[x] = <<>>
    /\ \A x \in 1..MaxCommands : Len(replies[x]) <= 1

OnceInv == ChannelsApart /\ BucketsApart /\ LoadsApart /\ PlacesApart /\ Unanswered
----------------------------------------------------------------------------
(* One command moves *)

\* Only command x moves, from one place to another or out, and then, if at
\* all, it is answered.
LEMMA Moved ==
    ASSUME IInv, OnceInv, ChannelsApart', BucketsApart', LoadsApart', NEW x \in 1..MaxCommands,
           \A y \in 1..MaxCommands \ {x} :
              (InChannel(y)' => InChannel(y)) /\ (InBucket(y)' => InBucket(y)) /\ (InLoad(y)' => InLoad(y)),
           ~(InChannel(x)' /\ InBucket(x)') /\ ~(InChannel(x)' /\ InLoad(x)') /\ ~(InBucket(x)' /\ InLoad(x)'),
           InSystem(x), UNCHANGED sent,
           \/ UNCHANGED replies
           \/ ~InSystem(x)' /\ \E r \in {"ok", "error"} : replies' = [replies EXCEPT ![x] = Append(@, r)]
    PROVE  OnceInv'
<1>1. replies \in [1..MaxCommands -> Seq({"ok", "error"})] /\ sent \in Nat
  BY DEF IInv, Types
<1>2. PlacesApart'
  BY DEF OnceInv, PlacesApart
<1>3. \A y \in 1..MaxCommands : InSystem(y)' => InSystem(y)
  BY DEF InSystem
<1>4. x <= sent /\ replies[x] = <<>>
  BY DEF OnceInv, Unanswered
<1>5. CASE UNCHANGED replies
  <2>1. Unanswered'
    BY <1>3, <1>5 DEF OnceInv, Unanswered
  <2> QED
    BY <1>2, <2>1 DEF OnceInv
<1>6. CASE ~InSystem(x)' /\ \E r \in {"ok", "error"} : replies' = [replies EXCEPT ![x] = Append(@, r)]
  <2>1. PICK r \in {"ok", "error"} : replies' = [replies EXCEPT ![x] = Append(@, r)]
    BY <1>6
  <2>2. replies'[x] = Append(<<>>, r) /\ \A y \in 1..MaxCommands \ {x} : replies'[y] = replies[y]
    BY <1>1, <1>4, <2>1
  <2>3. Len(replies'[x]) <= 1
    BY <2>2, Nothing, Appended
  <2>4. ~(x > sent)
    BY <1>1, <1>4
  <2>5. Unanswered'
    BY <1>3, <1>6, <2>2, <2>3, <2>4 DEF OnceInv, Unanswered
  <2> QED
    BY <1>2, <2>5 DEF OnceInv
<1> QED
  BY <1>5, <1>6

\* A message that is taken off leaves its channel, and no other does.
LEMMA TakenOut ==
    ASSUME IInv, OnceInv, NEW n \in Names, NEW m, Takes(n, m)
    PROVE  /\ ChannelsApart' /\ m \in Range(incoming[n]) /\ m \in Messages
           /\ \A y : InChannel(y)' => InChannel(y) /\ y # CommandOf(m).id
           /\ \A k \in Names : \A a \in Range(incoming[k]) : a \in Range(incoming'[k]) \/ (k = n /\ a = m)
<1>1. /\ incoming[n] \in Seq(Messages) /\ incoming[n] # <<>> /\ m = Head(incoming[n])
      /\ incoming'[n] = Tail(incoming[n]) /\ \A k \in Names \ {n} : incoming'[k] = incoming[k]
  BY DEF IInv, Types, Takes
<1> DEFINE s == incoming[n]
           t == incoming'[n]
<1>2. /\ Len(s) \in Nat \ {0} /\ Len(t) = Len(s) - 1 /\ m = s[1] /\ m \in Messages
      /\ \A i \in 1..Len(t) : t[i] = s[i + 1]
      /\ DOMAIN s = 1..Len(s) /\ DOMAIN t = 1..Len(t)
  <2>1. Len(s) \in Nat \ {0} /\ Head(s) \in Messages /\ Tail(s) \in Seq(Messages) /\ Len(Tail(s)) = Len(s) - 1
        /\ Head(s) = s[1] /\ \A i \in 1..Len(Tail(s)) : Tail(s)[i] = s[i + 1]
    BY <1>1, HeadTailProperties, EmptySeq, LenProperties
  <2> QED
    BY <1>1, <2>1, LenProperties
<1>3. \A a \in Range(t) : a \in Range(s) /\ \E i \in 2..Len(s) : a = s[i]
  <2>1. \A i \in 1..Len(t) : i + 1 \in 2..Len(s) /\ i + 1 \in 1..Len(s)
    BY <1>2
  <2> HIDE DEF s, t
  <2> QED
    BY <1>2, <2>1 DEF Range
<1>4. \A a \in Range(s) : a \in Range(t) \/ a = m
  <2>1. ASSUME NEW i \in 1..Len(s) PROVE s[i] \in Range(t) \/ s[i] = m
    <3>1. CASE i = 1
      BY <1>2, <3>1
    <3>2. CASE i # 1
      <4>1. i - 1 \in 1..Len(t) /\ (i - 1) + 1 = i
        BY <1>2, <3>2
      <4> HIDE DEF s, t
      <4> QED
        BY <1>2, <4>1 DEF Range
    <3> QED
      BY <3>1, <3>2
  <2> HIDE DEF s, t
  <2> QED
    BY <1>2, <2>1 DEF Range
<1>5. m \in Range(s)
  BY <1>1, Taken
<1>6. \A i \in 2..Len(s) : CommandOf(s[i]).id # CommandOf(m).id
  <2>1. \A i \in 2..Len(s) : i \in 1..Len(s) /\ i # 1 /\ 1 \in 1..Len(s)
    BY <1>2
  <2> QED
    BY <1>2, <2>1 DEF OnceInv, ChannelsApart
<1> HIDE DEF s, t
<1>7. \A k \in Names : \A a \in Range(incoming'[k]) : a \in Range(incoming[k]) /\ CommandOf(a).id # CommandOf(m).id
  <2>1. \A a \in Range(incoming'[n]) : a \in Range(incoming[n]) /\ CommandOf(a).id # CommandOf(m).id
    BY <1>3, <1>6 DEF s, t
  <2>2. \A k \in Names \ {n} : \A a \in Range(incoming'[k]) : a \in Range(incoming[k]) /\ CommandOf(a).id # CommandOf(m).id
    BY <1>1, <1>5 DEF OnceInv, ChannelsApart, s
  <2> QED
    BY <2>1, <2>2
<1>8. ChannelsApart'
  <2>1. ASSUME NEW k \in Names, NEW i \in 1..Len(incoming'[k]), NEW j \in 1..Len(incoming'[k]),
               CommandOf(incoming'[k][i]).id = CommandOf(incoming'[k][j]).id
        PROVE  i = j
    <3>1. CASE k = n
      <4>0. i \in 1..Len(t) /\ j \in 1..Len(t)
        BY <3>1 DEF t
      <4>1. i \in 1..Len(t) /\ j \in 1..Len(t) /\ i + 1 \in 1..Len(s) /\ j + 1 \in 1..Len(s)
        BY <1>2, <4>0
      <4>2. CommandOf(s[i + 1]).id = CommandOf(s[j + 1]).id
        BY <1>2, <2>1, <3>1, <4>1 DEF t
      <4>3. i + 1 = j + 1
        BY <4>1, <4>2 DEF OnceInv, ChannelsApart, s
      <4> QED
        BY <4>1, <4>3
    <3>2. CASE k # n
      BY <1>1, <2>1, <3>2 DEF OnceInv, ChannelsApart
    <3> QED
      BY <3>1, <3>2
  <2>2. \A k, l \in Names : \A a \in Range(incoming'[k]), b \in Range(incoming'[l]) :
           CommandOf(a).id = CommandOf(b).id => k = l
    BY <1>7 DEF OnceInv, ChannelsApart
  <2> QED
    BY <2>1, <2>2 DEF ChannelsApart
<1> QED
  BY <1>1, <1>2, <1>4, <1>5, <1>7, <1>8 DEF InChannel, s, t

\* A message comes into a channel, for a command that is in none.
LEMMA PutIn ==
    ASSUME IInv, ChannelsApart, NEW n \in Names, NEW m \in Messages, ~InChannel(CommandOf(m).id),
           incoming' = [incoming EXCEPT ![n] = Append(@, m)]
    PROVE  /\ ChannelsApart'
           /\ \A y : InChannel(y)' <=> InChannel(y) \/ y = CommandOf(m).id
           /\ m \in Range(incoming'[n])
           /\ \A k \in Names : Range(incoming[k]) \subseteq Range(incoming'[k])
<1>1. /\ incoming[n] \in Seq(Messages) /\ incoming'[n] = Append(incoming[n], m)
      /\ \A k \in Names \ {n} : incoming'[k] = incoming[k]
  BY DEF IInv, Types
<1> DEFINE s == incoming[n]
           t == incoming'[n]
<1>2. /\ Len(s) \in Nat /\ Len(t) = Len(s) + 1 /\ t[Len(s) + 1] = m /\ \A i \in 1..Len(s) : t[i] = s[i]
      /\ Range(t) = Range(s) \cup {m} /\ DOMAIN s = 1..Len(s)
  BY <1>1, AppendProperties, LenProperties, Appended
<1>3. \A i \in 1..Len(s) : s[i] \in Range(s)
  BY <1>1, Elements
<1>4. \A a \in Range(s) : CommandOf(a).id # CommandOf(m).id
  BY DEF InChannel, s
<1>5. \A k \in Names : \A a \in Range(incoming[k]) : CommandOf(a).id # CommandOf(m).id
  BY DEF InChannel
<1> HIDE DEF s, t
<1>6. ASSUME NEW k \in Names, NEW i \in 1..Len(incoming'[k]), NEW j \in 1..Len(incoming'[k]),
             CommandOf(incoming'[k][i]).id = CommandOf(incoming'[k][j]).id
      PROVE  i = j
  <2>1. CASE k = n
    <3>1. i \in 1..Len(t) /\ j \in 1..Len(t) /\ CommandOf(t[i]).id = CommandOf(t[j]).id
      BY <1>6, <2>1 DEF t
    <3>2. (i \in 1..Len(s) \/ i = Len(s) + 1) /\ (j \in 1..Len(s) \/ j = Len(s) + 1)
      BY <1>2, <3>1
    <3>3. CASE i \in 1..Len(s) /\ j \in 1..Len(s)
      <4>1. CommandOf(s[i]).id = CommandOf(s[j]).id
        BY <1>2, <3>1, <3>3
      <4> QED
        BY <3>3, <4>1 DEF ChannelsApart, s
    <3>4. CASE i \in 1..Len(s) /\ j = Len(s) + 1
      BY <1>2, <1>3, <1>4, <3>1, <3>4
    <3>5. CASE i = Len(s) + 1 /\ j \in 1..Len(s)
      BY <1>2, <1>3, <1>4, <3>1, <3>5
    <3> QED
      BY <3>2, <3>3, <3>4, <3>5
  <2>2. CASE k # n
    BY <1>1, <1>6, <2>2 DEF ChannelsApart
  <2> QED
    BY <2>1, <2>2
<1>7. \A k \in Names : \A a \in Range(incoming'[k]) : a \in Range(incoming[k]) \/ (k = n /\ a = m)
  BY <1>1, <1>2 DEF s, t
<1>8. \A k, l \in Names : \A a \in Range(incoming'[k]), b \in Range(incoming'[l]) :
         CommandOf(a).id = CommandOf(b).id => k = l
  BY <1>5, <1>7 DEF ChannelsApart
<1>9. ChannelsApart'
  BY <1>6, <1>8 DEF ChannelsApart
<1>10. m \in Range(incoming'[n]) /\ \A k \in Names : Range(incoming[k]) \subseteq Range(incoming'[k])
  BY <1>1, <1>2 DEF s, t
<1>11. \A y : InChannel(y)' <=> InChannel(y) \/ y = CommandOf(m).id
  BY <1>7, <1>10 DEF InChannel
<1> QED
  BY <1>9, <1>10, <1>11

\* Another bucket works on command y.
InOther(n, y) == \E k \in Names \ {n} : busy[k] # Idle /\ busy[k].cmd.id = y

\* A bucket that becomes free, or works on a command that no other has.
LEMMA BucketSet ==
    ASSUME IInv, BucketsApart, NEW n \in Names, NEW w, busy' = [busy EXCEPT ![n] = w],
           w = Idle \/ ~InOther(n, w.cmd.id)
    PROVE  /\ BucketsApart'
           /\ \A y : InBucket(y)' <=> InOther(n, y) \/ (w # Idle /\ w.cmd.id = y)
<1>1. busy'[n] = w /\ \A k \in Names \ {n} : busy'[k] = busy[k]
  BY DEF IInv, Types
<1>2. UNCHANGED Idle
  BY DEF Idle
<1>3. BucketsApart'
  BY <1>1, <1>2 DEF BucketsApart, InOther
<1>4. \A y : InBucket(y)' <=> \E k \in Names : busy'[k] # Idle /\ busy'[k].cmd.id = y
  BY <1>2 DEF InBucket
<1> QED
  BY <1>1, <1>3, <1>4 DEF InOther

\* What the parts have to do with each other, while a part does not change.
LEMMA PartsSame ==
    /\ UNCHANGED incoming => /\ ChannelsApart' <=> ChannelsApart
                             /\ \A y : InChannel(y)' <=> InChannel(y)
    /\ UNCHANGED busy => /\ BucketsApart' <=> BucketsApart
                         /\ \A y : InBucket(y)' <=> InBucket(y)
    /\ UNCHANGED loads => /\ LoadsApart' <=> LoadsApart
                          /\ \A y : InLoad(y)' <=> InLoad(y)
<1>1. UNCHANGED Idle
  BY DEF Idle
<1>2. UNCHANGED incoming => (ChannelsApart' <=> ChannelsApart) /\ \A y : InChannel(y)' <=> InChannel(y)
  BY DEF ChannelsApart, InChannel
<1>3. UNCHANGED busy => (BucketsApart' <=> BucketsApart) /\ \A y : InBucket(y)' <=> InBucket(y)
  BY <1>1 DEF BucketsApart, InBucket
<1>4. UNCHANGED loads => (LoadsApart' <=> LoadsApart) /\ \A y : InLoad(y)' <=> InLoad(y)
  BY DEF LoadsApart, InLoad
<1> QED
  BY <1>2, <1>3, <1>4

\* A message is for one of the commands.
LEMMA CommandNumbers ==
    ASSUME NEW m \in Messages
    PROVE  CommandOf(m) \in Cmds /\ CommandOf(m).id \in 1..MaxCommands
BY DEF Messages, Cmds, CommandOf, AllKinds, SetOps

\* Where a command is alone.
LEMMA Alone ==
    ASSUME OnceInv, NEW x \in 1..MaxCommands
    PROVE  /\ InChannel(x) => ~InBucket(x) /\ ~InLoad(x)
           /\ InBucket(x) => ~InChannel(x) /\ ~InLoad(x)
           /\ InLoad(x) => ~InChannel(x) /\ ~InBucket(x)
BY DEF OnceInv, PlacesApart
----------------------------------------------------------------------------
(* The steps *)

Replied(c) == \E r \in {"ok", "error"} : Reply(c, r)

\* The bucket takes a command, and that was all, or there is an answer.
LEMMA EndsInChannel ==
    ASSUME IInv, OnceInv, NEW n \in Names, NEW m, Takes(n, m), UNCHANGED <<busy, loads>>,
           UNCHANGED replies \/ Replied(CommandOf(m))
    PROVE  OnceInv'
<1> DEFINE x == CommandOf(m).id
<1>1. /\ ChannelsApart' /\ m \in Range(incoming[n]) /\ m \in Messages
      /\ \A y : InChannel(y)' => InChannel(y) /\ y # x
  BY TakenOut
<1>2. x \in 1..MaxCommands /\ InChannel(x)
  BY <1>1, CommandNumbers DEF InChannel
<1>3. BucketsApart' /\ LoadsApart' /\ \A y : (InBucket(y)' <=> InBucket(y)) /\ (InLoad(y)' <=> InLoad(y))
  BY PartsSame DEF OnceInv
<1>4. ~InSystem(x)' /\ InSystem(x)
  BY <1>1, <1>2, <1>3, Alone DEF InSystem
<1>5. UNCHANGED replies \/ \E r \in {"ok", "error"} : replies' = [replies EXCEPT ![x] = Append(@, r)]
  BY DEF Replied, Reply
<1>6. UNCHANGED sent
  BY DEF Takes
<1> HIDE DEF x
<1> QED
  BY <1>1, <1>2, <1>3, <1>4, <1>5, <1>6, Moved DEF InSystem

\* The bucket takes a command and starts to load the name.
LEMMA ChannelToLoad ==
    ASSUME IInv, OnceInv, NEW n \in Names, NEW m, Takes(n, m), NEW l,
           l.cmd = CommandOf(m), loads' = loads \cup {l}, UNCHANGED <<busy, replies>>
    PROVE  OnceInv'
<1> DEFINE x == CommandOf(m).id
<1>1. /\ ChannelsApart' /\ m \in Range(incoming[n]) /\ m \in Messages
      /\ \A y : InChannel(y)' => InChannel(y) /\ y # x
  BY TakenOut
<1>2. x \in 1..MaxCommands /\ InChannel(x) /\ ~InBucket(x) /\ ~InLoad(x)
  <2>1. x \in 1..MaxCommands /\ InChannel(x)
    BY <1>1, CommandNumbers DEF InChannel
  <2> HIDE DEF x
  <2> QED
    BY <2>1, Alone
<1>3. BucketsApart' /\ \A y : InBucket(y)' <=> InBucket(y)
  BY PartsSame DEF OnceInv
<1>4. LoadsApart' /\ \A y \in 1..MaxCommands \ {x} : InLoad(y)' => InLoad(y)
  BY <1>2 DEF LoadsApart, InLoad, OnceInv
<1>5. UNCHANGED sent /\ InSystem(x)
  BY <1>2 DEF Takes, InSystem
<1> HIDE DEF x
<1> QED
  BY <1>1, <1>2, <1>3, <1>4, <1>5, Moved

\* The bucket takes a command and works on it.
LEMMA ChannelToBucket ==
    ASSUME IInv, OnceInv, NEW n \in Names, NEW m, Takes(n, m), NEW w,
           w # Idle, w.cmd = CommandOf(m), busy' = [busy EXCEPT ![n] = w], UNCHANGED <<loads, replies>>
    PROVE  OnceInv'
<1> DEFINE x == CommandOf(m).id
<1>1. /\ ChannelsApart' /\ m \in Range(incoming[n]) /\ m \in Messages
      /\ \A y : InChannel(y)' => InChannel(y) /\ y # x
  BY TakenOut
<1>2. x \in 1..MaxCommands /\ InChannel(x) /\ ~InBucket(x) /\ ~InLoad(x)
  <2>1. x \in 1..MaxCommands /\ InChannel(x)
    BY <1>1, CommandNumbers DEF InChannel
  <2> HIDE DEF x
  <2> QED
    BY <2>1, Alone
<1>3. LoadsApart' /\ \A y : InLoad(y)' <=> InLoad(y)
  BY PartsSame DEF OnceInv
<1>4. BucketsApart' /\ \A y : InBucket(y)' <=> InOther(n, y) \/ y = x
  <2>1. ~InOther(n, w.cmd.id)
    BY <1>2 DEF InOther, InBucket
  <2>2. BucketsApart' /\ \A y : InBucket(y)' <=> InOther(n, y) \/ (w # Idle /\ w.cmd.id = y)
    BY <2>1, BucketSet DEF OnceInv
  <2> QED
    BY <2>2
<1>5. \A y \in 1..MaxCommands \ {x} : InBucket(y)' => InBucket(y)
  BY <1>4 DEF InBucket, InOther
<1>6. UNCHANGED sent /\ InSystem(x)
  BY <1>2 DEF Takes, InSystem
<1> HIDE DEF x
<1> QED
  BY <1>1, <1>2, <1>3, <1>4, <1>5, <1>6, Moved

\* A bucket goes on with its command, or ends it with an answer.
LEMMA StaysInBucket ==
    ASSUME IInv, OnceInv, NEW n \in Names, busy[n] # Idle, NEW w, busy' = [busy EXCEPT ![n] = w],
           UNCHANGED <<incoming, loads, sent>>,
           \/ w # Idle /\ w.cmd = busy[n].cmd /\ UNCHANGED replies
           \/ w = Idle /\ Replied(busy[n].cmd)
    PROVE  OnceInv'
<1>0. PICK x : x = busy[n].cmd.id
  OBVIOUS
<1>1. x \in 1..MaxCommands /\ InBucket(x) /\ ~InChannel(x) /\ ~InLoad(x)
  <2>1. x \in 1..MaxCommands /\ InBucket(x)
    BY <1>0, Working DEF InBucket, IInv, Cmds
  <2> QED
    BY <2>1, Alone
<1>2. ChannelsApart' /\ LoadsApart' /\ \A y : (InChannel(y)' <=> InChannel(y)) /\ (InLoad(y)' <=> InLoad(y))
  BY PartsSame DEF OnceInv
<1>3. ~InOther(n, x)
  BY <1>0 DEF OnceInv, BucketsApart, InOther
<1>4. BucketsApart' /\ \A y : InBucket(y)' <=> InOther(n, y) \/ (w # Idle /\ w.cmd.id = y)
  BY <1>0, <1>3, BucketSet DEF OnceInv
<1>5. \A y \in 1..MaxCommands \ {x} : InBucket(y)' => InBucket(y)
  BY <1>0, <1>4 DEF InBucket, InOther
<1>6. InSystem(x)
  BY <1>1 DEF InSystem
<1>7. CASE w # Idle /\ w.cmd = busy[n].cmd /\ UNCHANGED replies
  <2> QED
    BY <1>1, <1>2, <1>4, <1>5, <1>6, <1>7, Moved
<1>8. CASE w = Idle /\ Replied(busy[n].cmd)
  <2>1. ~InBucket(x)'
    BY <1>3, <1>4, <1>8
  <2>2. ~InSystem(x)'
    BY <1>1, <1>2, <2>1 DEF InSystem
  <2>3. \E r \in {"ok", "error"} : replies' = [replies EXCEPT ![x] = Append(@, r)]
    BY <1>0, <1>8 DEF Replied, Reply
  <2> QED
    BY <1>1, <1>2, <1>4, <1>5, <1>6, <2>2, <2>3, Moved DEF InSystem
<1> QED
  BY <1>7, <1>8

\* A bucket puts its callback into the channel.
LEMMA BucketToChannel ==
    ASSUME IInv, OnceInv, NEW n \in Names, Push(n)
    PROVE  OnceInv'
<1>0. PICK x, m : x = busy[n].cmd.id /\ m = CallBack(busy[n].cmd, busy[n].obj)
  OBVIOUS
<1>1. busy[n] # Idle
  BY DEF Push, Idle
<1>2. m \in Messages /\ CommandOf(m) = busy[n].cmd
  BY <1>0, <1>1, Working, CallBackMessage DEF IInv, CommandOf, CallBack
<1>3. x \in 1..MaxCommands /\ InBucket(x) /\ ~InChannel(x) /\ ~InLoad(x)
  <2>1. x \in 1..MaxCommands /\ InBucket(x)
    BY <1>0, <1>1, Working DEF InBucket, IInv, Cmds
  <2> QED
    BY <2>1, Alone
<1>4. incoming' = [incoming EXCEPT ![n] = Append(@, m)] /\ busy' = [busy EXCEPT ![n] = Idle] /\ UNCHANGED <<loads, replies, sent>>
  BY <1>0 DEF Push
<1>5. ChannelsApart' /\ \A y : InChannel(y)' <=> InChannel(y) \/ y = x
  BY <1>0, <1>2, <1>3, <1>4, PutIn DEF OnceInv
<1>6. LoadsApart' /\ \A y : InLoad(y)' <=> InLoad(y)
  BY <1>4, PartsSame DEF OnceInv
<1>7. ~InOther(n, x)
  BY <1>0, <1>1 DEF OnceInv, BucketsApart, InOther
<1>8. BucketsApart' /\ \A y : InBucket(y)' <=> InOther(n, y)
  <2>1. BucketsApart' /\ \A y : InBucket(y)' <=> InOther(n, y) \/ (Idle # Idle /\ Idle.cmd.id = y)
    BY <1>4, BucketSet DEF OnceInv
  <2> QED
    BY <2>1
<1>9. ~InBucket(x)' /\ \A y \in 1..MaxCommands \ {x} : InBucket(y)' => InBucket(y)
  BY <1>7, <1>8 DEF InBucket, InOther
<1>10. InSystem(x)
  BY <1>3 DEF InSystem
<1> QED
  BY <1>3, <1>4, <1>5, <1>6, <1>8, <1>9, <1>10, Moved

\* A goroutine reads the document of the name, or answers that there is none.
LEMMA LoadReads ==
    ASSUME IInv, OnceInv, NEW l \in loads, LoadRead(l)
    PROVE  OnceInv'
<1>0. PICK x : x = l.cmd.id
  OBVIOUS
<1>1. l.cmd \in Cmds /\ x \in 1..MaxCommands /\ InLoad(x) /\ ~InChannel(x) /\ ~InBucket(x)
  <2>1. l \in [cmd : Cmds, name : Names, obj : Nat]
    BY DEF IInv, Types
  <2>2. l.cmd \in Cmds /\ x \in 1..MaxCommands /\ InLoad(x)
    BY <1>0, <2>1 DEF InLoad, Cmds
  <2> QED
    BY <2>2, Alone
<1>2. UNCHANGED <<incoming, busy, sent>>
  BY DEF LoadRead
<1>3. /\ ChannelsApart' /\ BucketsApart'
      /\ \A y : (InChannel(y)' <=> InChannel(y)) /\ (InBucket(y)' <=> InBucket(y))
  BY <1>2, PartsSame DEF OnceInv
<1>4. InSystem(x) /\ LoadsApart
  BY <1>1 DEF InSystem, OnceInv
<1>5. CASE loads' = loads \ {l} /\ Replied(l.cmd)
  <2>1. LoadsApart' /\ ~InLoad(x)' /\ \A y : InLoad(y)' => InLoad(y)
    BY <1>0, <1>4, <1>5 DEF LoadsApart, InLoad
  <2>2. ~InSystem(x)'
    BY <1>1, <1>3, <2>1 DEF InSystem
  <2>3. \E r \in {"ok", "error"} : replies' = [replies EXCEPT ![x] = Append(@, r)]
    BY <1>0, <1>5 DEF Replied, Reply
  <2> QED
    BY <1>1, <1>2, <1>3, <1>4, <2>1, <2>2, <2>3, Moved
<1>6. ASSUME NEW k, k.cmd = l.cmd, loads' = (loads \ {l}) \cup {k}, UNCHANGED replies
      PROVE  OnceInv'
  <2>1. LoadsApart' /\ \A y : InLoad(y)' => InLoad(y)
    BY <1>0, <1>4, <1>6 DEF LoadsApart, InLoad
  <2> QED
    BY <1>1, <1>2, <1>3, <1>4, <1>6, <2>1, Moved
<1>7. CASE db[l.name] = NoRecord
  <2>1. NotFound(l.cmd) \in {"ok", "error"}
    BY DEF NotFound
  <2> QED
    BY <1>5, <1>7, <2>1 DEF LoadRead, Replied
<1>8. CASE db[l.name] # NoRecord
  <2>1. PICK k : k = [l EXCEPT !.obj = Len(heap) + 1]
    OBVIOUS
  <2>2. l \in [cmd : Cmds, name : Names, obj : Nat]
    BY DEF IInv, Types
  <2>3. k.cmd = l.cmd
    BY <2>1, <2>2
  <2> QED
    BY <1>6, <1>8, <2>1, <2>3 DEF LoadRead
<1> QED
  BY <1>7, <1>8

\* A goroutine puts its callback into the channel.
LEMMA LoadPushes ==
    ASSUME IInv, OnceInv, NEW l \in loads, LoadPush(l)
    PROVE  OnceInv'
<1>0. PICK x, m : x = l.cmd.id /\ m = CallBack(l.cmd, l.obj)
  OBVIOUS
<1>1. l \in [cmd : Cmds, name : Names, obj : Nat]
  BY DEF IInv, Types
<1>2. m \in Messages /\ CommandOf(m) = l.cmd
  BY <1>0, <1>1, CallBackMessage DEF CommandOf, CallBack
<1>3. x \in 1..MaxCommands /\ InLoad(x) /\ ~InChannel(x) /\ ~InBucket(x)
  <2>1. x \in 1..MaxCommands /\ InLoad(x)
    BY <1>0, <1>1 DEF InLoad, Cmds
  <2> QED
    BY <2>1, Alone
<1>4. /\ incoming' = [incoming EXCEPT ![l.name] = Append(@, m)] /\ loads' = loads \ {l}
      /\ UNCHANGED <<busy, replies, sent>>
  BY <1>0 DEF LoadPush
<1>5. ChannelsApart' /\ \A y : InChannel(y)' <=> InChannel(y) \/ y = x
  BY <1>0, <1>1, <1>2, <1>3, <1>4, PutIn DEF OnceInv
<1>6. BucketsApart' /\ \A y : InBucket(y)' <=> InBucket(y)
  BY <1>4, PartsSame DEF OnceInv
<1>7. LoadsApart' /\ ~InLoad(x)' /\ \A y : InLoad(y)' => InLoad(y)
  BY <1>0, <1>4 DEF LoadsApart, InLoad, OnceInv
<1>8. InSystem(x)
  BY <1>3 DEF InSystem
<1> QED
  BY <1>3, <1>4, <1>5, <1>6, <1>7, <1>8, Moved

\* A new command comes, with the next number.
LEMMA CommandComes ==
    ASSUME IInv, OnceInv, NEW n \in Names, Send(n)
    PROVE  OnceInv'
<1>0. PICK c \in [op : Kinds, id : {sent + 1}, key : Keys, form : Forms, tokenKey : Keys, allowed : Allowances] :
         incoming' = [incoming EXCEPT ![n] = Append(@, c)]
  BY DEF Send
<1>1. sent \in Nat /\ sent < MaxCommands /\ sent' = sent + 1 /\ UNCHANGED <<busy, loads, replies>>
  BY DEF Send, IInv, Types
<1>2. PICK x : x = sent + 1
  OBVIOUS
<1>3. x \in 1..MaxCommands /\ sent' = x /\ x > sent
  BY <1>1, <1>2, NameServiceAssumption
<1>4. c \in Cmds /\ c.id = x /\ c.op # "back"
  BY <1>2, <1>3, NameServiceAssumption DEF Cmds, AllKinds, SetOps
<1>5. c \in Messages /\ CommandOf(c) = c
  BY <1>4 DEF Messages, CommandOf
<1>6. ~InChannel(x) /\ ~InBucket(x) /\ ~InLoad(x) /\ replies[x] = <<>>
  BY <1>1, <1>3 DEF OnceInv, Unanswered, InSystem
<1>7. ChannelsApart' /\ \A y : InChannel(y)' <=> InChannel(y) \/ y = x
  BY <1>0, <1>4, <1>5, <1>6, PutIn DEF OnceInv
<1>8. /\ BucketsApart' /\ LoadsApart'
      /\ \A y : (InBucket(y)' <=> InBucket(y)) /\ (InLoad(y)' <=> InLoad(y))
  BY <1>1, PartsSame DEF OnceInv
<1>9. PlacesApart'
  BY <1>6, <1>7, <1>8 DEF OnceInv, PlacesApart
<1>10. \A y \in 1..MaxCommands : InSystem(y)' => InSystem(y) \/ y = x
  BY <1>7, <1>8 DEF InSystem
<1>11. \A y \in 1..MaxCommands : (y <= sent => y <= x) /\ (y > x => y > sent)
  BY <1>1, <1>2
<1>12. Unanswered'
  BY <1>1, <1>3, <1>6, <1>10, <1>11 DEF OnceInv, Unanswered
<1> QED
  BY <1>7, <1>8, <1>9, <1>12 DEF OnceInv

\* After a restart there is no command, and at most the one that made the guru
\* go down got an answer.
LEMMA AllGone ==
    ASSUME IInv, OnceInv, GoesDown,
           \/ UNCHANGED replies
           \/ \E n \in Names : \E c \in Next1(n) : c.op # "back" /\ Replied(c)
    PROVE  OnceInv'
<1>1. /\ incoming' = [n \in Names |-> <<>>] /\ busy' = [n \in Names |-> Idle] /\ loads' = {} /\ UNCHANGED sent
  BY DEF GoesDown
<1>2. Len(<<>>) = 0 /\ Range(<<>>) = {} /\ UNCHANGED Idle
  BY Nothing DEF Idle
<1>3. \A n \in Names : incoming'[n] = <<>> /\ busy'[n] = Idle
  BY <1>1
<1>4. \A y : ~InChannel(y)' /\ ~InBucket(y)' /\ ~InLoad(y)'
  BY <1>1, <1>2, <1>3 DEF InChannel, InBucket, InLoad
<1>5. ChannelsApart' /\ BucketsApart' /\ LoadsApart'
  BY <1>1, <1>2, <1>3 DEF ChannelsApart, BucketsApart, LoadsApart
<1>6. CASE UNCHANGED replies
  <2>1. PlacesApart' /\ Unanswered'
    BY <1>1, <1>4, <1>6 DEF OnceInv, PlacesApart, Unanswered, InSystem
  <2> QED
    BY <1>5, <2>1 DEF OnceInv
<1>7. CASE \E n \in Names : \E c \in Next1(n) : c.op # "back" /\ Replied(c)
  <2>1. PICK n \in Names : \E c \in Next1(n) : c.op # "back" /\ Replied(c)
    BY <1>7
  <2>2. PICK c \in Next1(n) : c.op # "back" /\ Replied(c)
    BY <2>1
  <2>3. PICK x : x = c.id
    OBVIOUS
  <2>4. c \in Cmds /\ CommandOf(c) = c /\ c = Head(incoming[n]) /\ incoming[n] # <<>>
    BY <2>2, Message DEF CommandOf, IInv
  <2>5. c \in Range(incoming[n])
    BY <2>4, Taken DEF IInv, Types
  <2>6. x \in 1..MaxCommands /\ InChannel(x)
    BY <2>3, <2>4, <2>5 DEF InChannel, Cmds
  <2>7. InSystem(x) /\ ~InSystem(x)'
    BY <1>4, <2>6 DEF InSystem
  <2>8. \E r \in {"ok", "error"} : replies' = [replies EXCEPT ![x] = Append(@, r)]
    BY <2>2, <2>3 DEF Replied, Reply
  <2> QED
    BY <1>1, <1>4, <1>5, <2>6, <2>7, <2>8, Moved
<1> QED
  BY <1>6, <1>7
----------------------------------------------------------------------------
(* All steps *)

\* Nobody answers a get option without arguments.
Unheard(c) == c.op = "get" /\ c.form = "short"

\* What a bucket can do with a command: end it, give it to a goroutine, work on
\* it, and go on with it.
Ends(n) ==
    \E m : /\ Takes(n, m) /\ UNCHANGED <<busy, loads>>
           /\ Replied(CommandOf(m)) \/ (UNCHANGED replies /\ Unheard(CommandOf(m)))
Gives(n) ==
    \E m, l : Takes(n, m) /\ l.cmd = CommandOf(m) /\ loads' = loads \cup {l} /\ UNCHANGED <<busy, replies>>
Keeps(n) ==
    \E m, w : /\ Takes(n, m) /\ w # Idle /\ w.cmd = CommandOf(m)
              /\ busy' = [busy EXCEPT ![n] = w] /\ UNCHANGED <<loads, replies>>
GoesOn(n) ==
    \E w : /\ busy[n] # Idle /\ busy' = [busy EXCEPT ![n] = w] /\ UNCHANGED <<incoming, loads, sent>>
           /\ \/ w # Idle /\ w.cmd = busy[n].cmd /\ UNCHANGED replies
              \/ w = Idle /\ Replied(busy[n].cmd)

LEMMA FinishReplies ==
    ASSUME NEW n, NEW c, NEW o, Finish(n, c, o)
    PROVE  Replied(c)
<1>1. \E r \in {"ok", "error"} : Reply(c, r)
  BY DEF Finish
<1> QED
  BY <1>1 DEF Replied

\* Every step of a bucket is one of these, a push or the end of the guru.
LEMMA BucketSteps ==
    ASSUME IInv, NEW n \in Names, Bucket(n)
    PROVE  Ends(n) \/ Gives(n) \/ Keeps(n) \/ GoesOn(n) \/ Push(n) \/ Ruin(n)
<1>t. Types
  BY DEF IInv
<1>1. \A c : c.op # "back" => CommandOf(c) = c
  BY DEF CommandOf
<1>2. CASE Refuse(n)
  <2>1. PICK c \in Next1(n) : /\ Takes(n, c) /\ Bad(c) /\ ~Ruins(c)
                              /\ IF c.op = "get" THEN UNCHANGED replies ELSE Reply(c, "error")
                              /\ UNCHANGED <<busy, loads>>
    BY <1>2 DEF Refuse
  <2>2. CommandOf(c) = c /\ c \in Cmds
    BY <1>t, <1>1, <2>1, Message DEF Bad
  <2>3. CASE c.op = "get"
    <3>1. UNCHANGED replies
      BY <2>1, <2>3
    <3>2. c \in Range(incoming[n]) /\ c.op # "back"
      BY <1>t, <2>1, <2>3, Message, Taken DEF Types
    <3>3. HasForm(c)
      BY <3>2 DEF IInv, CommandsInv
    <3>4. Unheard(c)
      BY <2>1, <2>3, <3>3 DEF HasForm, RequiresEncryption, SetOps, Bad, Unheard
    <3> QED
      BY <2>1, <2>2, <3>1, <3>4 DEF Ends
  <2>4. CASE c.op # "get"
    <3>1. Replied(c)
      BY <2>1, <2>4 DEF Replied
    <3> QED
      BY <2>1, <2>2, <3>1 DEF Ends
  <2> QED
    BY <2>3, <2>4
<1>3. CASE Info(n)
  <2>1. PICK c \in Next1(n) : Takes(n, c) /\ c.op # "back" /\ Reply(c, "ok") /\ UNCHANGED <<busy, loads>>
    BY <1>3 DEF Info, Executes
  <2>2. Replied(c)
    BY <2>1 DEF Replied
  <2> QED
    BY <1>1, <2>1, <2>2 DEF Ends
<1>4. CASE OnEntry(n)
  <2>1. PICK c \in Next1(n) : Takes(n, c) /\ c.op # "back" /\ Finish(n, c, table[n]) /\ UNCHANGED <<busy, loads>>
    BY <1>4 DEF OnEntry, Executes, EntryOps, SetOps
  <2>2. Replied(c)
    BY <2>1, FinishReplies
  <2> QED
    BY <1>1, <2>1, <2>2 DEF Ends
<1>5. CASE StartLoad(n)
  <2>1. PICK c \in Next1(n) : /\ Takes(n, c) /\ c.op # "back"
                              /\ loads' = loads \cup {[cmd |-> c, name |-> n, obj |-> 0]}
                              /\ UNCHANGED <<busy, replies>>
    BY <1>5 DEF StartLoad, Executes, EntryOps, SetOps
  <2>2. [cmd |-> c, name |-> n, obj |-> 0].cmd = CommandOf(c)
    BY <1>1, <2>1
  <2> QED
    BY <2>1, <2>2 DEF Gives
<1>6. CASE RunCallBack(n)
  <2>1. PICK b \in Next1(n) : /\ Takes(n, b) /\ b.op = "back"
                              /\ Finish(n, b.cmd, b.obj) \/ Reply(b.cmd, "ok")
                              /\ UNCHANGED <<busy, loads>>
    BY <1>6 DEF RunCallBack
  <2>2. Replied(b.cmd)
    BY <2>1, FinishReplies DEF Replied
  <2>3. CommandOf(b) = b.cmd
    BY <2>1 DEF CommandOf
  <2> QED
    BY <2>1, <2>2, <2>3 DEF Ends
<1>7. ASSUME NEW c \in Next1(n), Takes(n, c), c.op # "back", Reply(c, "error"), UNCHANGED <<busy, loads>>
      PROVE  Ends(n)
  <2>1. Replied(c)
    BY <1>7 DEF Replied
  <2> QED
    BY <1>1, <1>7, <2>1 DEF Ends
<1>8. ASSUME NEW c \in Next1(n), Takes(n, c), c.op # "back", NEW s \in {"reserve", "push"}, NEW o,
             busy' = [busy EXCEPT ![n] = [stage |-> s, cmd |-> c, obj |-> o]], UNCHANGED <<loads, replies>>
      PROVE  Keeps(n)
  <2>1. [stage |-> s, cmd |-> c, obj |-> o] # Idle /\ [stage |-> s, cmd |-> c, obj |-> o].cmd = CommandOf(c)
    BY <1>1, <1>8 DEF Idle
  <2> QED
    BY <1>8, <2>1 DEF Keeps
<1>9. CASE ReserveStart(n)
  <2>1. PICK c \in Next1(n) :
           /\ Takes(n, c) /\ c.op # "back" /\ UNCHANGED loads
           /\ \/ busy' = [busy EXCEPT ![n] = [stage |-> "reserve", cmd |-> c, obj |-> table[n]]] /\ UNCHANGED replies
              \/ Reply(c, "error") /\ UNCHANGED busy
    BY <1>9 DEF ReserveStart, Executes
  <2> QED
    BY <1>7, <1>8, <2>1
<1>10. CASE DeleteStart(n)
  <2>1. PICK c \in Next1(n) :
           /\ Takes(n, c) /\ c.op # "back" /\ UNCHANGED loads
           /\ \/ busy' = [busy EXCEPT ![n] = [stage |-> "push", cmd |-> c, obj |-> 0]] /\ UNCHANGED replies
              \/ Reply(c, "error") /\ UNCHANGED busy
    BY <1>10 DEF DeleteStart, Executes
  <2> QED
    BY <1>7, <1>8, <2>1
<1>11. CASE ReserveSave(n)
  <2>1. busy[n] # Idle /\ UNCHANGED <<incoming, loads, sent>>
    BY <1>11 DEF ReserveSave, Idle
  <2>2. CASE ReserveRefused(n)
    <3>1. Replied(busy[n].cmd) /\ busy' = [busy EXCEPT ![n] = Idle]
      BY <2>2 DEF ReserveRefused, Replied
    <3> QED
      BY <2>1, <3>1 DEF GoesOn
  <2>3. CASE ~ReserveRefused(n)
    <3>1. PICK o : busy' = [busy EXCEPT ![n] = [stage |-> "push", cmd |-> busy[n].cmd, obj |-> o]] /\ UNCHANGED replies
      BY <1>11, <2>3, ReserveSaved
    <3>2. PICK w : w = [stage |-> "push", cmd |-> busy[n].cmd, obj |-> o]
      OBVIOUS
    <3>3. w # Idle /\ w.cmd = busy[n].cmd
      BY <3>2 DEF Idle
    <3> QED
      BY <2>1, <3>1, <3>2, <3>3 DEF GoesOn
  <2> QED
    BY <2>2, <2>3
<1> QED
  BY <1>2, <1>3, <1>4, <1>5, <1>6, <1>9, <1>10, <1>11 DEF Bucket

LEMMA NextOnceInv == IInv /\ OnceInv /\ [Next]_vars => OnceInv'
<1> SUFFICES ASSUME IInv, OnceInv, [Next]_vars PROVE OnceInv'
  OBVIOUS
<1>1. ASSUME NEW n \in Names, Ends(n) PROVE OnceInv'
  <2>1. PICK m : /\ Takes(n, m) /\ UNCHANGED <<busy, loads>>
                 /\ Replied(CommandOf(m)) \/ UNCHANGED replies
    BY <1>1 DEF Ends
  <2> QED
    BY <2>1, EndsInChannel
<1>2. ASSUME NEW n \in Names, Gives(n) PROVE OnceInv'
  BY <1>2, ChannelToLoad DEF Gives
<1>3. ASSUME NEW n \in Names, Keeps(n) PROVE OnceInv'
  BY <1>3, ChannelToBucket DEF Keeps
<1>4. ASSUME NEW n \in Names, GoesOn(n) PROVE OnceInv'
  BY <1>4, StaysInBucket DEF GoesOn
<1>5. ASSUME NEW n \in Names, Ruin(n) PROVE OnceInv'
  <2>1. PICK c \in Next1(n) : Ruins(c) /\ GoesDown /\ (Reply(c, "error") \/ UNCHANGED replies)
    BY <1>5 DEF Ruin
  <2>2. c.op # "back" /\ (Replied(c) \/ UNCHANGED replies)
    BY <2>1 DEF Ruins, Replied
  <2> QED
    BY <2>1, <2>2, AllGone
<1>6. CASE Restart
  BY <1>6, AllGone DEF Restart
<1>7. ASSUME UNCHANGED <<incoming, busy, loads, sent, replies>> PROVE OnceInv'
  <2>1. /\ ChannelsApart' /\ BucketsApart' /\ LoadsApart'
        /\ \A y : (InChannel(y)' <=> InChannel(y)) /\ (InBucket(y)' <=> InBucket(y)) /\ (InLoad(y)' <=> InLoad(y))
    BY <1>7, PartsSame DEF OnceInv
  <2>2. PlacesApart' /\ Unanswered'
    BY <1>7, <2>1 DEF OnceInv, PlacesApart, Unanswered, InSystem
  <2> QED
    BY <2>1, <2>2 DEF OnceInv
<1>8. ASSUME NEW n \in Names, Bucket(n) PROVE OnceInv'
  BY <1>1, <1>2, <1>3, <1>4, <1>5, <1>8, BucketSteps, BucketToChannel
<1>9. ASSUME NEW n \in Names, (\E s \in Subscribers : Subscribe(n, s) \/ Unsubscribe(n, s)) \/ Sweep(n) PROVE OnceInv'
  BY <1>7, <1>9 DEF Subscribe, Unsubscribe, Sweep
<1>10. CASE UNCHANGED vars
  BY <1>7, <1>10 DEF vars
<1> QED
  BY <1>6, <1>8, <1>9, <1>10, CommandComes, LoadReads, LoadPushes DEF Next, Load

LEMMA InitOnceInv == Init => OnceInv
<1> SUFFICES ASSUME Init PROVE OnceInv
  OBVIOUS
<1>1. Len(<<>>) = 0 /\ Range(<<>>) = {}
  BY Nothing
<1>2. \A y : ~InChannel(y) /\ ~InBucket(y) /\ ~InLoad(y)
  BY <1>1 DEF Init, InChannel, InBucket, InLoad
<1>3. ChannelsApart /\ BucketsApart /\ LoadsApart
  BY <1>1 DEF Init, ChannelsApart, BucketsApart, LoadsApart
<1> QED
  BY <1>1, <1>2, <1>3 DEF Init, OnceInv, PlacesApart, Unanswered, InSystem
----------------------------------------------------------------------------
(* No command is forgotten *)

\* Somebody has command c.
Held(c) ==
    \/ \E n \in Names : \E m \in Range(incoming[n]) : CommandOf(m) = c
    \/ \E n \in Names : busy[n] # Idle /\ busy[n].cmd = c
    \/ \E l \in loads : l.cmd = c

LEMMA PendingHeld ==
    ASSUME NEW i
    PROVE  Pending(i) <=> \E c : Held(c) /\ c.id = i /\ ~Unheard(c)
<1>1. Pending(i) <=> \/ \E n \in Names : \E m \in Range(incoming[n]) : Answerable(CommandOf(m), i)
                     \/ \E n \in Names : busy[n] # Idle /\ Answerable(busy[n].cmd, i)
                     \/ \E l \in loads : Answerable(l.cmd, i)
  BY DEF Pending, CommandOf
<1>2. \A c : Answerable(c, i) <=> c.id = i /\ ~Unheard(c)
  BY DEF Answerable, Unheard
<1> QED
  BY <1>1, <1>2 DEF Held

\* An answer is there.
LEMMA AnswerThere ==
    ASSUME Types, NEW c \in Cmds, Replied(c)
    PROVE  replies'[c.id] # <<>>
<1>1. PICK r \in {"ok", "error"} : replies' = [replies EXCEPT ![c.id] = Append(@, r)]
  BY DEF Replied, Reply
<1>2. c.id \in 1..MaxCommands
  BY DEF Cmds
<1>3. replies'[c.id] = Append(replies[c.id], r) /\ replies[c.id] \in Seq({"ok", "error"})
  BY <1>1, <1>2 DEF Types
<1> QED
  BY <1>3, Appended

\* Command c is not forgotten in a step.
Kept(c) == Held(c)' \/ Unheard(c) \/ replies'[c.id] # <<>>

\* Where a command can stay.
LEMMA StaysHeld ==
    ASSUME NEW c
    PROVE  /\ \A n \in Names : \A m \in Range(incoming'[n]) : CommandOf(m) = c => Kept(c)
           /\ \A n \in Names : busy'[n] # Idle /\ busy'[n].cmd = c => Kept(c)
           /\ \A l \in loads' : l.cmd = c => Kept(c)
BY DEF Kept, Held, CommandOf, Idle

\* What a bucket takes goes on somewhere, and the rest stays.
LEMMA TakenKept ==
    ASSUME IInv, OnceInv, NEW n \in Names, NEW m, Takes(n, m), NEW c, Held(c),
           \A k \in Names \ {n} : busy'[k] = busy[k], loads \subseteq loads', Kept(CommandOf(m))
    PROVE  Kept(c)
<1>1. \A k \in Names : \A a \in Range(incoming[k]) : a \in Range(incoming'[k]) \/ (k = n /\ a = m)
  BY TakenOut
<1>2. busy[n] = Idle
  BY DEF Takes
<1>3. ASSUME NEW k \in Names, NEW a \in Range(incoming[k]), CommandOf(a) = c PROVE Kept(c)
  BY <1>1, <1>3, StaysHeld
<1>4. ASSUME NEW k \in Names, busy[k] # Idle, busy[k].cmd = c PROVE Kept(c)
  BY <1>2, <1>4, StaysHeld
<1>5. ASSUME NEW l \in loads, l.cmd = c PROVE Kept(c)
  BY <1>5, StaysHeld
<1> QED
  BY <1>3, <1>4, <1>5 DEF Held

\* No other bucket changes.
LEMMA OthersSame ==
    ASSUME Types, NEW n \in Names, NEW w, busy' = [busy EXCEPT ![n] = w]
    PROVE  busy'[n] = w /\ \A k \in Names \ {n} : busy'[k] = busy[k]
BY DEF Types

\* A push: the command is in the channel, and all others are where they were.
LEMMA PushKept ==
    ASSUME IInv, OnceInv, NEW c, Held(c),
           \/ \E n \in Names : Push(n)
           \/ \E l \in loads : LoadPush(l)
    PROVE  Kept(c)
<1>t. Types
  BY DEF IInv
<1>1. ASSUME NEW n \in Names, NEW m \in Messages, incoming' = [incoming EXCEPT ![n] = Append(@, m)]
      PROVE  m \in Range(incoming'[n]) /\ \A k \in Names : Range(incoming[k]) \subseteq Range(incoming'[k])
  <2>1. Range(incoming'[n]) = Range(incoming[n]) \cup {m} /\ \A k \in Names \ {n} : incoming'[k] = incoming[k]
    BY <1>t, <1>1, ChannelGets
  <2> QED
    BY <2>1
<1>2. ASSUME NEW n \in Names, Push(n) PROVE Kept(c)
  <2>1. PICK m : m = CallBack(busy[n].cmd, busy[n].obj)
    OBVIOUS
  <2>2. m \in Messages /\ CommandOf(m) = busy[n].cmd
    <3>1. busy[n] # Idle
      BY <1>2 DEF Push, Idle
    <3> QED
      BY <1>t, <2>1, <3>1, Working, CallBackMessage DEF CommandOf, CallBack
  <2>3. m \in Range(incoming'[n]) /\ \A k \in Names : Range(incoming[k]) \subseteq Range(incoming'[k])
    BY <1>1, <1>2, <2>1, <2>2 DEF Push
  <2>4. (\A k \in Names \ {n} : busy'[k] = busy[k]) /\ loads' = loads
    BY <1>t, <1>2 DEF Push, Types
  <2>5. busy[n].cmd = c => Kept(c)
    BY <2>2, <2>3, StaysHeld
  <2> QED
    BY <2>3, <2>4, <2>5, StaysHeld DEF Held
<1>3. ASSUME NEW l \in loads, LoadPush(l) PROVE Kept(c)
  <2>1. PICK m : m = CallBack(l.cmd, l.obj)
    OBVIOUS
  <2>2. m \in Messages /\ CommandOf(m) = l.cmd /\ l.name \in Names
    BY <1>t, <2>1, CallBackMessage DEF CommandOf, CallBack, Types
  <2>3. m \in Range(incoming'[l.name]) /\ \A k \in Names : Range(incoming[k]) \subseteq Range(incoming'[k])
    BY <1>1, <1>3, <2>1, <2>2 DEF LoadPush
  <2>4. busy' = busy /\ loads' = loads \ {l}
    BY <1>3 DEF LoadPush
  <2>5. l.cmd = c => Kept(c)
    BY <2>2, <2>3, StaysHeld
  <2> QED
    BY <2>3, <2>4, <2>5, StaysHeld DEF Held
<1> QED
  BY <1>2, <1>3

\* The goroutine goes on with its command, or answers it.
LEMMA ReadKept ==
    ASSUME IInv, NEW l \in loads, LoadRead(l), NEW c, Held(c)
    PROVE  Kept(c)
<1>1. l.cmd \in Cmds /\ l \in [cmd : Cmds, name : Names, obj : Nat] /\ Types
  BY DEF IInv, Types
<1>2. UNCHANGED <<incoming, busy>> /\ loads \ {l} \subseteq loads'
  BY DEF LoadRead
<1>3. l.cmd = c => Kept(c)
  <2>1. CASE db[l.name] = NoRecord
    <3>1. Replied(l.cmd)
      BY <2>1 DEF LoadRead, NotFound, Replied
    <3>2. replies'[l.cmd.id] # <<>>
      BY <1>1, <3>1, AnswerThere
    <3> QED
      BY <3>2 DEF Kept
  <2>2. CASE db[l.name] # NoRecord
    <3>1. PICK k : k = [l EXCEPT !.obj = Len(heap) + 1]
      OBVIOUS
    <3>2. k.cmd = l.cmd
      BY <1>1, <3>1
    <3>3. k \in loads'
      BY <2>2, <3>1 DEF LoadRead
    <3> QED
      BY <3>2, <3>3, StaysHeld
  <2> QED
    BY <2>1, <2>2
<1> QED
  BY <1>2, <1>3, StaysHeld DEF Held

LEMMA BucketKept ==
    ASSUME IInv, OnceInv, NEW n \in Names, NEW c, Held(c), Ends(n) \/ Gives(n) \/ Keeps(n) \/ GoesOn(n)
    PROVE  Kept(c)
<1>t. Types
  BY DEF IInv
<1>1. ASSUME NEW m, Takes(n, m) PROVE CommandOf(m) \in Cmds
  BY <1>1, TakenOut, CommandNumbers
<1>2. CASE Ends(n)
  <2>1. PICK m : /\ Takes(n, m) /\ UNCHANGED <<busy, loads>>
                 /\ Replied(CommandOf(m)) \/ Unheard(CommandOf(m))
    BY <1>2 DEF Ends
  <2>2. Kept(CommandOf(m))
    BY <1>t, <1>1, <2>1, AnswerThere DEF Kept
  <2> QED
    BY <2>1, <2>2, TakenKept
<1>3. CASE Gives(n)
  <2>1. PICK m, l : Takes(n, m) /\ l.cmd = CommandOf(m) /\ loads' = loads \cup {l} /\ UNCHANGED busy
    BY <1>3 DEF Gives
  <2>2. Kept(CommandOf(m))
    BY <2>1, StaysHeld
  <2> QED
    BY <2>1, <2>2, TakenKept
<1>4. CASE Keeps(n)
  <2>1. PICK m, w : /\ Takes(n, m) /\ w # Idle /\ w.cmd = CommandOf(m)
                    /\ busy' = [busy EXCEPT ![n] = w] /\ UNCHANGED loads
    BY <1>4 DEF Keeps
  <2>2. busy'[n] = w /\ \A k \in Names \ {n} : busy'[k] = busy[k]
    BY <1>t, <2>1, OthersSame
  <2>3. Kept(CommandOf(m))
    BY <2>1, <2>2, StaysHeld
  <2> QED
    BY <2>1, <2>2, <2>3, TakenKept
<1>5. CASE GoesOn(n)
  <2>1. PICK w : /\ busy[n] # Idle /\ busy' = [busy EXCEPT ![n] = w] /\ UNCHANGED <<incoming, loads>>
                 /\ (w # Idle /\ w.cmd = busy[n].cmd) \/ Replied(busy[n].cmd)
    BY <1>5 DEF GoesOn
  <2>2. busy'[n] = w /\ \A k \in Names \ {n} : busy'[k] = busy[k]
    BY <1>t, <2>1, OthersSame
  <2>3. busy[n].cmd = c => Kept(c)
    <3>1. CASE w # Idle /\ w.cmd = busy[n].cmd
      BY <2>2, <3>1, StaysHeld
    <3>2. CASE Replied(busy[n].cmd)
      BY <1>t, <2>1, <3>2, Working, AnswerThere DEF Kept
    <3> QED
      BY <2>1, <3>1, <3>2
  <2> QED
    BY <2>1, <2>2, <2>3, StaysHeld DEF Held
<1> QED
  BY <1>2, <1>3, <1>4, <1>5

\* A command stays somewhere until it is answered, or the guru goes down.
LEMMA HeldStep ==
    ASSUME IInv, OnceInv, [Next]_vars, ~GoesDown, NEW c, Held(c)
    PROVE  Kept(c)
<1>1. ASSUME NEW n \in Names, Bucket(n) PROVE Kept(c)
  <2>1. ~Ruin(n)
    BY DEF Ruin
  <2> QED
    BY <1>1, <2>1, BucketSteps, BucketKept, PushKept
<1>2. ASSUME NEW n \in Names, Send(n) PROVE Kept(c)
  <2>1. PICK m \in [op : Kinds, id : {sent + 1}, key : Keys, form : Forms, tokenKey : Keys, allowed : Allowances] :
           incoming' = [incoming EXCEPT ![n] = Append(@, m)]
    BY <1>2 DEF Send
  <2>2. \A k \in Names : Range(incoming[k]) \subseteq Range(incoming'[k])
    <3>1. incoming[n] \in Seq(Messages)
      BY DEF IInv, Types
    <3>2. Range(Append(incoming[n], m)) = Range(incoming[n]) \cup {m}
      BY <3>1, Appended
    <3>3. incoming'[n] = Append(incoming[n], m) /\ \A k \in Names \ {n} : incoming'[k] = incoming[k]
      BY <2>1 DEF IInv, Types
    <3> QED
      BY <3>2, <3>3
  <2>3. UNCHANGED <<busy, loads>>
    BY <1>2 DEF Send
  <2> QED
    BY <2>2, <2>3, StaysHeld DEF Held
<1>3. ASSUME NEW n \in Names, (\E s \in Subscribers : Subscribe(n, s) \/ Unsubscribe(n, s)) \/ Sweep(n)
      PROVE  UNCHANGED <<incoming, busy, loads>>
  BY <1>3 DEF Subscribe, Unsubscribe, Sweep
<1>4. CASE UNCHANGED <<incoming, busy, loads>>
  BY <1>4, StaysHeld DEF Held
<1>5. ~Restart
  BY DEF Restart
<1>6. CASE UNCHANGED vars
  BY <1>4, <1>6 DEF vars
<1> QED
  BY <1>1, <1>2, <1>3, <1>4, <1>5, <1>6, PushKept, ReadKept DEF Next, Load
----------------------------------------------------------------------------
(* The theorem *)

\* A command is in one place, and has no answer while it is there.
THEOREM NamesOnceInvariant == Spec => [](IInv /\ OnceInv)
<1>1. Init => IInv /\ OnceInv
  BY InitIInv, InitOnceInv
<1>2. IInv /\ OnceInv /\ [Next]_vars => (IInv /\ OnceInv)'
  BY NextIInv, NextOnceInv
<1> QED
  BY <1>1, <1>2, PTL DEF Spec

OneAnswer == \A i \in 1..MaxCommands : Len(replies[i]) <= 1 /\ (Pending(i) => replies[i] = <<>>)
NoneForgotten ==
    \A i \in 1..MaxCommands : Pending(i) /\ restarts' = restarts => Pending(i)' \/ replies'[i] # <<>>

\* A command that is taken from the channel of its bucket, loaded, reserved or
\* deleted is answered once and, unless the guru goes down, not forgotten.
THEOREM NamesAnsweredOnce == Spec => AnsweredOnce
<1>1. IInv /\ OnceInv => OneAnswer
  <2> SUFFICES ASSUME IInv, OnceInv, NEW i \in 1..MaxCommands
               PROVE  Len(replies[i]) <= 1 /\ (Pending(i) => replies[i] = <<>>)
    BY DEF OneAnswer
  <2>1. Pending(i) => InSystem(i)
    BY PendingHeld DEF Held, InSystem, InChannel, InBucket, InLoad
  <2> QED
    BY <2>1 DEF OnceInv, Unanswered
<1>2. IInv /\ OnceInv /\ [Next]_vars => [NoneForgotten]_vars
  <2> SUFFICES ASSUME IInv, OnceInv, [Next]_vars, NEW i \in 1..MaxCommands, Pending(i), restarts' = restarts
               PROVE  Pending(i)' \/ replies'[i] # <<>>
    BY DEF NoneForgotten
  <2>1. ~GoesDown
    <3>1. restarts \in Nat
      BY DEF IInv, Types
    <3> QED
      BY <3>1 DEF GoesDown
  <2>2. PICK c : Held(c) /\ c.id = i /\ ~Unheard(c)
    BY PendingHeld
  <2>3. Held(c)' \/ replies'[i] # <<>>
    BY <2>1, <2>2, HeldStep DEF Kept
  <2>4. Answerable(c, i)
    BY <2>2 DEF Answerable, Unheard
  <2>5. Held(c)' => Pending(i)'
    BY <2>4 DEF Held, Pending, CommandOf, Idle
  <2> QED
    BY <2>3, <2>5
<1>3. Spec => []OneAnswer /\ [][NoneForgotten]_vars
  BY <1>1, <1>2, NamesOnceInvariant, PTL DEF Spec
<1> QED
  BY <1>3 DEF AnsweredOnce, OneAnswer, NoneForgotten
=============================================================================

---------------------------- MODULE NameService ----------------------------
(***************************************************************************)
(* The names a guru keeps: the lookup commands (iot/lookmsg.go,            *)
(* iot/nameServices.go) on entries of its table, which are loaded from and *)
(* saved to a database (iot/mongo.go).                                     *)
(*                                                                         *)
(* A command runs in the goroutine of the bucket of its name.  When the    *)
(* name is not in the table most commands start a goroutine that reads the *)
(* database and then puts a callback on the bucket's channel; meanwhile    *)
(* the bucket goes on.  reserve and delete use the database without        *)
(* leaving the bucket, and also end with a callback.  Every name is in a   *)
(* bucket of its own here, the case with the most interleavings.           *)
(*                                                                         *)
(* The commands:                                                           *)
(*   reserve, delete                                                       *)
(*   set, bulk, replace   set option, bulk option, replace options         *)
(*   get     get option, get txt, proxy-status                             *)
(*   details, exists                                                       *)
(*   info    get time, get pubk, help                                      *)
(*   version get random, version                                           *)
(***************************************************************************)
EXTENDS Naturals, Sequences, FiniteSets, SequencesExt

CONSTANTS
    Names,         \* the names, each with its bucket
    Keys,          \* public keys of owners
    NoKey,         \* the Owner of an entry that a subscribe made
    NoRecord,      \* a name that is not in the database
    Subscribers,   \* contacts that may subscribe
    Kinds,         \* the commands that are sent
    Allowances,    \* payload.Subscriptions of the tokens
    InCap,         \* capacity of bucket.incoming: 256
    MaxCommands,   \* bound on the commands
    MaxEntries,    \* bound on the WatchedTopics when a subscribe makes one
    MaxRestarts    \* bound on restarts of the guru

SetOps == {"set", "bulk", "replace"}
AllKinds == SetOps \cup {"reserve", "delete", "get", "details", "exists", "info", "version"}

ASSUME NameServiceAssumption ==
    /\ NoKey \notin Keys
    /\ Kinds \subseteq AllKinds
    /\ Allowances \subseteq Nat
    /\ InCap \in Nat \ {0} /\ MaxCommands \in Nat /\ MaxEntries \in Nat /\ MaxRestarts \in Nat

\* What decryptCommand and the command find in the packet: "short" has too few
\* arguments or an invalid token, "wrong" arguments that are refused at the end
\* (no such option, no JSON, a name that is not the topic).
Forms == {"good", "unsealed", "short", "wrong"}

\* A command: key is the pubk of the sender, tokenKey and allowed are from the
\* token of a reserve.
Cmds == [op : AllKinds, id : 1..MaxCommands, key : Keys, form : Forms, tokenKey : Keys, allowed : Nat]

\* A WatchedTopic, as an object of the heap and as a document.
Objects == [owner : Keys \cup {NoKey}, opts : SUBSET ((1..MaxCommands) \X Keys), subs : SUBSET Subscribers]
Records == [owner : Keys \cup {NoKey}, opts : SUBSET ((1..MaxCommands) \X Keys)]

ASSUME NoRecordAssumption == NoRecord \notin Records

VARIABLES
    db,        \* the collection subscriptions
    heap,      \* the WatchedTopics there ever were
    table,     \* mySubscriptions: the number of an object, 0 for none
    incoming,  \* the channel of each bucket
    busy,      \* what the bucket does between two uses of the database
    loads,     \* goroutines that load a name for a command
    replies,   \* per command the replies sent
    sent, restarts,
    reserved,  \* history: who sent a reserve for each name
    deletes    \* history: the names with a delete that reached the database

vars == <<db, heap, table, incoming, busy, loads, replies, sent, restarts, reserved, deletes>>
history == <<reserved, deletes>>

Idle == [stage |-> "idle"]
Entry(n) == heap[table[n]]
Loaded(n) == table[n] # 0

Init ==
    /\ db = [n \in Names |-> NoRecord]
    /\ heap = <<>>
    /\ table = [n \in Names |-> 0]
    /\ incoming = [n \in Names |-> <<>>]
    /\ busy = [n \in Names |-> Idle]
    /\ loads = {}
    /\ replies = [i \in 1..MaxCommands |-> <<>>]
    /\ sent = 0 /\ restarts = 0
    /\ reserved = [n \in Names |-> {}] /\ deletes = {}

----------------------------------------------------------------------------
(* Clients *)

\* The description of the command has no open lock.
RequiresEncryption(c) == c.op \in SetOps \cup {"reserve", "delete", "details", "version"}

\* The forms a command can have.
HasForm(c) ==
    \/ c.form = "good"
    \/ c.form = "unsealed" /\ RequiresEncryption(c)
    \/ c.form = "short" /\ c.op \in SetOps \cup {"reserve", "delete", "get"}
    \/ c.form = "wrong" /\ c.op \in {"delete", "replace", "get"}

\* A mutant: one more than the channel holds.
RoomForOneMore(n) == Len(incoming[n]) <= InCap

\* A send to bucket.incoming does not block.
Room(n) == Len(incoming[n]) < InCap

\* A lookup packet reaches the bucket: sendLookupMessage.
Send(n) ==
    /\ sent < MaxCommands /\ sent' = sent + 1
    /\ Room(n)
    /\ \E c \in [op : Kinds, id : {sent + 1}, key : Keys, form : Forms, tokenKey : Keys, allowed : Allowances] :
          /\ HasForm(c)
          /\ c.op # "reserve" => c.tokenKey = c.key /\ c.allowed = Min(Allowances)
          /\ incoming' = [incoming EXCEPT ![n] = Append(@, c)]
          /\ reserved' = IF c.op = "reserve" THEN [reserved EXCEPT ![n] = @ \cup {c.key}] ELSE reserved
    /\ UNCHANGED <<db, heap, table, busy, loads, replies, restarts, deletes>>

\* processSubscribe and processUnsubscribe, as far as they concern the entry.
Subscribe(n, s) ==
    /\ busy[n] = Idle
    /\ IF Loaded(n)
       THEN /\ s \notin Entry(n).subs
            /\ heap' = [heap EXCEPT ![table[n]].subs = @ \cup {s}]
            /\ UNCHANGED table
       ELSE /\ Len(heap) < MaxEntries
            /\ heap' = Append(heap, [owner |-> NoKey, opts |-> {}, subs |-> {s}])
            /\ table' = [table EXCEPT ![n] = Len(heap) + 1]
    /\ UNCHANGED <<db, incoming, busy, loads, replies, sent, restarts, history>>

Unsubscribe(n, s) ==
    /\ busy[n] = Idle
    /\ Loaded(n) /\ s \in Entry(n).subs
    /\ heap' = [heap EXCEPT ![table[n]].subs = @ \ {s}]
    /\ table' = IF Entry(n).owner = NoKey /\ Entry(n).subs = {s}
                THEN [table EXCEPT ![n] = 0] ELSE table
    /\ UNCHANGED <<db, incoming, busy, loads, replies, sent, restarts, history>>

\* heartBeatCallBack removes the watchers that are closed, or all of them when
\* the topic expired, and deletes an entry without watchers, owned or not.
Sweep(n) ==
    /\ busy[n] = Idle
    /\ Loaded(n)
    /\ \E left \in SUBSET Entry(n).subs :
          /\ heap' = [heap EXCEPT ![table[n]].subs = left]
          /\ table' = IF left = {} THEN [table EXCEPT ![n] = 0] ELSE table
    /\ UNCHANGED <<db, incoming, busy, loads, replies, sent, restarts, history>>

----------------------------------------------------------------------------
(* The bucket takes a command *)

Reply(c, r) == replies' = [replies EXCEPT ![c.id] = Append(@, r)]

\* The bucket of n is free and takes c off its channel.
Takes(n, c) ==
    /\ busy[n] = Idle
    /\ incoming[n] # <<>>
    /\ c = Head(incoming[n])
    /\ incoming' = [incoming EXCEPT ![n] = Tail(@)]
    /\ UNCHANGED <<sent, restarts, reserved>>

Next1(n) == IF incoming[n] = <<>> THEN {} ELSE {Head(incoming[n])}

\* decryptCommand fails, or there are too few arguments.
Bad(c) == c.op # "back" /\ c.form \in {"unsealed", "short"}

\* processLookup: c decrypts if it must, and is executed.
Executes(n, c, ops) == Takes(n, c) /\ c.op \in ops /\ ~Bad(c)

\* "set option" with less than two arguments goes on after its error.
Ruins(c) == c.op = "set" /\ c.form = "short"

\* "get option" without arguments returns its error to nobody.
Refuse(n) ==
    \E c \in Next1(n) :
       /\ Takes(n, c) /\ Bad(c) /\ ~Ruins(c)
       /\ IF c.op = "get" THEN UNCHANGED replies ELSE Reply(c, "error")
       /\ UNCHANGED <<db, heap, table, busy, loads, deletes>>

\* A command that needs no entry.
Info(n) ==
    \E c \in Next1(n) :
       /\ Executes(n, c, {"info", "version"})
       /\ Reply(c, "ok")
       /\ UNCHANGED <<db, heap, table, busy, loads, deletes>>

----------------------------------------------------------------------------
(* Commands on an entry: getAndSetWatcher *)

EntryOps == SetOps \cup {"get", "details", "exists"}

\* A mutant: nobody looks at the owner.
AnyoneMay(c, obj) == TRUE

\* pubk == watchedTopic.Owner, where the command asks
May(c, obj) == c.op \in SetOps \cup {"details"} => c.key = obj.owner

\* The tree of options is a map in the document; subscribers are not in it.
AsDocument(obj) == [owner |-> obj.owner, opts |-> obj.opts]
AsEntry(doc) == [owner |-> doc.owner, opts |-> doc.opts, subs |-> {}]

\* A mutant: the save is forgotten.
SaveNothing(n, obj) == UNCHANGED db

\* Insert or replace the document.
SaveSubscription(n, obj) == db' = [db EXCEPT ![n] = AsDocument(obj)]

\* The options there are get one more; a bulk option is the same with several.
SetOption(c, obj) == [obj EXCEPT !.opts = @ \cup {<<c.id, c.key>>}]

\* "!! always !!! delete everything"
ReplaceOptions(c, obj) == [obj EXCEPT !.opts = {<<c.id, c.key>>}]

\* The function finish of command c, on object o.
Finish(n, c, o) ==
    LET ok == May(c, heap[o]) /\ c.form = "good"
    IN /\ Reply(c, IF ok THEN "ok" ELSE "error")
       /\ IF ok /\ c.op \in SetOps
          THEN LET changed == IF c.op = "replace" THEN ReplaceOptions(c, heap[o]) ELSE SetOption(c, heap[o])
               IN heap' = [heap EXCEPT ![o] = changed] /\ SaveSubscription(n, changed)
          ELSE UNCHANGED <<heap, db>>

\* The name is in the table.
OnEntry(n) ==
    \E c \in Next1(n) :
       /\ Executes(n, c, EntryOps)
       /\ Loaded(n)
       /\ Finish(n, c, table[n])
       /\ UNCHANGED <<table, busy, loads, deletes>>

\* It is not, and a goroutine starts to load it.
StartLoad(n) ==
    \E c \in Next1(n) :
       /\ Executes(n, c, EntryOps)
       /\ ~Loaded(n)
       /\ loads' = loads \cup {[cmd |-> c, name |-> n, obj |-> 0]}
       /\ UNCHANGED <<db, heap, table, busy, replies, deletes>>

\* A mutant: the command ends without a word when the name is not found.
LoadReadSilent(l) ==
    /\ l.obj = 0 /\ db[l.name] = NoRecord
    /\ loads' = loads \ {l}
    /\ UNCHANGED <<db, heap, table, incoming, busy, replies, sent, restarts, history>>

\* "exists" may find nothing, the others not.
NotFound(c) == IF c.op = "exists" THEN "ok" ELSE "error"

\* GetSubscription decodes the document into a new WatchedTopic.
LoadRead(l) ==
    /\ l.obj = 0
    /\ IF db[l.name] = NoRecord
       THEN /\ Reply(l.cmd, NotFound(l.cmd))
            /\ loads' = loads \ {l}
            /\ UNCHANGED heap
       ELSE /\ heap' = Append(heap, AsEntry(db[l.name]))
            /\ loads' = (loads \ {l}) \cup {[l EXCEPT !.obj = Len(heap) + 1]}
            /\ UNCHANGED replies
    /\ UNCHANGED <<db, table, incoming, busy, sent, restarts, history>>

CallBack(c, o) == [op |-> "back", cmd |-> c, obj |-> o]

\* bucket.incoming <- &mmm
LoadPush(l) ==
    /\ l.obj # 0
    /\ Room(l.name)
    /\ incoming' = [incoming EXCEPT ![l.name] = Append(@, CallBack(l.cmd, l.obj))]
    /\ loads' = loads \ {l}
    /\ UNCHANGED <<db, heap, table, busy, replies, sent, restarts, history>>

\* The callback: setWatcher with what was loaded, reserved or deleted (0),
\* whatever the table holds by now, and the end of the command.
RunCallBack(n) ==
    \E b \in Next1(n) :
       /\ Takes(n, b)
       /\ b.op = "back"
       /\ table' = [table EXCEPT ![n] = b.obj]
       /\ IF b.cmd.op \in EntryOps
          THEN Finish(n, b.cmd, b.obj)
          ELSE Reply(b.cmd, "ok") /\ UNCHANGED <<heap, db>>
       /\ UNCHANGED <<busy, loads, deletes>>

----------------------------------------------------------------------------
(* reserve and delete: "async", but in the bucket's goroutine *)

Owned(k) == {n \in Names : db[n] # NoRecord /\ db[n].owner = k}

\* A mutant: the token may be somebody else's.
AnyToken(c) == TRUE

\* payload.Pubk == pubk
OwnToken(c) == c.tokenKey = c.key

\* createNameFunc up to GetSubscriptionListCount.
ReserveStart(n) ==
    \E c \in Next1(n) :
       /\ Executes(n, c, {"reserve"})
       /\ IF OwnToken(c) /\ Cardinality(Owned(c.tokenKey)) + 1 <= c.allowed
          THEN /\ busy' = [busy EXCEPT ![n] = [stage |-> "reserve", cmd |-> c, obj |-> table[n]]]
               /\ UNCHANGED replies
          ELSE Reply(c, "error") /\ UNCHANGED busy
       /\ UNCHANGED <<db, heap, table, loads, deletes>>

\* A mutant: a name can be reserved from somebody else.
Anybodys(owner, k) == TRUE

\* we can't change the owner of a name
Mine(owner, k) == owner = k

\* The rest of it.  The entry that was in the table is used, else the document,
\* else a new WatchedTopic.
ReserveSave(n) ==
    /\ busy[n].stage = "reserve"
    /\ LET c == busy[n].cmd
           o == busy[n].obj
           obj == IF o # 0 THEN heap[o]
                  ELSE IF db[n] # NoRecord THEN AsEntry(db[n])
                  ELSE [owner |-> c.tokenKey, opts |-> {}, subs |-> {}]
           kept == IF o # 0 THEN [obj EXCEPT !.owner = c.tokenKey] ELSE obj
       IN IF Mine(obj.owner, c.tokenKey)
          THEN /\ heap' = IF o # 0 THEN [heap EXCEPT ![o] = kept] ELSE Append(heap, kept)
               /\ SaveSubscription(n, kept)
               /\ busy' = [busy EXCEPT ![n] = [stage |-> "push", cmd |-> c,
                                              obj |-> IF o # 0 THEN o ELSE Len(heap) + 1]]
               /\ UNCHANGED replies
          ELSE /\ Reply(c, "error")
               /\ busy' = [busy EXCEPT ![n] = Idle]
               /\ UNCHANGED <<heap, db>>
    /\ UNCHANGED <<table, incoming, loads, sent, restarts, history>>

\* deleteNameFunc: never without the owner.
DeleteStart(n) ==
    \E c \in Next1(n) :
       /\ Executes(n, c, {"delete"})
       /\ IF /\ \/ Loaded(n) /\ Entry(n).owner = c.key
                \/ ~Loaded(n) /\ db[n] # NoRecord /\ db[n].owner = c.key
             /\ c.form = "good"
          THEN /\ db' = [db EXCEPT ![n] = NoRecord]
               /\ deletes' = deletes \cup {n}
               /\ busy' = [busy EXCEPT ![n] = [stage |-> "push", cmd |-> c, obj |-> 0]]
               /\ UNCHANGED replies
          ELSE Reply(c, "error") /\ UNCHANGED <<db, deletes, busy>>
       /\ UNCHANGED <<heap, table, loads>>

\* bucket.incoming <- &mmm, from the goroutine that empties the channel
Push(n) ==
    /\ busy[n].stage = "push"
    /\ Room(n)
    /\ incoming' = [incoming EXCEPT ![n] = Append(@, CallBack(busy[n].cmd, busy[n].obj))]
    /\ busy' = [busy EXCEPT ![n] = Idle]
    /\ UNCHANGED <<db, heap, table, loads, replies, sent, restarts, history>>

----------------------------------------------------------------------------
\* The guru goes down and comes back with nothing but the database.
GoesDown ==
    /\ restarts' = restarts + 1
    /\ heap' = <<>>
    /\ table' = [n \in Names |-> 0]
    /\ incoming' = [n \in Names |-> <<>>]
    /\ busy' = [n \in Names |-> Idle]
    /\ loads' = {}
    /\ UNCHANGED <<db, sent, history>>

Restart == restarts < MaxRestarts /\ GoesDown /\ UNCHANGED replies

\* An index out of range; the error may have left already.
Ruin(n) ==
    \E c \in Next1(n) :
       /\ busy[n] = Idle /\ Ruins(c)
       /\ GoesDown
       /\ Reply(c, "error") \/ UNCHANGED replies

Bucket(n) ==
    \/ Refuse(n) \/ Ruin(n) \/ Info(n) \/ OnEntry(n) \/ StartLoad(n) \/ RunCallBack(n)
    \/ ReserveStart(n) \/ ReserveSave(n) \/ DeleteStart(n) \/ Push(n)

Load(l) == LoadRead(l) \/ LoadPush(l)

Next ==
    \/ \E n \in Names : Send(n) \/ Bucket(n) \/ Sweep(n)
    \/ \E n \in Names, s \in Subscribers : Subscribe(n, s) \/ Unsubscribe(n, s)
    \/ \E l \in loads : Load(l)
    \/ Restart

Spec == Init /\ [][Next]_vars

\* The bucket and the loading goroutines run; the database answers.
FairSpec ==
    /\ Spec
    /\ \A n \in Names : WF_vars(Bucket(n))
    /\ WF_vars(\E l \in loads : Load(l))

----------------------------------------------------------------------------
(* Properties *)

\* Every variable has its type, no channel exceeds its capacity and no
\* reference points outside the heap.
TypeOK ==
    /\ db \in [Names -> Records \cup {NoRecord}]
    /\ heap \in Seq(Objects)
    /\ table \in [Names -> 0..Len(heap)]
    /\ \A n \in Names : Len(incoming[n]) <= InCap
    /\ \A n \in Names : \A m \in Range(incoming[n]) :
          IF m.op = "back" THEN m.cmd \in Cmds /\ m.obj \in 0..Len(heap) ELSE m \in Cmds
    /\ \A n \in Names :
          \/ busy[n] = Idle
          \/ busy[n].stage \in {"reserve", "push"} /\ busy[n].cmd \in Cmds /\ busy[n].obj \in 0..Len(heap)
    /\ \A l \in loads : l.cmd \in Cmds /\ l.name \in Names /\ l.obj \in 0..Len(heap)
    /\ replies \in [1..MaxCommands -> Seq({"ok", "error"})]
    /\ sent \in 0..MaxCommands /\ restarts \in 0..(MaxRestarts + MaxCommands)
    /\ reserved \in [Names -> SUBSET Keys] /\ deletes \subseteq Names

\* Command i is in a channel, in a bucket or in a goroutine.  A get option
\* without arguments, which nobody answers, does not count.
Answerable(c, i) == c.id = i /\ ~(c.op = "get" /\ c.form = "short")
Pending(i) ==
    \/ \E n \in Names : \E m \in Range(incoming[n]) :
          Answerable(IF m.op = "back" THEN m.cmd ELSE m, i)
    \/ \E n \in Names : busy[n] # Idle /\ Answerable(busy[n].cmd, i)
    \/ \E l \in loads : Answerable(l.cmd, i)

\* A command is answered once: no path through the bucket, the loading
\* goroutine and the callback replies twice, goes on after a reply or, unless
\* the guru goes down, ends without one.
AnsweredOnce ==
    /\ [](\A i \in 1..MaxCommands : Len(replies[i]) <= 1 /\ (Pending(i) => replies[i] = <<>>))
    /\ [][\A i \in 1..MaxCommands : Pending(i) /\ restarts' = restarts => Pending(i)' \/ replies'[i] # <<>>]_vars

\* Whoever owns a name has reserved it, and all options of a name were set by
\* its owner, also when a name was deleted and reserved by somebody else while
\* an old copy of it was being loaded (four commands, one more than the run
\* has, and the theorem about it any number).
OwnersOptions ==
    \A n \in Names : db[n] # NoRecord =>
       db[n].owner \in reserved[n] /\ \A o \in db[n].opts : o[2] = db[n].owner

\* As long as a name is not deleted its owner does not change, through
\* restarts, loads and reserves of others.
OwnerKept ==
    [][\A n \in Names : n \notin deletes' /\ db[n] # NoRecord =>
          db'[n] # NoRecord /\ db'[n].owner = db[n].owner]_vars

\* As long as a name is not deleted the entry in the table, if it has an owner,
\* has the owner of the database.
CacheAgrees ==
    \A n \in Names \ deletes : Loaded(n) /\ Entry(n).owner # NoKey =>
       db[n] # NoRecord /\ db[n].owner = Entry(n).owner

(***************************************************************************)
(* A statement of a comment that the code does not keep (see the README).  *)
(***************************************************************************)

\* "we can't change the owner of a name" (nameServices.go:123): the name has
\* to be deleted first.
OwnerNeverChanges ==
    [][\A n \in Names : db[n] # NoRecord /\ db'[n] # NoRecord => db'[n].owner = db[n].owner]_vars
=============================================================================

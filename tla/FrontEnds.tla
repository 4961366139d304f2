----------------------------- MODULE FrontEnds -----------------------------
(***************************************************************************)
(* An mqtt client on a web socket (iot/mqtt-protocol.go) whose publish     *)
(* becomes the packet that the contacts of Packets write.                  *)
(*                                                                         *)
(* The client sends the control packets of a script.  The web socket cuts  *)
(* their bytes into messages anywhere; WebSocketLoop takes a message and   *)
(* handles at most one packet of what it has.  A control packet is its     *)
(* header, which here also says which one it is, the length as a variable  *)
(* length integer with the small end first, and a body of that length.     *)
(*                                                                         *)
(* A packet goes up through a command of the contact's loop, so that the   *)
(* contact may close between two packets of one control packet: that of a  *)
(* client without a token does, in a goroutine expectToken starts.  The    *)
(* packet itself goes up all the same, because the error of expectToken is *)
(* assigned to a variable of the closure (contacts.go:291).                *)
(***************************************************************************)
EXTENDS Packets

CONSTANTS
    Messages,   \* packets that are published by others
    Scripts,    \* what the client may send
    GoodTokens, \* those that are verified
    Anonymous, Api1, Nonc, BracketPing, LookupKey, LookupWord, TokenKey  \* its strings

VARIABLES
    script,         \* the control packets the client sends
    wire,           \* the bytes not yet received
    wsBuffer,
    handled,        \* the control packets MQTTHandlePacket got
    todo,           \* what is left to do of the last of them
    subscriptions,  \* cc.subscriptions
    pushed,         \* what went up
    acks,           \* what was written down in answer
    checkedIn,      \* the contact has a token
    refused,        \* a goroutine of makeErrorAndDisconnect is about to close it
    closed,         \* the contact is closed
    stuck,          \* WebSocketLoop waits for a contact that is closed
    whole           \* each message was just one packet, with a body

contactVars == <<subscriptions, pushed, acks, checkedIn, refused, closed, stuck>>
socketVars == <<script, wire, wsBuffer, handled, todo, whole, contactVars>>
vars == <<packetVars, socketVars>>

----------------------------------------------------------------------------
(* Framing *)

MqttLength(n) ==
    LET size == CHOOSE k \in 1..(n + 1) : n < Power[k] /\ \A j \in 1..(k - 1) : n >= Power[j]
    IN [i \in 1..size |-> ((n \div Power[i - 1]) % Base) + IF i < size THEN Base ELSE 0]

Frame(i) == <<i>> \o MqttLength(script[i].size) \o [k \in 1..script[i].size |-> 99]

\* A mutant: the last byte is not waited for.
AllButOne(data, end) == Len(data) + 1 >= end

AllThere(data, end) == Len(data) >= end

\* The value of the bytes from the second to the n-th.
LengthOf(data, n) == FoldLeft(LAMBDA v, k : v + ((data[k] % Base) * Power[k - 2]), 0, [k \in 2..n |-> k])

\* The length of the packet at the start of data, 0 if it is not all there.
\* There must be a byte after the length, even if the length is zero.
IsWholeMqttPacket(data) ==
    LET Ends == {k \in 2..(Len(data) - 1) : data[k] < Base}
        n == CHOOSE k \in Ends : \A j \in Ends : k <= j
        end == n + LengthOf(data, n)
    IN IF Ends = {} THEN 0 ELSE IF AllThere(data, end) THEN end ELSE 0

----------------------------------------------------------------------------
(* MQTTHandlePacket *)

\* UserProps are lists: printed as options they get brackets.
Bracketed(props) == [i \in DOMAIN props |-> [props[i] EXCEPT !.value = <<91>> \o @ \o <<93>>]]

HasOption(options, key, value) == \E i \in DOMAIN options : options[i].key = key /\ options[i].value = value
OptionOf(options, key) == options[CHOOSE i \in DOMAIN options : options[i].key = key].value

Binary(address) == [type |-> BinaryAddress, bytes |-> EnsureAddressIsBinary(address)]

Bytes == Seq(Nat)
Controls == [type : STRING, size : Nat, topics : Seq(Bytes), topic : Bytes, response : Bytes, payload : Bytes,
             props : Seq([key : Bytes, value : Bytes]), token : Bytes]
ASSUME ScriptsAssumption == Scripts \subseteq Seq(Controls)

\* An address as FromBytes makes them, and as mqtt writes a binary one: base 64
\* of the right length that stands for the same bytes.  A space before a name
\* that is typed itself is not used.
Sound(address) ==
    /\ address \in [type : {Utf8Address} \cup DOMAIN AddressLength, bytes : Bytes]
    /\ IF address.type = Utf8Address THEN ~Typed(address.bytes) ELSE Len(address.bytes) = AddressLength[address.type]
    /\ address.type = BinaryAddress =>
          /\ Base64(address.bytes) \in Bytes /\ Len(Base64(address.bytes)) = AddressLength[Base64Address]
          /\ Unbase64(Base64(address.bytes)) = address.bytes

\* "Not meant for integers >= 2^28"
Short(arg) == Len(arg) < Power[Digits]

\* A packet has what its command has, and arguments of lengths that can be written.
Packet(p) ==
    /\ p \in [cmd : Range(Commands), address : [type : Nat, bytes : Bytes], source : [type : Nat, bytes : Bytes],
              payload : Bytes, options : Seq([key : Bytes \ {<<>>}, value : Bytes])]
    /\ Sound(p.address) /\ Sound(p.source)
    /\ \A field \in {"address", "source"} \ Range(Fields(p.cmd)) : p[field] = FromBytes(<<>>)
    /\ "payload" \notin Range(Fields(p.cmd)) => p.payload = <<>>
    /\ \A arg \in Range(ArgsOf(p)) : Short(arg)

ASSUME MessagesAssumption == \A m \in Messages : Packet(m)

\* A client has one name for a topic.
ASSUME TopicsAssumption ==
    \A s \in Scripts : \A i, j \in DOMAIN s : \A t \in Range(s[i].topics), u \in Range(s[j].topics) :
       Binary(FromBytes(t)) = Binary(FromBytes(u)) => t = u

\* What a publish names has the addresses, and the lengths, of a packet; the
\* packet's own are longer by the type of a hash and by two brackets.
ASSUME PublishAssumption ==
    \A s \in Scripts : \A i \in DOMAIN s : s[i].type = "publish" =>
       /\ \A a \in {Binary(FromBytes(s[i].topic)), Binary(FromBytes(s[i].response)), FromBytes(s[i].response)} :
             Sound(a) /\ Short(ToBytes(a))
       /\ Short(s[i].payload)
       /\ \A prop \in Range(s[i].props) : prop.key # <<>> /\ Short(prop.key) /\ Short(<<91>> \o prop.value \o <<93>>)

\* A ping of the api to "anonymous" goes back to its sender, with its number.
Bounces(c) == /\ c.topic = Anonymous /\ HasOption(Bracketed(c.props), Api1, BracketPing)
              /\ \E i \in DOMAIN c.props : c.props[i].key = Nonc

\* The code looks for the word alone, and properties have brackets.
Lookups(c) == HasOption(Bracketed(c.props), LookupKey, LookupWord)

\* The packet a publish becomes.  What goes up gets its address hashed.  The
\* options of a lookup are put into the packet that is not sent.
Published(c) ==
    LET options == Bracketed(c.props)
        send == [cmd |-> "P", address |-> Binary(FromBytes(c.topic)), source |-> FromBytes(c.response),
                 payload |-> c.payload, options |-> options]
        echo == [i \in DOMAIN options |->
                   IF options[i].key = Api1 THEN [options[i] EXCEPT !.value = OptionOf(options, Nonc)] ELSE options[i]]
    IN IF Bounces(c) THEN [send EXCEPT !.address = Binary(FromBytes(c.response)), !.options = echo]
       ELSE IF Lookups(c) THEN [send EXCEPT !.cmd = "L", !.payload = <<>>, !.options = <<>>]
       ELSE send

\* A packet per topic.
PerTopic(c, cmd) ==
    [i \in DOMAIN c.topics |-> [packet |-> [cmd |-> cmd, address |-> Binary(FromBytes(c.topics[i])), source |-> FromBytes(<<>>),
                                            payload |-> <<>>, options |-> Bracketed(c.props)],
                                topic |-> c.topics[i]]]

\* What a control packet sends up, and the topics this is about.
Pushes(c) ==
    CASE c.type = "connect" -> <<[packet |-> [cmd |-> "C", address |-> FromBytes(<<>>), source |-> FromBytes(<<>>), payload |-> <<>>,
                                              options |-> <<[key |-> TokenKey, value |-> c.token]>>], topic |-> <<>>]>>
      [] c.type = "publish" -> <<[packet |-> Published(c), topic |-> <<>>]>>
      [] c.type = "subscribe" -> PerTopic(c, "S")
      [] c.type = "unsub" -> PerTopic(c, "U")
      [] OTHER -> <<>>

\* What is written in answer.
Answers(c) ==
    CASE c.type = "connect" -> <<"connack">>
      [] c.type = "subscribe" -> <<"suback">>
      [] c.type = "ping" -> <<"pingresp">>
      [] OTHER -> <<>>

\* A mutant: topics that were unsubscribed stay.
KeepTopics(item) == IF item.packet.cmd = "S" THEN subscriptions \cup {item.topic} ELSE subscriptions

TopicsAfter(item) ==
    CASE item.packet.cmd = "S" -> subscriptions \cup {item.topic}
      [] item.packet.cmd = "U" -> subscriptions \ {item.topic}
      [] OTHER -> subscriptions

\* What is written once all is pushed.
Answered(i, rest) == IF rest = <<>> THEN acks \o Answers(script[i]) ELSE acks

\* A packet that is not known closes the contact, but not the loop.  If the
\* contact closes meanwhile, its own DoClose is waited for in vain.
MQTTHandlePacket(i) ==
    /\ handled' = Append(handled, i)
    /\ todo' = Pushes(script[i])
    /\ acks' = Answered(i, todo')
    /\ closed' = (closed \/ script[i].type = "other")
    /\ stuck' \in IF closed' /\ ~closed /\ refused THEN BOOLEAN ELSE {FALSE}
    /\ UNCHANGED <<subscriptions, pushed, checkedIn, refused>>

\* expectToken: a good token checks the contact in; without one a goroutine
\* is started that closes the contact.
ExpectToken(p) ==
    LET good == p.cmd = "C" /\ p.options[1].value \in GoodTokens
    IN /\ checkedIn' = (checkedIn \/ good)
       /\ refused' = (refused \/ ~(checkedIn \/ good))

\* A topic is put on the list, or taken off, before its packet is pushed.
PushPacketUpFromBottom ==
    /\ todo # <<>> /\ ~closed
    /\ subscriptions' = TopicsAfter(Head(todo))
    /\ pushed' = Append(pushed, Head(todo).packet)
    /\ ExpectToken(Head(todo).packet)
    /\ todo' = Tail(todo)
    /\ acks' = Answered(Last(handled), todo')
    /\ UNCHANGED <<script, wire, wsBuffer, handled, whole, closed, stuck>>

\* The command of a packet that is pushed to a closed contact is never run.
PushInVain ==
    /\ todo # <<>> /\ closed /\ ~stuck
    /\ subscriptions' = TopicsAfter(Head(todo))
    /\ stuck' = TRUE
    /\ UNCHANGED <<script, wire, wsBuffer, handled, todo, whole, pushed, acks, checkedIn, refused, closed>>

\* makeErrorAndDisconnect: the client is told and the contact closed.
MakeErrorAndDisconnect ==
    /\ refused
    /\ refused' = FALSE /\ closed' = TRUE
    /\ acks' = IF closed THEN acks ELSE Append(acks, "disconnect")
    /\ UNCHANGED <<script, wire, wsBuffer, handled, todo, whole, subscriptions, pushed, checkedIn, stuck>>

----------------------------------------------------------------------------
(* WebSocketLoop *)

\* Messages of others need no client.
Init ==
    /\ PacketsInit
    /\ \/ message \in Messages /\ script = <<>>
       \/ message = NoPacket /\ script \in Scripts
    /\ wire = FlattenSeq([i \in DOMAIN script |-> Frame(i)])
    /\ wsBuffer = <<>> /\ handled = <<>> /\ todo = <<>> /\ subscriptions = {} /\ pushed = <<>> /\ acks = <<>>
    /\ checkedIn = FALSE /\ refused = FALSE /\ closed = FALSE /\ stuck = FALSE /\ whole = TRUE

\* A message of n bytes, and at most one packet.
ReadMessage(n) ==
    LET data == wsBuffer \o SubSeq(wire, 1, n)
        end == IsWholeMqttPacket(data)
    IN /\ todo = <<>> /\ ~stuck
       /\ wire' = SubSeq(wire, n + 1, Len(wire))
       /\ whole' = (whole /\ \E i \in DOMAIN script : Frame(i) = SubSeq(wire, 1, n) /\ script[i].size > 0)
       /\ wsBuffer' = SubSeq(data, end + 1, Len(data))
       /\ IF end = 0 THEN UNCHANGED <<handled, todo, contactVars>> ELSE MQTTHandlePacket(data[1])
       /\ UNCHANGED script

\* The bucket hands what was published to its subscribers: the first packet,
\* once the client is done.
Deliver ==
    /\ message = NoPacket /\ ((wire = <<>> /\ todo = <<>>) \/ stuck)
    /\ \E p \in Range(pushed) : p.cmd = "P" /\ message' = p
    /\ UNCHANGED <<socketVars, kind, backing, universal, pc, using, stream, lost, got, raced, panicked>>

WebSocketLoop == (\E n \in 1..Len(wire) : ReadMessage(n)) \/ PushPacketUpFromBottom \/ PushInVain

Next ==
    \/ (WebSocketLoop \/ MakeErrorAndDisconnect) /\ ~panicked /\ UNCHANGED packetVars
    \/ Deliver
    \/ PacketsNext /\ UNCHANGED socketVars

Spec == Init /\ [][Next]_vars

----------------------------------------------------------------------------
(* Properties *)

TypeOK ==
    /\ PacketsTypeOK
    /\ subscriptions \subseteq UNION {Range(script[i].topics) : i \in DOMAIN script}
    /\ checkedIn \in BOOLEAN /\ refused \in BOOLEAN /\ closed \in BOOLEAN /\ stuck \in BOOLEAN
    /\ Range(acks) \subseteq {"connack", "suback", "pingresp", "disconnect"}

\* However the web socket cuts the bytes, the packets are handled one by one,
\* in order, and what is left is the rest of the bytes.  A client that sends
\* packets with a body one to a message never waits for its next message to
\* have the last one handled.
FramesInOrder ==
    /\ handled = [i \in DOMAIN handled |-> i]
    /\ wsBuffer \o wire = FlattenSeq([i \in 1..(Len(script) - Len(handled)) |-> Frame(Len(handled) + i)])
    /\ whole => wsBuffer = <<>>

\* The topics on the list of the contact are those that are subscribed in the
\* lookup table, also when the contact closes between the topics of a packet;
\* only the topic of a packet whose command is never run may differ.
About(p, topic) == p.cmd \in {"S", "U"} /\ p.address = Binary(FromBytes(topic))
SubscribedAbove(topic) ==
    \E i \in DOMAIN pushed : /\ pushed[i].cmd = "S" /\ About(pushed[i], topic)
                            /\ \A j \in DOMAIN pushed : j > i => ~About(pushed[j], topic)
WaitsWith(topic) == stuck /\ todo # <<>> /\ About(Head(todo).packet, topic)
SubscriptionsAgree ==
    \A i \in DOMAIN script : \A t \in Range(script[i].topics) :
       WaitsWith(t) \/ (t \in subscriptions <=> SubscribedAbove(t))
=============================================================================

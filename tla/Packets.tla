------------------------------ MODULE Packets ------------------------------
(***************************************************************************)
(* Packets on the wire (packets/packets.go): how a packet becomes an array *)
(* of byte arrays and bytes, how it is read back, and how the goroutines   *)
(* of several contacts write one and the same packet, which is what a      *)
(* publish with more than one subscriber does.                             *)
(*                                                                         *)
(* Each writer has a connection of its own with a reader at its end, and   *)
(* its Write has a step wherever it reads or writes what the packet shares *)
(* with the others.  A contact speaks this protocol over tcp, or text      *)
(* (iot/text-protocol.go), or mqtt (iot/mqtt-protocol.go).  Bytes are      *)
(* numbers.  The sizes 128, 4, 8000000 and 24 of the code are constants.   *)
(***************************************************************************)
EXTENDS Naturals, Sequences, FiniteSets, SequencesExt

CONSTANTS
    Base, Digits,       \* a variable length integer has at most 4 digits of base 128
    MaxArgs, MaxTotal,  \* 128 arguments, 8000000 bytes
    HashTypeLen,        \* 24
    Unhex(_), Base64(_), Unbase64(_), Sha(_),  \* of the library
    HadLookup, LookupProps,  \* the payload and the properties mqtt gives a lookup
    ErrorKey,           \* "error", the option of a packet that is one
    IsGuru,             \* the contacts are those of a guru
    Writers             \* the contacts that write one packet

ASSUME PacketsAssumption ==
    /\ Base \in Nat \ {0, 1} /\ Digits \in Nat \ {0}
    /\ MaxArgs \in Nat /\ MaxTotal \in Nat /\ HashTypeLen \in Nat /\ IsGuru \in BOOLEAN

----------------------------------------------------------------------------
(* Addresses *)

BinaryAddress == 0
Utf8Address == 32
HexAddress == 36
Base64Address == 61

\* How many bytes follow a type that is not utf-8.
AddressLength ==
    [type \in {BinaryAddress, HexAddress, Base64Address} |->
       CASE type = BinaryAddress -> HashTypeLen [] type = HexAddress -> HashTypeLen * 2 [] OTHER -> (HashTypeLen * 8) \div 6]

\* A type byte counts only if what follows has its length; a space always does.
Typed(bytes) ==
    /\ bytes # <<>>
    /\ \/ bytes[1] = Utf8Address
       \/ bytes[1] \in DOMAIN AddressLength /\ Len(bytes) - 1 = AddressLength[bytes[1]]

FromBytes(bytes) ==
    IF Typed(bytes) THEN [type |-> bytes[1], bytes |-> Tail(bytes)] ELSE [type |-> Utf8Address, bytes |-> bytes]

\* A mutant: the type byte is only written for binary addresses.
UntypedHex(address) ==
    IF address.type = BinaryAddress THEN <<address.type>> \o address.bytes ELSE address.bytes

ToBytes(address) ==
    IF address.type = Utf8Address THEN address.bytes ELSE <<address.type>> \o address.bytes

\* The topic an address stands for: what is malformed is hashed like a string.
EnsureAddressIsBinary(address) ==
    LET fits(type) == address.type = type /\ Len(address.bytes) = AddressLength[type]
    IN CASE fits(BinaryAddress) -> address.bytes
         [] fits(HexAddress) -> Unhex(address.bytes)
         [] fits(Base64Address) -> Unbase64(address.bytes)
         [] OTHER -> Sha(address.bytes)

----------------------------------------------------------------------------
(* Packets and universals *)

\* The arguments that come before the options, per command.
Fields(cmd) ==
    CASE cmd = "P" -> <<"address", "source", "payload">>
      [] cmd = "L" -> <<"address", "source">>
      [] cmd \in {"S", "U"} -> <<"address">>
      [] cmd \in {"C", "D", "H"} -> <<>>

Commands == <<"P", "L", "S", "U", "C", "D", "H">>

\* An argument of a packet: payloads are bytes, the others are addresses.
FieldBytes(p, field) == IF field = "payload" THEN p.payload ELSE ToBytes(p[field])

\* Options are a sorted map; here the sequence of its keys and values.
PackOptions(p) == FlattenSeq([i \in DOMAIN p.options |-> <<p.options[i].key, p.options[i].value>>])

\* Keys and values in turn; a key that is empty, or has no value, is dropped.
UnpackOptions(args) ==
    FlattenSeq([i \in 1..(Len(args) \div 2) |->
       IF args[2 * i - 1] = <<>> THEN <<>> ELSE <<[key |-> args[2 * i - 1], value |-> args[2 * i]]>>])

\* All the arguments of a packet.
ArgsOf(p) == [i \in DOMAIN Fields(p.cmd) |-> FieldBytes(p, Fields(p.cmd)[i])] \o PackOptions(p)

NoPacket == [cmd |-> "none"]

\* HasError: whether a packet has an error, and the disconnect with it alone.
HasError(p) == \E i \in DOMAIN p.options : p.options[i].key = ErrorKey
ErrorDisconnect(p) ==
    [cmd |-> "D", address |-> FromBytes(<<>>), source |-> FromBytes(<<>>), payload |-> <<>>,
     options |-> <<p.options[CHOOSE i \in DOMAIN p.options : p.options[i].key = ErrorKey]>>]

\* FillPacket and the Fill of each type.
FillPacket(u) ==
    IF u.cmd \notin Range(Commands) \/ Len(u.args) < Len(Fields(u.cmd)) THEN NoPacket
    ELSE LET fields == Fields(u.cmd)
             arg(f) == u.args[CHOOSE i \in DOMAIN fields : fields[i] = f]
         IN [cmd |-> u.cmd,
             address |-> IF "address" \in Range(fields) THEN FromBytes(arg("address")) ELSE FromBytes(<<>>),
             source |-> IF "source" \in Range(fields) THEN FromBytes(arg("source")) ELSE FromBytes(<<>>),
             payload |-> IF "payload" \in Range(fields) THEN arg("payload") ELSE <<>>,
             options |-> UnpackOptions(SubSeq(u.args, Len(fields) + 1, Len(u.args)))]

----------------------------------------------------------------------------
(* Bytes *)

\* The command is one byte; 0 is that of a universal nobody has filled.
CmdByte(cmd) == IF cmd = "" THEN 0 ELSE 200 + SelectInSeq(Commands, LAMBDA c : c = cmd)
ByteCmd(b) == IF b - 200 \in DOMAIN Commands THEN Commands[b - 200] ELSE ""

\* What the digit after k others counts.
Power[k \in Nat] == IF k = 0 THEN 1 ELSE Base * Power[k - 1]

\* A mutant: a value of exactly 128 still gets one byte.
OneDigitMore(v) ==
    LET n == CHOOSE k \in 1..(v + 1) : v <= Power[k] /\ \A j \in 1..(k - 1) : v > Power[j]
    IN [i \in 1..n |-> ((v \div Power[n - i]) % Base) + IF i < n THEN Base ELSE 0]

\* Big end first; all but the last digit have the high bit.
WriteVarLenInt(v) ==
    LET n == CHOOSE k \in 1..(v + 1) : v < Power[k] /\ \A j \in 1..(k - 1) : v >= Power[j]
    IN [i \in 1..n |-> ((v \div Power[n - i]) % Base) + IF i < n THEN Base ELSE 0]

ValueOf(digits) == FoldLeft(LAMBDA v, b : (v * Base) + (b % Base), 0, digits)

\* The value at the start of bytes and how many it takes, 0 if they end before.
\* After four digits one more byte is read and not used.
ReadVarLenInt(bytes) ==
    LET ends(k) == k <= Len(bytes) /\ (bytes[k] < Base \/ k = Digits + 1)
        Ends == {k \in 1..(Digits + 1) : ends(k)}
        n == CHOOSE k \in Ends : \A j \in Ends : k <= j
        digits == SubSeq(bytes, 1, IF n > Digits THEN Digits ELSE n)
    IN IF Ends = {} THEN [value |-> 0, size |-> 0]
       ELSE [value |-> ValueOf(digits), size |-> n]

Total(seqs) == FoldLeft(LAMBDA n, s : n + Len(s), 0, seqs)

WriteArrayOfByteArray(args) ==
    <<Len(args)>> \o FlattenSeq([i \in DOMAIN args |-> WriteVarLenInt(Len(args[i]))]) \o FlattenSeq(args)

\* io.ReadFull: all the bytes or none.
ReadFull(bytes, total) == IF Len(bytes) >= total THEN bytes ELSE <<>>

\* One more length: the next one is read behind it, and its argument ends there.
ReadLength(bytes, s) ==
    LET v == ReadVarLenInt(SubSeq(bytes, s.at, Len(bytes)))
    IN IF ~s.ok \/ v.size = 0 THEN [s EXCEPT !.ok = FALSE]
       ELSE [ok |-> TRUE, at |-> s.at + v.size, ends |-> Append(s.ends, Last(s.ends) + v.value)]

ReadLengths(bytes, count) ==
    FoldLeft(LAMBDA s, i : ReadLength(bytes, s), [ok |-> TRUE, at |-> 2, ends |-> <<0>>], [i \in 1..count |-> i])

\* The lengths first, then the bytes, which are cut into arguments.
ReadArrayOfByteArray(bytes) ==
    LET count == IF bytes = <<>> THEN 0 ELSE bytes[1]
        lengths == ReadLengths(bytes, count)
        total == Last(lengths.ends)
        rest == ReadFull(SubSeq(bytes, lengths.at, Len(bytes)), total)
    IN IF bytes = <<>> \/ count >= MaxArgs \/ ~lengths.ok \/ total >= MaxTotal \/ Len(rest) < total
       THEN [ok |-> FALSE]
       ELSE [ok |-> TRUE, args |-> [i \in 1..count |-> SubSeq(rest, lengths.ends[i] + 1, lengths.ends[i + 1])]]

ReadPacket(bytes) ==
    LET array == ReadArrayOfByteArray(Tail(bytes))
    IN IF bytes = <<>> \/ ~array.ok THEN NoPacket
       ELSE FillPacket([cmd |-> ByteCmd(bytes[1]), args |-> array.args])

----------------------------------------------------------------------------
(* The writers *)

VARIABLES
    message,    \* the packet, NoPacket before there is one
    kind,       \* what each contact speaks
    backing,    \* backingUniversal: the writer whose universal it is, or "nil"
    universal,  \* the universal each writer made
    pc,         \* where a writer is
    using,      \* the universal it writes
    stream,     \* the bytes, the line or the mqtt packets of its connection
    lost,       \* the connection broke before all of them arrived
    got,        \* what the reader at the other end made of them
    raced,      \* a writer began while another was at it
    panicked    \* a universal that is nil was used, and the process ended

packetVars == <<message, kind, backing, universal, pc, using, stream, lost, got, raced, panicked>>

Blank == [cmd |-> "", args |-> <<>>]
Unread == [cmd |-> "unread"]

\* Text writers make the universal again.
FirstStep(k) == CASE k = "tcp" -> "check" [] k = "text" -> "reset" [] k = "mqtt" -> "publish"

PacketsInit ==
    /\ kind \in [Writers -> {"tcp", "text", "mqtt"}]
    /\ backing = "nil" /\ universal = [w \in Writers |-> Blank]
    /\ pc = [w \in Writers |-> FirstStep(kind[w])] /\ using = [w \in Writers |-> "nil"]
    /\ stream = [w \in Writers |-> <<>>] /\ lost = [w \in Writers |-> FALSE]
    /\ got = [w \in Writers |-> Unread] /\ raced = FALSE /\ panicked = FALSE

Goes(w, from, to) ==
    /\ pc[w] = from /\ pc' = [pc EXCEPT ![w] = to]
    /\ message # NoPacket /\ UNCHANGED <<message, kind>>

\* A tcp contact of an aide and any text contact write the disconnect instead.
Replaced(w) == HasError(message) /\ (kind[w] = "text" \/ (kind[w] = "tcp" /\ ~IsGuru))

Begun(v) == pc[v] \notin {FirstStep(kind[v]), "done"}
Begins(w) == raced' = (raced \/ \E v \in Writers \ {w} : Begun(v))

\* ToJSON of a text contact: p.backingUniversal = nil
Reset(w) ==
    /\ Goes(w, "reset", "check") /\ Begins(w) /\ ~Replaced(w)
    /\ backing' = "nil"
    /\ UNCHANGED <<universal, using, stream, lost, got, panicked>>

\* if p.backingUniversal == nil
Check(w) ==
    /\ Goes(w, "check", IF backing = "nil" THEN "new" ELSE "write") /\ Begins(w) /\ ~Replaced(w)
    /\ UNCHANGED <<backing, universal, using, stream, lost, got, panicked>>

\* The packet gets its universal before that is filled.
New(w) ==
    /\ Goes(w, "new", "cmd")
    /\ backing' = w
    /\ UNCHANGED <<universal, using, stream, lost, got, raced, panicked>>

SetCmd(w) ==
    /\ Goes(w, "cmd", "args")
    /\ universal' = [universal EXCEPT ![w].cmd = message.cmd]
    /\ UNCHANGED <<backing, using, stream, lost, got, raced, panicked>>

\* A mutant: it appends to p.backingUniversal.Args.
AppendShared(w) ==
    LET fields == Fields(message.cmd)
        n == Len(universal[backing].args) + 1
    IN /\ backing # "nil" /\ Goes(w, "args", IF n >= Len(fields) THEN "options" ELSE "args")
       /\ universal' = [universal EXCEPT ![backing].args =
             IF n > Len(fields) THEN @ ELSE Append(@, FieldBytes(message, fields[n]))]
       /\ UNCHANGED <<backing, using, stream, lost, got, raced, panicked>>

\* str.Args = append(str.Args, ...), field by field.
AppendArg(w) ==
    LET fields == Fields(message.cmd)
        n == Len(universal[w].args) + 1
    IN /\ Goes(w, "args", IF n >= Len(fields) THEN "options" ELSE "args")
       /\ universal' = [universal EXCEPT ![w].args =
             IF n > Len(fields) THEN @ ELSE Append(@, FieldBytes(message, fields[n]))]
       /\ UNCHANGED <<backing, using, stream, lost, got, raced, panicked>>

AppendOptions(w) ==
    /\ Goes(w, "options", "write")
    /\ universal' = [universal EXCEPT ![w].args = @ \o PackOptions(message)]
    /\ UNCHANGED <<backing, using, stream, lost, got, raced, panicked>>

\* p.backingUniversal.Write: of whoever set it last.  The command comes first.
WriteCmd(w) ==
    /\ kind[w] = "tcp" /\ backing # "nil"
    /\ Goes(w, "write", "body")
    /\ using' = [using EXCEPT ![w] = backing]
    /\ stream' = [stream EXCEPT ![w] = <<CmdByte(universal[backing].cmd)>>]
    /\ UNCHANGED <<backing, universal, lost, got, raced, panicked>>

\* Too many arguments are an error that comes after the command.
WriteBody(w) ==
    /\ Goes(w, "body", "done")
    /\ LET args == universal[using[w]].args
       IN stream' = [stream EXCEPT ![w] = IF Len(args) >= MaxArgs THEN @ ELSE @ \o WriteArrayOfByteArray(args)]
    /\ UNCHANGED <<backing, universal, using, lost, got, raced, panicked>>

\* UniversalToJSON, as the universal whose text it is.
WriteText(w) ==
    /\ kind[w] = "text" /\ backing # "nil"
    /\ Goes(w, "write", "done")
    /\ stream' = [stream EXCEPT ![w] = <<universal[backing]>>]
    /\ UNCHANGED <<backing, universal, using, lost, got, raced, panicked>>

WriteNil(w) ==
    /\ pc[w] = "write" /\ backing = "nil"
    /\ panicked' = TRUE
    /\ UNCHANGED <<message, kind, backing, universal, pc, using, stream, lost, got, raced>>

Written(p) == [cmd |-> p.cmd, args |-> ArgsOf(p)]
OnWire(b, args) == IF Len(args) >= MaxArgs THEN <<b>> ELSE <<b>> \o WriteArrayOfByteArray(args)

\* The disconnect is a packet of the writer's own, with its own universal.
WriteError(w) ==
    /\ Goes(w, FirstStep(kind[w]), "done") /\ Replaced(w)
    /\ LET dis == ErrorDisconnect(message)
       IN stream' = [stream EXCEPT ![w] =
             IF kind[w] = "text" THEN <<Written(dis)>> ELSE OnWire(CmdByte(dis.cmd), ArgsOf(dis))]
    /\ UNCHANGED <<backing, universal, using, lost, got, raced, panicked>>

\* AddressUnion.String: unlike ToBytes it has the type of utf-8 addresses too.
AddressString(address) ==
    IF address.type = BinaryAddress /\ Len(address.bytes) = HashTypeLen THEN <<Base64Address>> \o Base64(address.bytes)
    ELSE <<address.type>> \o address.bytes

\* What a packet is in mqtt, version 5; most packets are nothing, and a publish
\* with an error has a disconnect behind it.
MqttPackets(p) ==
    CASE p.cmd = "P" -> <<[type |-> "publish", topic |-> AddressString(p.address), payload |-> p.payload,
                           response |-> AddressString(p.source), props |-> p.options]>>
                        \o (IF HasError(p) THEN <<[type |-> "disconnect"]>> ELSE <<>>)
      [] p.cmd = "L" -> <<[type |-> "publish", topic |-> AddressString(p.address), payload |-> HadLookup,
                           response |-> AddressString(p.source), props |-> p.options \o LookupProps]>>
      [] p.cmd = "D" -> <<[type |-> "disconnect"]>>
      [] OTHER -> <<>>

\* An mqtt contact converts the packet itself and leaves the universal alone.
WriteMqtt(w) ==
    /\ Goes(w, "publish", "done")
    /\ stream' = [stream EXCEPT ![w] = MqttPackets(message)]
    /\ UNCHANGED <<backing, universal, using, lost, got, raced, panicked>>

\* One of the connections breaks: only some of its bytes arrive.
Lose(w) ==
    /\ kind[w] = "tcp" /\ pc[w] = "done" /\ got[w] = Unread /\ \A v \in Writers : ~lost[v]
    /\ \E n \in 0..(Len(stream[w]) - 1) : stream' = [stream EXCEPT ![w] = SubSeq(@, 1, n)]
    /\ lost' = [lost EXCEPT ![w] = TRUE]
    /\ UNCHANGED <<message, kind, backing, universal, pc, using, got, raced, panicked>>

Read(w) ==
    /\ kind[w] = "tcp" /\ pc[w] = "done" /\ got[w] = Unread
    /\ got' = [got EXCEPT ![w] = ReadPacket(stream[w])]
    /\ UNCHANGED <<message, kind, backing, universal, pc, using, stream, lost, raced, panicked>>

Write(w) ==
    \/ Reset(w) \/ Check(w) \/ New(w) \/ SetCmd(w) \/ AppendArg(w) \/ AppendOptions(w)
    \/ WriteCmd(w) \/ WriteBody(w) \/ WriteText(w) \/ WriteMqtt(w) \/ WriteNil(w) \/ WriteError(w)

PacketsNext == ~panicked /\ \E w \in Writers : Write(w) \/ Lose(w) \/ Read(w)

----------------------------------------------------------------------------
(* Properties *)

Arrived(w) == got[w] \notin {Unread, NoPacket}

\* What a client should have of the packet.
Due(w) == IF Replaced(w) THEN ErrorDisconnect(message) ELSE message

\* Each universal grows towards the arguments of the packet, and a packet that
\* was read has one of the commands.
PacketsTypeOK ==
    /\ backing \in Writers \cup {"nil"} /\ panicked \in BOOLEAN
    /\ \A w \in Writers :
          /\ pc[w] \in {"reset", "check", "new", "cmd", "args", "options", "write", "body", "publish", "done"}
          /\ universal[w] # Blank => universal[w].cmd = message.cmd /\ IsPrefix(universal[w].args, ArgsOf(message))
          /\ using[w] \in Writers \cup {"nil"} /\ lost[w] \in BOOLEAN
          /\ Arrived(w) => got[w].cmd \in Range(Commands)

\* The topic and the return address an mqtt client is given are, when it sends
\* to them, the ones of the packet.
MqttTopicsReturn ==
    \A w \in Writers : \A q \in Range(stream[w]) : kind[w] = "mqtt" /\ q.type = "publish" =>
       /\ EnsureAddressIsBinary(FromBytes(q.topic)) = EnsureAddressIsBinary(message.address)
       /\ EnsureAddressIsBinary(FromBytes(q.response)) = EnsureAddressIsBinary(message.source)

\* Whatever a reader accepts has the command, the topic, the return address and
\* the payload of the packet that was sent, or of the disconnect if that was an
\* error, and all of its options or none, however the writers got in each
\* other's way; a part of a packet is never taken for one.
ReadsAreTrue ==
    /\ \A w \in Writers : Arrived(w) =>
          /\ ~lost[w]
          /\ got[w].cmd = Due(w).cmd /\ got[w].payload = Due(w).payload
          /\ EnsureAddressIsBinary(got[w].address) = EnsureAddressIsBinary(Due(w).address)
          /\ EnsureAddressIsBinary(got[w].source) = EnsureAddressIsBinary(Due(w).source)
          /\ got[w].options \in {Due(w).options, <<>>}
    /\ MqttTopicsReturn

\* What the reader takes: fewer than MaxArgs arguments and MaxTotal bytes.
Fits(p) == Len(ArgsOf(p)) < MaxArgs /\ Total(ArgsOf(p)) < MaxTotal

\* A packet that is not too large and that no two contacts write at a time is
\* read back as it was, and its text is all of it; one that is too large is not
\* read at all.  One with an error is read, by a text client and by those of an
\* aide, as the disconnect with that error, whoever else writes the packet.
ExactUnlessRaced ==
    \A w \in Writers : (~raced \/ Replaced(w)) /\ ~lost[w] =>
       /\ got[w] # Unread => got[w] = IF Fits(Due(w)) THEN Due(w) ELSE NoPacket
       /\ kind[w] = "text" /\ pc[w] = "done" => stream[w] = <<Written(Due(w))>>

\* "might be nil, a write will fill it" (packets.go:212): every subscriber gets
\* a packet that fits.
EverySubscriberReads ==
    \A w \in Writers : ~lost[w] /\ got[w] # Unread /\ Fits(Due(w)) => got[w] = Due(w)
=============================================================================

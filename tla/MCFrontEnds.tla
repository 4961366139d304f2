---------------------------- MODULE MCFrontEnds ----------------------------
(* Instances of FrontEnds and Packets for TLC. *)
EXTENDS FrontEnds

CONSTANTS w1, w2

\* Hex and base 64 with digits that are small numbers, for addresses of three
\* bytes; a hash no other address has.
HexPairs(bytes) == [i \in 1..(Len(bytes) \div 2) |-> 16 * bytes[2 * i - 1] + bytes[2 * i]]
FourDigits(bytes) ==
    LET v == bytes[1] * 65536 + bytes[2] * 256 + bytes[3]
    IN <<v \div 262144, (v \div 4096) % 64, (v \div 64) % 64, v % 64>>
ThreeBytes(digits) ==
    LET v == digits[1] * 262144 + digits[2] * 4096 + digits[3] * 64 + digits[4]
    IN <<v \div 65536, (v \div 256) % 256, v % 256>>
ShortSha(bytes) == <<250, Len(bytes), FoldLeft(LAMBDA n, b : (3 * n + b) % 256, 1, bytes)>>

Letters(n) == [i \in 1..n |-> 97]
Nobody == FromBytes(<<>>)
Option(k, n) == [key |-> <<k>>, value |-> Letters(n)]

\* A message per kind of address and length: on both sides of one and two
\* digits, of the largest number of arguments and of bytes; errors,
\* the one of billing and one that is too large as it is.
SomeMessages ==
    {[cmd |-> "P", address |-> FromBytes(<<0, 7, 8, 9>>), source |-> FromBytes(<<61, 7, 8, 9, 6>>),
      payload |-> Letters(n), options |-> <<Option(98, 2)>>] : n \in {0, 3, 4, 15}}
    \cup {[cmd |-> "L", address |-> FromBytes(<<36, 1, 2, 3, 4, 5, 6>>), source |-> FromBytes(<<32, 97>>),
           payload |-> <<>>, options |-> <<Option(98, n), Option(99, 0)>>] : n \in {0, 5}}
    \cup {[cmd |-> "S", address |-> FromBytes(Letters(n)), source |-> Nobody, payload |-> <<>>, options |-> <<>>] :
           n \in {0, 4, 16, 29, 30}}
    \cup {[cmd |-> c, address |-> Nobody, source |-> Nobody, payload |-> <<>>,
           options |-> [i \in 1..n |-> Option(97 + i, i)]] : c \in {"C", "D"}, n \in {0, 3, 4}}
    \cup {[cmd |-> "P", address |-> FromBytes(<<0, 7, 8, 9>>), source |-> FromBytes(Letters(1)), payload |-> Letters(n),
           options |-> <<Option(96, n), Option(98, 2)>>] : n \in {3, 8}}

\* The strings, each as one byte.
S(n) == <<n>>
Bracket(n) == <<91, n, 93>>
SAnonymous == S(10)
SApi1 == S(11)
SNonc == S(12)
SPing == Bracket(13)
SLookup == S(14)
SLookupWord == S(14)
SToken == S(15)
SGood == {S(20)}
SError == S(96)
SHad == S(16)
SProps == <<[key |-> S(17), value |-> S(18)]>>

Control(type, size) ==
    [type |-> type, size |-> size, topics |-> <<>>, topic |-> <<>>, response |-> <<>>, payload |-> <<>>, props |-> <<>>, token |-> S(20)]
Topics(type, ts) == [Control(type, 2) EXCEPT !.topics = ts]
Publish(topic, props) ==
    [Control("publish", 5) EXCEPT !.topic = topic, !.response = S(21), !.payload = S(22), !.props = props]
Prop(k, v) == [key |-> S(k), value |-> S(v)]

Refused == [Control("connect", 1) EXCEPT !.token = S(25)]

\* Subscribing, changing it, pinging in between and sending what is not known;
\* the three ways of a publish; a token that is refused, and none.
SomeScripts ==
    {<<Control("connect", 4), Topics("subscribe", <<S(1), S(2)>>), Topics("unsub", <<S(1)>>), Topics("subscribe", <<S(1)>>)>>,
     <<Refused, Topics("subscribe", <<S(1), S(2), S(3)>>), Topics("unsub", <<S(3), S(1)>>)>>,
     <<Topics("subscribe", <<S(1)>>), Control("connect", 1), Topics("unsub", <<S(1), S(2)>>)>>,
     <<Refused, Control("other", 3), Topics("subscribe", <<S(2)>>)>>,
     <<Control("connect", 1), Control("ping", 0), Topics("subscribe", <<S(1)>>), Publish(S(1), <<Prop(19, 23)>>)>>,
     <<Control("connect", 1), Publish(SAnonymous, <<Prop(11, 13), Prop(12, 24)>>), Control("ping", 0)>>,
     <<Publish(S(1), <<Prop(14, 14)>>), Publish(SAnonymous, <<Prop(11, 13)>>), Control("other", 3), Topics("subscribe", <<S(2)>>)>>}
=============================================================================

--------------------------- MODULE ClusterProofs ---------------------------
(***************************************************************************)
(* Proofs about Cluster, for every number of clients, topics and nodes,    *)
(* every limit, every queue and every place that maglev gives a topic: the *)
(* type invariant, and that all nodes know the same gurus.                 *)
(***************************************************************************)
EXTENDS Cluster, FiniteSetTheorems, SequenceTheorems, TLAPS

Accumulators == {ba \in Seq([age : Nat, sum : Nat]) : Len(ba) <= Slots}

\* No two aides are the same.
AidesInv ==
    /\ aides \in Seq([id : 1..MaxNodes, name : Nat]) /\ Len(aides) \in 1..MaxNodes
    /\ \A i, j \in 1..Len(aides) : aides[i].id = aides[j].id => i = j

\* The gurus are numbered in their order, and so is the list.
GurusInv ==
    /\ gurus \in Seq(Nat) /\ Len(gurus) \in 1..MaxNodes
    /\ \A i \in 1..Len(gurus) : gurus[i] = i - 1
    /\ list = gurus

Running(as, gs) == {Aide(id) : id \in Ids(as)} \cup {Guru(g) : g \in Range(gs)}

ToldInv == \A n \in Running(aides, gurus) : upstream[n] = list

\* What is counted.
UsageInv ==
    /\ used \in [Nodes -> Accumulators]
    /\ account \in [Clients -> [aide : Ids(aides) \cup {NoAide}, ba : Accumulators]]
    /\ due \in [Clients \cup Topics -> [left : Nat, amount : Nat]]
    /\ at \in [Clients -> Ids(aides) \cup {NoAide}]

IInv == AidesInv /\ GurusInv /\ ToldInv /\ UsageInv
----------------------------------------------------------------------------
(* Sequences *)

\* A function on the first numbers is a sequence of that length.
LEMMA FunctionIsSeq ==
    ASSUME NEW S, NEW n \in Nat, NEW s \in [1..n -> S]
    PROVE  s \in Seq(S) /\ Len(s) = n
<1>1. s \in Seq(S)
  BY SeqDef
<1>2. Len(s) \in Nat /\ 1..Len(s) = 1..n
  BY <1>1, LenProperties
<1> QED
  BY <1>1, <1>2

\* What dropping the last element does, element by element.
LEMMA FrontElements ==
    ASSUME NEW S, NEW s \in Seq(S), s # <<>>
    PROVE  /\ Front(s) \in Seq(S)
           /\ Len(Front(s)) = Len(s) - 1 /\ Len(s) \in Nat \ {0}
           /\ \A i \in 1..(Len(s) - 1) : Front(s)[i] = s[i]
<1>1. Len(s) \in Nat \ {0}
  BY EmptySeq, LenProperties
<1>2. \A i \in 1..(Len(s) - 1) : s[i] \in S
  BY <1>1, ElementOfSeq
<1> DEFINE n == Len(s) - 1
<1>3. /\ Front(s) \in Seq(S)
      /\ Len(Front(s)) = IF 1 <= n THEN n - 1 + 1 ELSE 0
      /\ \A i \in 1..(n - 1 + 1) : Front(s)[i] = s[1 + i - 1]
  BY <1>1, <1>2, SubSeqProperties DEF Front
<1>4. \A i \in 1..n : Front(s)[i] = s[i]
  <2> SUFFICES ASSUME NEW i \in 1..n PROVE Front(s)[i] = s[i]
    OBVIOUS
  <2>1. 1 + i - 1 = i /\ i \in 1..(n - 1 + 1)
    BY <1>1
  <2>2. Front(s)[i] = s[1 + i - 1]
    BY <1>3, <2>1
  <2> HIDE DEF n
  <2> QED
    BY <2>1, <2>2
<1>5. Len(Front(s)) = n
  <2>1. n \in Nat /\ n - 1 + 1 = n
    BY <1>1
  <2>2. ~(1 <= n) => n = 0
    BY <2>1
  <2> HIDE DEF n
  <2> QED
    BY <1>3, <2>1, <2>2
<1> QED
  BY <1>1, <1>3, <1>4, <1>5

LEMMA FirstNumbers ==
    ASSUME NEW n \in Nat
    PROVE  IsFiniteSet(1..n) /\ Cardinality(1..n) = n
BY FS_Interval

\* A sequence without repetition has as many elements as it is long.
LEMMA DistinctIds ==
    ASSUME NEW as \in Seq([id : 1..MaxNodes, name : Nat]),
           \A i, j \in 1..Len(as) : as[i].id = as[j].id => i = j
    PROVE  IsFiniteSet(Ids(as)) /\ Cardinality(Ids(as)) = Len(as)
<1> DEFINE D == 1..Len(as)
           f == [i \in D |-> as[i].id]
<1>1. Len(as) \in Nat /\ DOMAIN as = D
  BY LenProperties
<1>2. IsFiniteSet(D) /\ Cardinality(D) = Len(as)
  BY <1>1, FirstNumbers
<1>3. f \in Bijection(D, Ids(as))
  <2>1. f \in [D -> Ids(as)] /\ \A t \in Ids(as) : \E i \in D : f[i] = t
    <3>1. Ids(as) = {as[i].id : i \in D}
      BY <1>1 DEF Ids
    <3>2. f \in [D -> {as[i].id : i \in D}]
      OBVIOUS
    <3>3. \A t \in {as[i].id : i \in D} : \E i \in D : f[i] = t
      OBVIOUS
    <3> HIDE DEF D, f
    <3> QED
      BY <3>1, <3>2, <3>3
  <2>2. \A i, j \in D : f[i] = f[j] => i = j
    OBVIOUS
  <2> HIDE DEF f, D
  <2> QED
    BY <2>1, <2>2 DEF Bijection, Injection, Surjection, IsInjective
<1> QED
  BY <1>2, <1>3, FS_Bijection DEF ExistsBijection
----------------------------------------------------------------------------
(* Accumulators *)

LEMMA UnusedAccumulator == Unused \in Accumulators
BY BillingAssumption, EmptySeq DEF Unused, Accumulators

\* An accumulator never has more buckets than there are: the oldest one is
\* used again (billing.go).
LEMMA UsageAdded ==
    ASSUME NEW ba \in Accumulators, NEW amount \in Nat, NEW deltat \in Nat
    PROVE  AddUsage(ba, amount, deltat) \in Accumulators
<1> USE BillingAssumption
<1> DEFINE E == [age : Nat, sum : Nat]
           new == IF ba = Unused THEN <<[age |-> deltat, sum |-> amount]>> ELSE [ba EXCEPT ![1].sum = @ + amount]
<1>1. new \in Accumulators /\ new # <<>>
  <2>1. CASE ba = Unused
    BY <2>1 DEF Accumulators
  <2>2. CASE ba # Unused
    <3>1. Len(ba) \in Nat \ {0} /\ ba \in [1..Len(ba) -> E]
      BY <2>2, EmptySeq, LenProperties DEF Accumulators, Unused
    <3>2. ba[1] \in E
      BY <3>1
    <3>3. [ba[1] EXCEPT !.sum = @ + amount] \in E
      BY <3>2
    <3>4. [ba EXCEPT ![1].sum = @ + amount] \in [1..Len(ba) -> E]
      BY <3>1, <3>3
    <3>5. [ba EXCEPT ![1].sum = @ + amount] \in Seq(E) /\ Len([ba EXCEPT ![1].sum = @ + amount]) = Len(ba)
      BY <3>1, <3>4, FunctionIsSeq
    <3> QED
      BY <2>2, <3>1, <3>5, EmptySeq DEF Accumulators
  <2> QED
    BY <2>1, <2>2
<1>2. ASSUME NEW b \in Accumulators, b # <<>> PROVE RollForward(b) \in Accumulators
  <2>1. Len(b) \in Nat \ {0} /\ b \in Seq(E) /\ b[1] \in E
    <3>1. b \in Seq(E) /\ Len(b) \in Nat \ {0}
      BY <1>2, EmptySeq DEF Accumulators
    <3> HIDE DEF E
    <3> QED
      BY <3>1, ElementOfSeq
  <2>2. Kept(b) \in Seq(E) /\ Len(Kept(b)) <= Slots - 1
    BY <1>2, <2>1, FrontElements DEF Kept, Accumulators
  <2>3. CASE b[1].age > Span
    <3> DEFINE first == <<[age |-> b[1].age - Span, sum |-> 0]>>
    <3>1. first \in Seq(E) /\ Len(first) = 1
      BY <2>1, <2>3
    <3>2. Len(Kept(b)) \in Nat
      BY <2>2, LenProperties
    <3>3. (first \o Kept(b)) \in Seq(E) /\ Len(first \o Kept(b)) = 1 + Len(Kept(b))
      BY <2>2, <3>1, ConcatProperties
    <3> HIDE DEF first
    <3>4. first \o Kept(b) \in Accumulators
      BY <2>2, <3>2, <3>3 DEF Accumulators
    <3> QED
      BY <2>1, <2>3, <3>4 DEF RollForward, first
  <2> QED
    BY <1>2, <2>1, <2>3 DEF RollForward
<1> HIDE DEF new
<1> QED
  BY <1>1, <1>2 DEF AddUsage, new

LEMMA TimePasses ==
    ASSUME NEW ba \in Accumulators, NEW seconds \in Nat, NEW cap
    PROVE  Older(ba, seconds, cap) \in Accumulators
<1> DEFINE E == [age : Nat, sum : Nat]
           f == [i \in DOMAIN ba |-> [ba[i] EXCEPT !.age = IF @ < cap THEN @ + seconds ELSE @]]
<1>1. Len(ba) \in Nat /\ ba \in [1..Len(ba) -> E]
  BY LenProperties DEF Accumulators
<1>2. f \in [1..Len(ba) -> E]
  BY <1>1
<1> HIDE DEF f, E
<1>3. f \in Seq(E) /\ Len(f) = Len(ba)
  BY <1>1, <1>2, FunctionIsSeq
<1> QED
  BY <1>3 DEF Accumulators, Older, f, E
----------------------------------------------------------------------------
(* Growing and shrinking *)

\* A new aide is none of those there are: while there is room for one more
\* there is a name left.
LEMMA Grown ==
    ASSUME AidesInv, Len(aides) < MaxNodes
    PROVE  /\ GrownAides \in Seq([id : 1..MaxNodes, name : Nat])
           /\ Len(GrownAides) = Len(aides) + 1
           /\ \A i, j \in 1..Len(GrownAides) : GrownAides[i].id = GrownAides[j].id => i = j
<1> DEFINE A == [id : 1..MaxNodes, name : Nat]
           x == CHOOSE y \in 1..MaxNodes : y \notin Ids(aides)
           new == [id |-> x, name |-> Len(aides)]
<1>1. aides \in Seq(A) /\ Len(aides) \in Nat /\ DOMAIN aides = 1..Len(aides)
  BY LenProperties DEF AidesInv
<1>2. IsFiniteSet(Ids(aides)) /\ Cardinality(Ids(aides)) = Len(aides)
  BY DistinctIds DEF AidesInv
<1>3. \E y \in 1..MaxNodes : y \notin Ids(aides)
  <2>1. MaxNodes \in Nat /\ Cardinality(1..MaxNodes) = MaxNodes
    BY ClusterAssumption, FirstNumbers
  <2>2. 1..MaxNodes \subseteq Ids(aides) => MaxNodes <= Len(aides)
    BY <1>2, <2>1, FS_Subset
  <2> QED
    BY <1>1, <2>1, <2>2
<1>4. x \in 1..MaxNodes /\ x \notin Ids(aides)
  BY <1>3
<1>5. \A i \in 1..Len(aides) : aides[i].id # x
  BY <1>1, <1>4 DEF Ids
<1> HIDE DEF x
<1>6. new \in A
  BY <1>1, <1>4
<1>7. GrownAides = Append(aides, new)
  BY DEF GrownAides, x
<1>8. /\ Append(aides, new) \in Seq(A) /\ Len(Append(aides, new)) = Len(aides) + 1
      /\ \A i \in 1..Len(aides) : Append(aides, new)[i] = aides[i]
      /\ Append(aides, new)[Len(aides) + 1] = new
  BY <1>1, <1>6, AppendProperties
<1>9. new.id = x
  OBVIOUS
<1> HIDE DEF A, new
<1>10. ASSUME NEW i \in 1..(Len(aides) + 1), NEW j \in 1..(Len(aides) + 1),
              Append(aides, new)[i].id = Append(aides, new)[j].id
       PROVE  i = j
  <2>1. CASE i \in 1..Len(aides) /\ j \in 1..Len(aides)
    BY <1>8, <1>10, <2>1 DEF AidesInv
  <2>2. CASE i = Len(aides) + 1 /\ j \in 1..Len(aides)
    BY <1>5, <1>8, <1>9, <1>10, <2>2
  <2>3. CASE i \in 1..Len(aides) /\ j = Len(aides) + 1
    BY <1>5, <1>8, <1>9, <1>10, <2>3
  <2> QED
    BY <1>1, <2>1, <2>2, <2>3
<1> QED
  BY <1>7, <1>8, <1>10 DEF A

\* Whichever aide is removed, the last one takes its place and no other is
\* there twice.
LEMMA Shrunk ==
    ASSUME AidesInv, Len(aides) > 1
    PROVE  /\ ShrunkAides \in Seq([id : 1..MaxNodes, name : Nat])
           /\ Len(ShrunkAides) = Len(aides) - 1
           /\ \A i, j \in 1..Len(ShrunkAides) : ShrunkAides[i].id = ShrunkAides[j].id => i = j
<1> DEFINE A == [id : 1..MaxNodes, name : Nat]
           N == Len(aides)
           swapped == [aides EXCEPT ![RemoveAide] = Last(aides)]
<1>1. aides \in Seq(A) /\ N \in Nat /\ N > 1 /\ aides \in [1..N -> A] /\ DOMAIN aides = 1..N
  BY LenProperties DEF AidesInv
<1>2. Last(aides) = aides[N] /\ aides[N] \in A
  BY <1>1 DEF Last
<1>3. swapped \in [1..N -> A]
  BY <1>1, <1>2
<1>4. \A i \in 1..N : swapped[i] = IF i = RemoveAide THEN aides[N] ELSE aides[i]
  BY <1>1, <1>2
<1> HIDE DEF A, swapped
<1>5. swapped \in Seq(A) /\ Len(swapped) = N
  BY <1>1, <1>3, FunctionIsSeq
<1>6. swapped # <<>>
  BY <1>1, <1>5, EmptySeq
<1>7. Front(swapped) \in Seq(A) /\ Len(Front(swapped)) = N - 1
      /\ \A i \in 1..(N - 1) : Front(swapped)[i] = swapped[i]
  BY <1>5, <1>6, FrontElements
<1>8. ASSUME NEW i \in 1..(N - 1), NEW j \in 1..(N - 1), Front(swapped)[i].id = Front(swapped)[j].id
      PROVE  i = j
  <2>1. swapped[i].id = swapped[j].id
    BY <1>7, <1>8
  <2>2. /\ i \in 1..N /\ j \in 1..N /\ N \in 1..N /\ i # N /\ j # N
    <3>1. N \in Nat /\ N > 1
      BY <1>1
    <3> HIDE DEF N
    <3> QED
      BY <3>1
  <2>3. \A k, l \in 1..N : aides[k].id = aides[l].id => k = l
    BY DEF AidesInv
  <2>4. /\ swapped[i] = IF i = RemoveAide THEN aides[N] ELSE aides[i]
        /\ swapped[j] = IF j = RemoveAide THEN aides[N] ELSE aides[j]
    BY <1>4, <2>2
  <2>5. CASE i = RemoveAide
    <3>1. aides[N].id = aides[j].id \/ i = j
      BY <2>1, <2>4, <2>5
    <3> HIDE DEF N
    <3> QED
      BY <2>2, <2>3, <3>1
  <2>6. CASE i # RemoveAide
    <3>1. aides[i].id = aides[N].id \/ aides[i].id = aides[j].id
      BY <2>1, <2>4, <2>6
    <3> HIDE DEF N
    <3> QED
      BY <2>2, <2>3, <3>1
  <2> QED
    BY <2>5, <2>6
<1> QED
  BY <1>7, <1>8 DEF ShrunkAides, swapped, A

\* However many aides are wanted.
LEMMA AidesNextInv ==
    ASSUME AidesInv, NEW b
    PROVE  /\ AidesNext(b) \in Seq([id : 1..MaxNodes, name : Nat])
           /\ Len(AidesNext(b)) \in 1..MaxNodes
           /\ \A i, j \in 1..Len(AidesNext(b)) : AidesNext(b)[i].id = AidesNext(b)[j].id => i = j
<1> DEFINE grows == Grows(AideTotal, Len(aides), AideLimit, b)
           shrinks == Shrinks(AideTotal, Len(aides), AideLimit, b)
<1>1. MaxNodes \in Nat /\ Len(aides) \in 1..MaxNodes
  BY ClusterAssumption DEF AidesInv
<1>2. CASE grows /\ Len(aides) < MaxNodes
  <2>1. AidesNext(b) = GrownAides
    BY <1>2 DEF AidesNext
  <2> QED
    BY <1>1, <1>2, <2>1, Grown
<1>3. CASE ~grows /\ shrinks
  <2>1. AidesNext(b) = ShrunkAides
    BY <1>3 DEF AidesNext
  <2>2. Len(aides) > 1
    BY <1>3 DEF Shrinks
  <2> QED
    BY <1>1, <2>1, <2>2, Shrunk
<1>4. CASE ~(grows /\ Len(aides) < MaxNodes) /\ ~(~grows /\ shrinks)
  <2>1. AidesNext(b) = aides
    BY <1>4 DEF AidesNext
  <2> QED
    BY <2>1 DEF AidesInv
<1> QED
  BY <1>2, <1>3, <1>4

\* A guru comes at the end, and the list follows.
LEMMA GurusNextInv ==
    ASSUME GurusInv, NEW b, Len(GurusNext(b)) >= Len(gurus)
    PROVE  /\ GurusNext(b) \in Seq(Nat) /\ Len(GurusNext(b)) \in 1..MaxNodes
           /\ \A i \in 1..Len(GurusNext(b)) : GurusNext(b)[i] = i - 1
           /\ ListNext(GurusNext(b)) = GurusNext(b)
<1> DEFINE grows == Grows(GuruTotal, Len(gurus), GuruLimit, b)
           shrinks == Shrinks(GuruTotal, Len(gurus), GuruLimit, b)
           N == Len(gurus)
<1>1. MaxNodes \in Nat /\ N \in 1..MaxNodes /\ N \in Nat /\ gurus \in Seq(Nat) /\ list = gurus
  BY ClusterAssumption DEF GurusInv
<1>2. CASE grows /\ N < MaxNodes
  <2>1. GurusNext(b) = Append(gurus, N)
    BY <1>2 DEF GurusNext
  <2>2. /\ Append(gurus, N) \in Seq(Nat) /\ Len(Append(gurus, N)) = N + 1
        /\ \A i \in 1..N : Append(gurus, N)[i] = gurus[i]
        /\ Append(gurus, N)[N + 1] = N
    BY <1>1, AppendProperties
  <2>3. ListNext(GurusNext(b)) = Append(gurus, N)
    BY <1>1, <2>1, <2>2 DEF ListNext
  <2>4. \A i \in 1..(N + 1) : Append(gurus, N)[i] = i - 1
    BY <1>1, <2>2 DEF GurusInv
  <2> QED
    BY <1>1, <1>2, <2>1, <2>2, <2>3, <2>4
<1>3. CASE ~grows /\ shrinks
  <2>1. GurusNext(b) = Front(gurus)
    BY <1>3 DEF GurusNext
  <2>2. N > 1
    BY <1>3 DEF Shrinks
  <2>3. gurus # <<>>
    BY <1>1, <2>2, EmptySeq
  <2>4. Len(Front(gurus)) = N - 1
    BY <1>1, <2>3, FrontElements
  <2>5. N - 1 >= N
    BY <2>1, <2>4
  <2> QED
    BY <1>1, <2>5
<1>4. CASE ~(grows /\ N < MaxNodes) /\ ~(~grows /\ shrinks)
  <2>1. GurusNext(b) = gurus
    BY <1>4 DEF GurusNext
  <2>2. ListNext(gurus) = gurus
    BY <1>1 DEF ListNext
  <2> QED
    BY <2>1, <2>2 DEF GurusInv
<1> QED
  BY <1>2, <1>3, <1>4

\* Whoever runs has a number.
LEMMA RunningNodes ==
    ASSUME NEW as \in Seq([id : 1..MaxNodes, name : Nat]), NEW gs \in Seq(Nat), Len(gs) \in 1..MaxNodes,
           \A i \in 1..Len(gs) : gs[i] = i - 1
    PROVE  Ids(as) \subseteq 1..MaxNodes /\ Running(as, gs) \subseteq Nodes
<1>1. MaxNodes \in Nat /\ DOMAIN as = 1..Len(as) /\ DOMAIN gs = 1..Len(gs) /\ Len(gs) \in Nat
  BY ClusterAssumption, LenProperties
<1>2. Ids(as) \subseteq 1..MaxNodes
  <2>1. \A i \in 1..Len(as) : as[i] \in [id : 1..MaxNodes, name : Nat]
    BY ElementOfSeq
  <2>2. \A i \in DOMAIN as : as[i].id \in 1..MaxNodes
    BY <1>1, <2>1
  <2> QED
    BY <2>2 DEF Ids
<1>3. Range(gs) \subseteq 0..(MaxNodes - 1)
  BY <1>1 DEF Range
<1> QED
  BY <1>2, <1>3 DEF Running, Nodes
----------------------------------------------------------------------------
(* The inductive invariant *)

\* The simplest cluster.
LEMMA InitIInv == Init => IInv
<1> SUFFICES ASSUME Init PROVE IInv
  OBVIOUS
<1> DEFINE A == [id : 1..MaxNodes, name : Nat]
<1>1. Aides \in 1..MaxNodes /\ MaxNodes \in Nat
  BY ClusterAssumption
<1>2. aides = [i \in 1..Aides |-> [id |-> i, name |-> i - 1]]
  BY DEF Init
<1>3. aides \in [1..Aides -> A] /\ \A i \in 1..Aides : aides[i].id = i
  BY <1>1, <1>2
<1>4. aides \in Seq(A) /\ Len(aides) = Aides
  <2> HIDE DEF A
  <2> QED
    BY <1>1, <1>3, FunctionIsSeq
<1>5. AidesInv
  BY <1>1, <1>3, <1>4 DEF AidesInv
<1>6. GurusInv
  BY <1>1 DEF Init, GurusInv
<1>7. DOMAIN aides = 1..Aides /\ Ids(aides) = 1..Aides /\ Range(gurus) = {0}
  <2>1. DOMAIN aides = 1..Aides
    BY <1>2
  <2>2. Ids(aides) = 1..Aides
    BY <1>3, <2>1 DEF Ids
  <2>3. gurus = <<0>>
    BY DEF Init
  <2>4. Range(gurus) = {0}
    BY <2>3 DEF Range
  <2> QED
    BY <2>1, <2>2, <2>4
<1>8. ToldInv
  <2>1. Running(aides, gurus) \subseteq Nodes
    BY <1>5, <1>6, RunningNodes DEF AidesInv, GurusInv
  <2> QED
    BY <1>7, <2>1 DEF Init, ToldInv, Running
<1>9. UsageInv
  <2>1. used \in [Nodes -> Accumulators]
    BY UnusedAccumulator DEF Init
  <2>2. at \in [Clients -> Ids(aides) \cup {NoAide}]
    BY <1>7 DEF Init
  <2>3. account \in [Clients -> [aide : Ids(aides) \cup {NoAide}, ba : Accumulators]]
    BY <2>2, UnusedAccumulator DEF Init
  <2>4. FirstBill \div Beat \in Nat /\ FirstBill \in Nat
    BY ClusterAssumption
  <2>5. due \in [Clients \cup Topics -> [left : Nat, amount : Nat]]
    <3>1. PICK first \in [Clients \cup Topics -> {0, NextBill.left}] :
             due = [p \in Clients \cup Topics |-> [NextBill EXCEPT !.left = first[p]]]
      BY DEF Init
    <3>2. \A p \in Clients \cup Topics : first[p] \in Nat
      BY <2>4, <3>1 DEF NextBill
    <3>3. \A p \in Clients \cup Topics : [NextBill EXCEPT !.left = first[p]] \in [left : Nat, amount : Nat]
      BY <2>4, <3>2 DEF NextBill
    <3> QED
      BY <3>1, <3>3
  <2> QED
    BY <2>1, <2>2, <2>3, <2>5 DEF UsageInv
<1> QED
  BY <1>5, <1>6, <1>8, <1>9 DEF IInv

\* What neither grows nor shrinks the cluster tells nobody anything.
LEMMA FrameStep ==
    ASSUME IInv, UNCHANGED <<aides, gurus, list, upstream>>
    PROVE  AidesInv' /\ GurusInv' /\ ToldInv'
BY DEF IInv, AidesInv, GurusInv, ToldInv, Running, Ids

LEMMA ReportTypes == NextReport \in [left : Nat, amount : Nat] /\ NextBill \in [left : Nat, amount : Nat]
                     /\ ContactDeltat \in Nat
BY ClusterAssumption DEF NextReport, NextBill, ContactDeltat

\* Growing and shrinking, and what is told.
LEMMA OperateStep ==
    ASSUME IInv, NEW a, NEW g, Operate(a, g)
    PROVE  IInv'
<1> DEFINE as == AidesNext(a)
           gs == GurusNext(g)
           gone == Ids(aides) \ Ids(as)
<1> USE DEF IInv
<1>0. Len(GurusNext(g)) >= Len(gurus)
  BY DEF Operate
<1>1. aides' = as /\ gurus' = gs /\ list' = gs /\ upstream' = Told(as, gs)
  BY <1>0, GurusNextInv DEF Operate
<1>2. AidesInv'
  BY <1>1, AidesNextInv DEF AidesInv
<1>3. GurusInv'
  BY <1>0, <1>1, GurusNextInv DEF GurusInv
<1>4. ToldInv'
  <2>1. Running(as, gs) \subseteq Nodes
    BY <1>1, <1>2, <1>3, RunningNodes DEF AidesInv, GurusInv
  <2>2. ListNext(gs) = gs
    BY <1>0, GurusNextInv
  <2>3. ASSUME NEW n \in Running(as, gs) PROVE Told(as, gs)[n] = gs
    <3>1. CASE gs # gurus \/ n \in {Aide(id) : id \in Ids(as) \ Ids(aides)}
      BY <2>1, <2>2, <2>3, <3>1 DEF Told, Running
    <3>2. CASE gs = gurus /\ n \notin {Aide(id) : id \in Ids(as) \ Ids(aides)}
      <4>1. n \in Running(aides, gurus)
        BY <2>3, <3>2 DEF Running
      <4>2. Told(as, gs)[n] = upstream[n]
        BY <2>1, <2>3, <3>2 DEF Told, Running
      <4> QED
        BY <3>2, <4>1, <4>2 DEF ToldInv, GurusInv
    <3> QED
      BY <3>1, <3>2
  <2> HIDE DEF as, gs
  <2> QED
    BY <1>1, <2>3 DEF ToldInv
<1>5. UsageInv'
  <2>1. used' \in [Nodes -> Accumulators]
    BY UnusedAccumulator DEF Operate, UsageInv
  <2>2. at' \in [Clients -> Ids(as) \cup {NoAide}]
    BY DEF Operate, UsageInv
  <2>3. account' \in [Clients -> [aide : Ids(as) \cup {NoAide}, ba : Accumulators]]
    <3>1. account' = [c \in Clients |-> IF account[c].aide \in gone THEN NoAccount ELSE account[c]]
      BY DEF Operate
    <3>2. \A c \in Clients : account[c] \in [aide : Ids(aides) \cup {NoAide}, ba : Accumulators]
      BY DEF UsageInv
    <3>3. NoAccount \in [aide : Ids(as) \cup {NoAide}, ba : Accumulators]
      BY UnusedAccumulator DEF NoAccount
    <3>4. \A c \in Clients : account[c].aide \notin gone =>
             account[c] \in [aide : Ids(as) \cup {NoAide}, ba : Accumulators]
      BY <3>2
    <3> QED
      BY <3>1, <3>3, <3>4
  <2>4. due' \in [Clients \cup Topics -> [left : Nat, amount : Nat]]
    BY ReportTypes DEF Operate, UsageInv
  <2> HIDE DEF as, gs
  <2> QED
    BY <1>1, <2>1, <2>2, <2>3, <2>4 DEF UsageInv
<1> QED
  BY <1>2, <1>3, <1>4, <1>5

\* A step of the cluster keeps the invariant.
LEMMA NextIInv == IInv /\ [Next]_vars => IInv'
<1> SUFFICES ASSUME IInv, [Next]_vars PROVE IInv'
  OBVIOUS
<1> DEFINE Due == [left : Nat, amount : Nat]
<1>1. ASSUME UNCHANGED <<aides, gurus, list, upstream>>, UsageInv' PROVE IInv'
  BY <1>1, FrameStep DEF IInv
<1>2. CASE Heartbeat
  <2>1. Beat \in Nat
    BY ClusterAssumption
  <2>2. used' \in [Nodes -> Accumulators]
    BY <1>2, <2>1, TimePasses DEF Heartbeat, IInv, UsageInv
  <2>3. account' \in [Clients -> [aide : Ids(aides) \cup {NoAide}, ba : Accumulators]]
    BY <1>2, <2>1, TimePasses DEF Heartbeat, IInv, UsageInv
  <2>4. due' \in [Clients \cup Topics -> Due]
    <3>1. due' = [p \in Clients \cup Topics |-> IF due[p].left = 0 THEN due[p] ELSE [due[p] EXCEPT !.left = @ - 1]]
      BY <1>2 DEF Heartbeat
    <3>2. \A p \in Clients \cup Topics : due[p] \in Due
      BY DEF IInv, UsageInv
    <3>3. \A d \in Due : d.left # 0 => [d EXCEPT !.left = @ - 1] \in Due
      OBVIOUS
    <3> HIDE DEF Due
    <3>4. \A p \in Clients \cup Topics : (IF due[p].left = 0 THEN due[p] ELSE [due[p] EXCEPT !.left = @ - 1]) \in Due
      BY <3>2, <3>3
    <3> QED
      BY <3>1, <3>4
  <2>5. UNCHANGED <<aides, gurus, list, upstream, at>>
    BY <1>2 DEF Heartbeat
  <2> QED
    BY <1>1, <2>2, <2>3, <2>4, <2>5 DEF IInv, UsageInv, Ids
<1>3. ASSUME NEW c \in Clients, ContactReports(c) PROVE IInv'
  <2>1. due[c].amount \in Nat
    BY DEF IInv, UsageInv
  <2>2. \A ba \in Accumulators : AddUsage(ba, due[c].amount, ContactDeltat) \in Accumulators
    BY <2>1, ReportTypes, UsageAdded
  <2>3. used' \in [Nodes -> Accumulators]
    BY <1>3, <2>2 DEF ContactReports, IInv, UsageInv
  <2>4. account' \in [Clients -> [aide : Ids(aides) \cup {NoAide}, ba : Accumulators]]
    <3>1. \/ account' = account
          \/ account' = [account EXCEPT ![c].ba = AddUsage(@, due[c].amount, ContactDeltat)]
      BY <1>3 DEF ContactReports
    <3>2. account[c].ba \in Accumulators /\ account \in [Clients -> [aide : Ids(aides) \cup {NoAide}, ba : Accumulators]]
      BY DEF IInv, UsageInv
    <3>3. AddUsage(account[c].ba, due[c].amount, ContactDeltat) \in Accumulators
      BY <2>2, <3>2
    <3> QED
      BY <3>1, <3>2, <3>3
  <2>5. due' \in [Clients \cup Topics -> Due]
    BY <1>3, ReportTypes DEF ContactReports, IInv, UsageInv
  <2>6. UNCHANGED <<aides, gurus, list, upstream, at>>
    BY <1>3 DEF ContactReports
  <2> QED
    BY <1>1, <2>3, <2>4, <2>5, <2>6 DEF IInv, UsageInv, Ids
<1>4. ASSUME NEW t \in Topics, TopicReports(t) PROVE IInv'
  <2>1. due[t].amount \in Nat
    BY DEF IInv, UsageInv
  <2>2. \A ba \in Accumulators : AddUsage(ba, due[t].amount, due[t].amount) \in Accumulators
    BY <2>1, UsageAdded
  <2>3. used' \in [Nodes -> Accumulators]
    BY <1>4, <2>2 DEF TopicReports, IInv, UsageInv
  <2>4. due' \in [Clients \cup Topics -> Due]
    BY <1>4, ReportTypes DEF TopicReports, IInv, UsageInv
  <2>5. UNCHANGED <<aides, gurus, list, upstream, at, account>>
    BY <1>4 DEF TopicReports
  <2> QED
    BY <1>1, <2>3, <2>4, <2>5 DEF IInv, UsageInv, Ids
<1>5. ASSUME NEW c \in Clients, Check(c) PROVE IInv'
  <2>1. at' \in [Clients -> Ids(aides) \cup {NoAide}]
    BY <1>5 DEF Check, IInv, UsageInv
  <2>2. UNCHANGED <<aides, gurus, list, upstream, used, account, due>>
    BY <1>5 DEF Check
  <2> QED
    BY <1>1, <2>1, <2>2 DEF IInv, UsageInv, Ids
<1>6. ASSUME NEW c \in Clients, Reconnect(c) PROVE IInv'
  <2>1. PICK id \in Ids(aides) :
           at' = [at EXCEPT ![c] = id] /\ account' = [account EXCEPT ![c] = AccountAt(c, id)]
    BY <1>6 DEF Reconnect
  <2>2. AccountAt(c, id) \in [aide : Ids(aides) \cup {NoAide}, ba : Accumulators]
    BY UnusedAccumulator DEF AccountAt, IInv, UsageInv
  <2>3. at' \in [Clients -> Ids(aides) \cup {NoAide}]
    BY <2>1 DEF IInv, UsageInv
  <2>4. account' \in [Clients -> [aide : Ids(aides) \cup {NoAide}, ba : Accumulators]]
    BY <2>1, <2>2 DEF IInv, UsageInv
  <2>5. due' \in [Clients \cup Topics -> Due]
    BY <1>6, ReportTypes DEF Reconnect, IInv, UsageInv
  <2>6. UNCHANGED <<aides, gurus, list, upstream, used>>
    BY <1>6 DEF Reconnect
  <2> QED
    BY <1>1, <2>3, <2>4, <2>5, <2>6 DEF IInv, UsageInv, Ids
<1>7. CASE \E a, g \in Buffers : Operate(a, g)
  BY <1>7, OperateStep
<1>8. ASSUME NEW g \in Buffers, OperatePanics(g) PROVE IInv'
  <2>1. UNCHANGED <<aides, gurus, list, upstream, used, at, account, due>>
    BY <1>8 DEF OperatePanics
  <2> QED
    BY <1>1, <2>1 DEF IInv, UsageInv, Ids
<1>9. CASE UNCHANGED vars
  <2>1. UNCHANGED <<aides, gurus, list, upstream, used, at, account, due>>
    BY <1>9 DEF vars
  <2> QED
    BY <1>1, <2>1 DEF IInv, UsageInv, Ids
<1> QED
  BY <1>2, <1>3, <1>4, <1>5, <1>6, <1>7, <1>8, <1>9 DEF Next
----------------------------------------------------------------------------
(* The theorems *)

\* However the cluster grows, shrinks and counts, all four parts hold: executive.go
\* tells everybody whenever the list changes, and billing.go reuses its buckets.
THEOREM ClusterInvariant == Spec => []IInv
BY InitIInv, NextIInv, PTL DEF Spec

\* The cluster stays within its nodes and has none twice, clients and their
\* accounts are on aides that are there, and an accumulator never has more
\* buckets than its array (executive.go, billing.go).
THEOREM ClusterTypeOK == Spec => []TypeOK
<1>1. IInv => TypeOK
  <2> SUFFICES ASSUME IInv PROVE TypeOK
    OBVIOUS
  <2>1. Cardinality(Ids(aides)) = Len(aides)
    BY DistinctIds DEF IInv, AidesInv
  <2>2. \A c \in Clients : at[c] \in Ids(aides) \cup {NoAide} /\ account[c].aide \in Ids(aides) \cup {NoAide}
    BY DEF IInv, UsageInv
  <2>3. \A n \in Nodes : Len(used[n]) <= Slots
    BY DEF IInv, UsageInv, Accumulators
  <2> QED
    BY <2>1, <2>2, <2>3 DEF IInv, AidesInv, GurusInv, TypeOK
<1> QED
  BY <1>1, ClusterInvariant, PTL

\* However the cluster grew and its aides came and went, every aide and every
\* guru was told the same gurus in the same order, which are those there are
\* (executive.go); a guru less is the end of the process.
THEOREM ClusterGurusAgree == Spec => []GurusAgree
<1>1. IInv => GurusAgree
  <2> SUFFICES ASSUME IInv PROVE GurusAgree
    OBVIOUS
  <2>1. \A i, j \in DOMAIN gurus : gurus[i] = gurus[j] => i = j
    <3>1. DOMAIN gurus = 1..Len(gurus) /\ Len(gurus) \in Nat
      BY LenProperties DEF IInv, GurusInv
    <3> QED
      BY <3>1 DEF IInv, GurusInv
  <2> QED
    BY <2>1 DEF IInv, GurusInv, ToldInv, Running, GurusAgree
<1> QED
  BY <1>1, ClusterInvariant, PTL
=============================================================================

-------------------------- MODULE FrontEndsProofs --------------------------
(***************************************************************************)
(* Proofs about FrontEnds and the writers of Packets, for any writers,     *)
(* scripts, messages and bases of the variable length integers: frames,    *)
(* subscriptions, types, and what is read of a packet that was written.    *)
(*                                                                         *)
(* What recursive functions and folds compute is proved from the lemmas    *)
(* at the start, which are induction without a predicate as a parameter.   *)
(***************************************************************************)
EXTENDS FrontEnds, SequenceTheorems, FiniteSetTheorems, TLAPS

----------------------------------------------------------------------------
(* Induction *)

\* A set of numbers with 0, and with the next one of each, has them all: among
\* the intervals up to those it does not have, one would have no other inside.
LEMMA Induction ==
    ASSUME NEW T, 0 \in T, \A n \in Nat : n \in T => n + 1 \in T
    PROVE  Nat \subseteq T
<1> SUFFICES ASSUME Nat \ T # {} PROVE FALSE
  OBVIOUS
<1> DEFINE Up == {1..n : n \in Nat \ T}
<1>1. Up \subseteq FiniteSubsetsOf(Nat) /\ Up # {}
  <2>1. \A n \in Nat : IsFiniteSet(1..n) /\ 1..n \subseteq Nat
    BY FS_Interval
  <2> QED
    BY <2>1 DEF FiniteSubsetsOf
<1>2. PICK s \in Up : \A r \in Up : ~(<<r, s>> \in StrictSubsetOrdering(Nat))
  <2> HIDE DEF Up
  <2> QED
    BY <1>1, WFMin, FS_StrictSubsetOrderingWellFounded
<1>3. PICK x \in Nat \ T : s = 1..x
  OBVIOUS
<1>4. x # 0 /\ x - 1 \in Nat /\ x - 1 + 1 = x
  BY <1>3
<1>5. x - 1 \in Nat \ T
  BY <1>3, <1>4
<1>6. 1..(x - 1) \in Up /\ 1..(x - 1) \subseteq 1..x /\ 1..(x - 1) # 1..x /\ 1..x \subseteq Nat
  <2>1. x \in 1..x /\ x \notin 1..(x - 1) /\ 1..(x - 1) \subseteq 1..x
    BY <1>4
  <2> QED
    BY <1>5, <2>1
<1> QED
  BY <1>2, <1>3, <1>6 DEF StrictSubsetOrdering

\* The same up to some number.
LEMMA InductionTo ==
    ASSUME NEW n \in Nat, NEW T, 0 \in T, \A k \in 0..(n - 1) : k \in T => k + 1 \in T
    PROVE  0..n \subseteq T
<1> DEFINE U == {k \in Nat : k <= n => k \in T}
<1>1. 0 \in U
  OBVIOUS
<1>2. ASSUME NEW k \in Nat, k \in U PROVE k + 1 \in U
  <2> SUFFICES ASSUME k + 1 <= n PROVE k + 1 \in T
    OBVIOUS
  <2>1. k \in 0..(n - 1) /\ k \in T
    BY <1>2
  <2> QED
    BY <2>1
<1>3. Nat \subseteq U
  <2> HIDE DEF U
  <2> QED
    BY <1>1, <1>2, Induction
<1> QED
  BY <1>3

\* What is defined step by step, each value from the one before, exists.
StepTo(V, n) == [V \X (0..(n - 1)) -> V]
Follows(f, n, base, step) == f[0] = base /\ \A k \in 0..(n - 1) : f[k + 1] = step[<<f[k], k>>]

LEMMA Recursion ==
    ASSUME NEW V, NEW n \in Nat, NEW base \in V, NEW step \in StepTo(V, n)
    PROVE  \E f \in [0..n -> V] : Follows(f, n, base, step)
<1> USE DEF StepTo, Follows
<1> DEFINE Good(f, m) == f[0] = base /\ \A k \in 0..(m - 1) : f[k + 1] = step[<<f[k], k>>]
           T == {m \in Nat : m <= n => \E f \in [0..m -> V] : Good(f, m)}
<1>1. 0 \in T
  <2>1. [k \in 0..0 |-> base] \in [0..0 -> V] /\ Good([k \in 0..0 |-> base], 0)
    OBVIOUS
  <2> QED
    BY <2>1
<1>2. ASSUME NEW m \in Nat, m \in T PROVE m + 1 \in T
  <2> SUFFICES ASSUME m + 1 <= n PROVE \E f \in [0..(m + 1) -> V] : Good(f, m + 1)
    OBVIOUS
  <2>1. PICK g \in [0..m -> V] : Good(g, m)
    BY <1>2
  <2>2. PICK f : f = [k \in 0..(m + 1) |-> IF k = m + 1 THEN step[<<g[m], m>>] ELSE g[k]]
    OBVIOUS
  <2>3. m \in 0..m /\ m \in 0..(n - 1) /\ g[m] \in V
    OBVIOUS
  <2>4. step[<<g[m], m>>] \in V
    BY <2>3
  <2>5. f \in [0..(m + 1) -> V]
    <3>1. \A k \in 0..(m + 1) : k # m + 1 => k \in 0..m
      OBVIOUS
    <3> QED
      BY <2>2, <2>4, <3>1
  <2>6. f[0] = base /\ f[m + 1] = step[<<g[m], m>>] /\ f[m] = g[m]
    <3>1. 0 \in 0..(m + 1) /\ m + 1 \in 0..(m + 1) /\ m \in 0..(m + 1) /\ 0 # m + 1 /\ m # m + 1
      OBVIOUS
    <3> QED
      BY <2>1, <2>2, <3>1
  <2>7. ASSUME NEW k \in 0..m PROVE f[k + 1] = step[<<f[k], k>>]
    <3>1. CASE k = m
      BY <2>6, <3>1
    <3>2. CASE k # m
      <4>1. k \in 0..(m - 1) /\ k + 1 \in 0..(m + 1) /\ k \in 0..(m + 1) /\ k + 1 # m + 1 /\ k # m + 1
        BY <3>2
      <4>2. f[k + 1] = g[k + 1] /\ f[k] = g[k]
        BY <2>2, <4>1
      <4> QED
        BY <2>1, <4>1, <4>2
    <3> QED
      BY <3>1, <3>2
  <2>8. m + 1 - 1 = m
    OBVIOUS
  <2> QED
    BY <2>5, <2>6, <2>7, <2>8
<1>3. n \in T
  <2> HIDE DEF T
  <2> QED
    BY <1>1, <1>2, Induction
<1> QED
  BY <1>3

----------------------------------------------------------------------------
(* Sequences put one after the other *)

\* How far the sequences up to each one reach.
FlatSteps(f, seqs) ==
    /\ f[0] = <<>> /\ \A k \in 0..(Len(seqs) - 1) : f[k + 1] = f[k] \o seqs[k + 1]
    /\ FlattenSeq(seqs) = f[Len(seqs)]

LEMMA FlattenSteps ==
    ASSUME NEW S, NEW seqs \in Seq(Seq(S))
    PROVE  \E f \in [0..Len(seqs) -> Seq(S)] : FlatSteps(f, seqs)
<1> DEFINE N == Len(seqs)
           step == [p \in Seq(S) \X (0..(N - 1)) |-> p[1] \o seqs[p[2] + 1]]
<1>1. N \in Nat /\ \A i \in 1..N : seqs[i] \in Seq(S)
  BY ElementOfSeq, LenProperties
<1>2. <<>> \in Seq(S)
  OBVIOUS
<1>3. step \in StepTo(Seq(S), N)
  <2>1. ASSUME NEW p \in Seq(S) \X (0..(N - 1)) PROVE p[1] \o seqs[p[2] + 1] \in Seq(S)
    <3>1. p[1] \in Seq(S) /\ seqs[p[2] + 1] \in Seq(S)
      BY <1>1
    <3> QED
      BY <3>1, ConcatProperties
  <2> QED
    BY <2>1 DEF StepTo
<1>4. PICK f \in [0..N -> Seq(S)] : Follows(f, N, <<>>, step)
  <2> HIDE DEF step, N
  <2> QED
    BY <1>1, <1>2, <1>3, Recursion
<1>5. \A k \in 0..(N - 1) : f[k + 1] = f[k] \o seqs[k + 1]
  <2> SUFFICES ASSUME NEW k \in 0..(N - 1) PROVE f[k + 1] = f[k] \o seqs[k + 1]
    OBVIOUS
  <2>1. f[k] \in Seq(S)
    <3>1. k \in 0..N
      BY <1>1
    <3> QED
      BY <3>1
  <2> QED
    BY <1>4, <2>1 DEF Follows
<1>6. CASE N = 0
  <2>1. seqs = <<>> /\ FlattenSeq(seqs) = seqs
    BY <1>6, EmptySeq DEF FlattenSeq
  <2> QED
    BY <1>4, <1>5, <1>6, <2>1 DEF FlatSteps, Follows
<1>7. CASE N # 0
  <2> DEFINE Flat(g) == [i \in 1..N |-> IF i = 1 THEN seqs[i] ELSE g[i - 1] \o seqs[i]]
             h == CHOOSE g : g = Flat(g)
  <2>1. \E g : g = Flat(g)
    <3>1. PICK g : g = [i \in 1..N |-> f[i]]
      OBVIOUS
    <3>2. ASSUME NEW i \in 1..N PROVE g[i] = IF i = 1 THEN seqs[i] ELSE g[i - 1] \o seqs[i]
      <4>1. CASE i = 1
        <5>1. g[i] = <<>> \o seqs[i] /\ seqs[i] \in Seq(S)
          <6>1. 0 \in 0..(N - 1) /\ 0 + 1 = 1 /\ g[1] = f[1]
            BY <1>1, <3>1, <4>1
          <6>2. f[0 + 1] = f[0] \o seqs[0 + 1]
            BY <1>5, <6>1
          <6> QED
            BY <1>1, <1>4, <4>1, <6>1, <6>2 DEF Follows
        <5> QED
          BY <4>1, <5>1, ConcatEmptySeq
      <4>2. CASE i # 1
        <5>1. i - 1 \in 1..N /\ i - 1 \in 0..(N - 1) /\ i - 1 + 1 = i
          BY <1>1, <4>2
        <5> QED
          BY <1>5, <3>1, <4>2, <5>1
      <4> QED
        BY <4>1, <4>2
    <3>3. g = Flat(g)
      BY <3>1, <3>2
    <3> QED
      BY <3>3
  <2>2. h = Flat(h)
    BY <2>1
  <2>3. FlattenSeq(seqs) = h[N]
    BY <1>7 DEF FlattenSeq
  <2> HIDE DEF h
  <2> DEFINE T == {k \in Nat : k \in 1..N => h[k] = f[k]}
  <2>4. 0 \in T
    OBVIOUS
  <2>5. ASSUME NEW k \in Nat, k \in T PROVE k + 1 \in T
    <3> SUFFICES ASSUME k + 1 \in 1..N PROVE h[k + 1] = f[k + 1]
      OBVIOUS
    <3>1. f[k + 1] = f[k] \o seqs[k + 1] /\ seqs[k + 1] \in Seq(S)
      <4>1. k \in 0..(N - 1)
        BY <1>1
      <4> QED
        BY <1>1, <1>5, <4>1
    <3>2. CASE k = 0
      <4>1. k + 1 = 1 /\ f[k] = <<>>
        BY <1>4, <3>2 DEF Follows
      <4>2. h[1] = seqs[1]
        BY <1>1, <1>7, <2>2
      <4> HIDE DEF T, N, step
      <4> QED
        BY <3>1, <4>1, <4>2, ConcatEmptySeq
    <3>3. CASE k # 0
      <4>1. k \in 1..N /\ k + 1 # 1 /\ k + 1 - 1 = k
        BY <1>1, <3>3
      <4>2. h[k + 1] = h[k] \o seqs[k + 1]
        <5>1. PICK j : j = k + 1
          OBVIOUS
        <5>2. j \in 1..N /\ j # 1 /\ j - 1 = k
          BY <4>1, <5>1
        <5>3. h[j] = h[j - 1] \o seqs[j]
          BY <2>2, <5>2
        <5> HIDE DEF T, N, step
        <5> QED
          BY <5>1, <5>2, <5>3
      <4>3. h[k] = f[k]
        BY <2>5, <4>1
      <4> HIDE DEF T, N, step
      <4> QED
        BY <3>1, <4>2, <4>3
    <3> QED
      BY <3>2, <3>3
  <2>6. N \in T
    <3> HIDE DEF T
    <3> QED
      BY <1>1, <2>4, <2>5, Induction
  <2>7. FlattenSeq(seqs) = f[N]
    BY <1>1, <1>7, <2>3, <2>6
  <2> QED
    BY <1>4, <1>5, <2>7 DEF FlatSteps, Follows
<1> QED
  BY <1>6, <1>7

LEMMA FlatStep ==
    ASSUME NEW seqs, NEW f, FlatSteps(f, seqs), NEW k, k \in 0..(Len(seqs) - 1)
    PROVE  f[k + 1] = f[k] \o seqs[k + 1]
BY Zenon DEF FlatSteps

LEMMA FlattenType ==
    ASSUME NEW S, NEW seqs \in Seq(Seq(S))
    PROVE  FlattenSeq(seqs) \in Seq(S)
<1>1. PICK f \in [0..Len(seqs) -> Seq(S)] : FlatSteps(f, seqs)
  BY FlattenSteps
<1>2. Len(seqs) \in 0..Len(seqs)
  BY LenProperties
<1> QED
  BY <1>1, <1>2 DEF FlatSteps

LEMMA FlattenEmpty == FlattenSeq(<<>>) = <<>>
BY DEF FlattenSeq

\* One more at the end.
LEMMA FlattenAppend ==
    ASSUME NEW S, NEW seqs \in Seq(Seq(S)), NEW s \in Seq(S)
    PROVE  FlattenSeq(Append(seqs, s)) = FlattenSeq(seqs) \o s
<1> DEFINE N == Len(seqs)
           more == Append(seqs, s)
<1>1. N \in Nat /\ more \in Seq(Seq(S)) /\ Len(more) = N + 1 /\ more[N + 1] = s
      /\ \A i \in 1..N : more[i] = seqs[i]
  BY AppendProperties, LenProperties
<1> HIDE DEF more
<1>2. PICK f \in [0..N -> Seq(S)] : FlatSteps(f, seqs)
  BY FlattenSteps
<1>3. PICK g \in [0..(N + 1) -> Seq(S)] : FlatSteps(g, more)
  BY <1>1, FlattenSteps
<1> DEFINE T == {k \in Nat : k <= N => f[k] = g[k]}
<1>4. 0 \in T
  BY <1>2, <1>3 DEF FlatSteps
<1>5. ASSUME NEW k \in Nat, k \in T PROVE k + 1 \in T
  <2> SUFFICES ASSUME k + 1 <= N PROVE f[k + 1] = g[k + 1]
    OBVIOUS
  <2>1. k + 1 \in 1..N /\ k \in 0..(Len(seqs) - 1) /\ k \in 0..(Len(more) - 1) /\ f[k] = g[k]
    BY <1>1, <1>5
  <2>2. f[k + 1] = f[k] \o seqs[k + 1]
    BY <1>2, <2>1, FlatStep
  <2>3. g[k + 1] = g[k] \o more[k + 1]
    BY <1>3, <2>1, FlatStep
  <2> HIDE DEF N, T
  <2> QED
    BY <1>1, <2>1, <2>2, <2>3
<1>6. f[N] = g[N]
  <2>1. N \in T
    <3> HIDE DEF T
    <3> QED
      BY <1>1, <1>4, <1>5, Induction
  <2> QED
    BY <1>1, <2>1
<1>7. N \in 0..(Len(more) - 1)
  BY <1>1
<1>8. g[N + 1] = g[N] \o s
  <2>1. g[N + 1] = g[N] \o more[N + 1]
    BY <1>3, <1>7, FlatStep
  <2> HIDE DEF N
  <2> QED
    BY <1>1, <2>1
<1>9. FlattenSeq(more) = g[N + 1] /\ FlattenSeq(seqs) = f[N]
  BY <1>1, <1>2, <1>3 DEF FlatSteps
<1> QED
  BY <1>6, <1>8, <1>9 DEF more

\* Concatenation is associative.
Regrouped(a, b, c) == (a \o b) \o c = a \o (b \o c)

LEMMA Regroup ==
    ASSUME NEW S, NEW a \in Seq(S), NEW b \in Seq(S), NEW c \in Seq(S)
    PROVE  Regrouped(a, b, c)
BY ConcatAssociative, SMT DEF Regrouped

\* The first one apart.
LEMMA FlattenFirst ==
    ASSUME NEW S, NEW s \in Seq(S), NEW seqs \in Seq(Seq(S))
    PROVE  FlattenSeq(<<s>> \o seqs) = s \o FlattenSeq(seqs)
<1> DEFINE N == Len(seqs)
           more == <<s>> \o seqs
<1>1. N \in Nat /\ more \in Seq(Seq(S)) /\ Len(more) = N + 1 /\ more[1] = s
      /\ \A i \in 1..N : more[i + 1] = seqs[i] /\ seqs[i] \in Seq(S)
  <2>1. <<s>> \in Seq(Seq(S)) /\ Len(<<s>>) = 1 /\ <<s>>[1] = s
    OBVIOUS
  <2>2. N \in Nat /\ \A i \in 1..N : seqs[i] \in Seq(S)
    BY LenProperties, ElementOfSeq
  <2>3. /\ more \in Seq(Seq(S)) /\ Len(more) = Len(<<s>>) + N
        /\ \A i \in 1..(Len(<<s>>) + N) : more[i] = IF i <= Len(<<s>>) THEN <<s>>[i] ELSE seqs[i - Len(<<s>>)]
    <3> HIDE DEF more
    <3> QED
      BY <2>1, ConcatProperties DEF more
  <2> HIDE DEF more, N
  <2>4. Len(more) = N + 1 /\ more[1] = s
    BY <2>1, <2>2, <2>3
  <2>5. ASSUME NEW i \in 1..N PROVE more[i + 1] = seqs[i]
    <3>1. i + 1 \in 1..(1 + N) /\ ~(i + 1 <= 1) /\ i + 1 - 1 = i
      BY <2>2
    <3> QED
      BY <2>1, <2>3, <3>1
  <2> QED
    BY <2>2, <2>3, <2>4, <2>5
<1> HIDE DEF more
<1>2. PICK f \in [0..N -> Seq(S)] : FlatSteps(f, seqs)
  BY FlattenSteps
<1>3. PICK g \in [0..(N + 1) -> Seq(S)] : FlatSteps(g, more)
  BY <1>1, FlattenSteps
<1> DEFINE T == {k \in Nat : k <= N => g[k + 1] = s \o f[k]}
<1>4. 0 \in T
  <2>1. g[1] = <<>> \o s /\ f[0] = <<>>
    <3>1. 0 \in 0..(Len(more) - 1) /\ 0 + 1 = 1
      BY <1>1
    <3>2. g[0 + 1] = g[0] \o more[0 + 1]
      BY <1>3, <3>1, FlatStep
    <3>3. g[0] = <<>> /\ f[0] = <<>>
      BY <1>2, <1>3 DEF FlatSteps
    <3> HIDE DEF N, T
    <3> QED
      BY <1>1, <3>1, <3>2, <3>3
  <2>2. g[0 + 1] = s \o f[0]
    BY <2>1, ConcatEmptySeq
  <2> QED
    BY <2>2
<1>5. ASSUME NEW k \in Nat, k \in T PROVE k + 1 \in T
  <2> SUFFICES ASSUME k + 1 <= N PROVE g[k + 1 + 1] = s \o f[k + 1]
    OBVIOUS
  <2>1. k + 1 \in 1..N /\ k \in 0..(Len(seqs) - 1) /\ k + 1 \in 0..(Len(more) - 1) /\ k \in 0..N
    BY <1>1
  <2>2. f[k + 1] = f[k] \o seqs[k + 1]
    BY <1>2, <2>1, FlatStep
  <2>3. g[(k + 1) + 1] = g[k + 1] \o more[(k + 1) + 1]
    <3> HIDE DEF T, N
    <3> QED
      BY <1>3, <2>1, FlatStep
  <2>4. g[k + 1] = s \o f[k]
    BY <1>5, <2>1
  <2>5. more[(k + 1) + 1] = seqs[k + 1] /\ seqs[k + 1] \in Seq(S)
    <3> HIDE DEF N, T
    <3> QED
      BY <1>1, <2>1
  <2>6. f[k] \in Seq(S)
    BY <2>1
  <2>7. g[(k + 1) + 1] = (s \o f[k]) \o seqs[k + 1]
    <3> HIDE DEF N, T
    <3> QED
      BY <2>3, <2>4, <2>5
  <2>8. (s \o f[k]) \o seqs[k + 1] = s \o (f[k] \o seqs[k + 1])
    <3> HIDE DEF N, T
    <3>1. PICK a, b : a = f[k] /\ b = seqs[k + 1]
      OBVIOUS
    <3>2. a \in Seq(S) /\ b \in Seq(S) /\ s \in Seq(S)
      BY <2>5, <2>6, <3>1
    <3>3. Regrouped(s, a, b)
      BY ONLY <3>2, Regroup
    <3> QED
      BY <3>1, <3>3 DEF Regrouped
  <2> HIDE DEF N, T
  <2> QED
    BY <2>2, <2>7, <2>8
<1>6. g[N + 1] = s \o f[N]
  <2>1. N \in T
    <3> HIDE DEF T
    <3> QED
      BY <1>1, <1>4, <1>5, Induction
  <2> QED
    BY <1>1, <2>1
<1> QED
  BY <1>1, <1>2, <1>3, <1>6 DEF FlatSteps, more

----------------------------------------------------------------------------
(* Arithmetic *)

LEMMA DivMod ==
    ASSUME NEW a \in Nat, NEW m \in Nat \ {0}
    PROVE  a \div m \in Nat /\ a % m \in Nat /\ a % m < m /\ a = (m * (a \div m)) + (a % m)
OBVIOUS

LEMMA DivModUnique ==
    ASSUME NEW a \in Nat, NEW m \in Nat \ {0}, NEW q \in Nat, NEW r \in Nat, r < m, a = m * q + r
    PROVE  a \div m = q /\ a % m = r
<1>1. PICK d, e : d = a \div m /\ e = a % m
  OBVIOUS
<1>2. d \in Nat /\ e \in Nat /\ e < m /\ a = m * d + e
  BY <1>1, DivMod
<1>3. m * (d - q) = r - e
  <2>1. m * (d - q) = m * d - m * q
    BY <1>2
  <2> QED
    BY <1>2, <2>1
<1>4. d - q = 0
  <2>1. CASE d - q >= 1
    <3>1. m * (d - q) >= m
      BY <1>2, <2>1
    <3> QED
      BY <1>2, <1>3, <3>1
  <2>2. CASE d - q <= -1
    <3>1. m * (d - q) <= -m
      BY <1>2, <2>2
    <3> QED
      BY <1>2, <1>3, <3>1
  <2> QED
    BY <1>2, <2>1, <2>2
<1> QED
  BY <1>1, <1>2, <1>3, <1>4

\* What is left after one more digit, and what was before it.
LEMMA DigitSplit ==
    ASSUME NEW v \in Nat, NEW m \in Nat \ {0}, NEW b \in Nat \ {0}
    PROVE  /\ v % (b * m) = (((v \div m) % b) * m) + (v % m)
           /\ v \div (b * m) = (v \div m) \div b
           /\ v \div m = ((v \div (b * m)) * b) + ((v \div m) % b)
<1>1. PICK q, r : q = v \div m /\ r = v % m
  OBVIOUS
<1>2. q \in Nat /\ r \in Nat /\ r < m /\ v = m * q + r
  BY <1>1, DivMod
<1>3. PICK p, d : p = q \div b /\ d = q % b
  OBVIOUS
<1>4. p \in Nat /\ d \in Nat /\ d < b /\ q = b * p + d
  BY <1>2, <1>3, DivMod
<1>5. PICK c : c = b * m
  OBVIOUS
<1>6. c \in Nat \ {0}
  BY <1>5
<1>7. d * m + r \in Nat /\ d * m + r < c
  <2>1. (b - d) * m >= m
    BY <1>4
  <2>2. (b - d) * m = b * m - d * m
    BY <1>4
  <2>3. d * m \in Nat
    BY <1>4
  <2> QED
    BY <1>2, <1>5, <2>1, <2>2, <2>3
<1>8. v = c * p + (d * m + r)
  <2>1. m * q = m * (b * p) + m * d
    BY <1>2, <1>4
  <2>2. m * (b * p) = c * p
    BY <1>4, <1>5
  <2>3. m * d = d * m
    BY <1>4
  <2> QED
    BY <1>2, <1>4, <1>6, <2>1, <2>2, <2>3
<1>9. v \div c = p /\ v % c = d * m + r
  BY <1>4, <1>6, <1>7, <1>8, DivModUnique
<1>10. b * p = p * b
  BY <1>4
<1> QED
  BY <1>1, <1>3, <1>4, <1>5, <1>9, <1>10

LEMMA Remainder ==
    ASSUME NEW d \in Nat, NEW b \in Nat \ {0}, d < b
    PROVE  d % b = d /\ (d + b) % b = d
<1>1. d = b * 0 + d /\ d + b = b * 1 + d
  OBVIOUS
<1> QED
  BY <1>1, DivModUnique

\* Powers are products of Base.
PowersTo(f, n) == f[0] = 1 /\ \A k \in 0..(n - 1) : f[k + 1] = Base * f[k]

LEMMA SomePowers ==
    ASSUME NEW n \in Nat
    PROVE  \E f \in [0..n -> Nat] : PowersTo(f, n)
<1>1. PICK step : step = [p \in Nat \X (0..(n - 1)) |-> Base * p[1]]
  OBVIOUS
<1>2. step \in StepTo(Nat, n)
  BY <1>1, PacketsAssumption DEF StepTo
<1>3. PICK f \in [0..n -> Nat] : Follows(f, n, 1, step)
  BY <1>2, Recursion
<1>4. ASSUME NEW k \in 0..(n - 1) PROVE f[k + 1] = Base * f[k]
  <2>1. f[k] \in Nat /\ f[k + 1] = step[<<f[k], k>>]
    BY <1>3 DEF Follows
  <2>2. <<f[k], k>> \in Nat \X (0..(n - 1))
    BY <2>1
  <2> QED
    BY <1>1, <2>1, <2>2
<1> QED
  BY <1>3, <1>4 DEF Follows, PowersTo

LEMMA SamePowers ==
    ASSUME NEW n \in Nat, NEW f, PowersTo(f, n), NEW m \in Nat, NEW g, PowersTo(g, m),
           NEW k \in Nat, k <= n, k <= m
    PROVE  f[k] = g[k]
<1> DEFINE T == {j \in Nat : j <= k => f[j] = g[j]}
<1>1. 0 \in T
  BY DEF PowersTo
<1>2. ASSUME NEW j \in Nat, j \in T PROVE j + 1 \in T
  <2> SUFFICES ASSUME j + 1 <= k PROVE f[j + 1] = g[j + 1]
    OBVIOUS
  <2>1. j \in 0..(n - 1) /\ j \in 0..(m - 1) /\ f[j] = g[j]
    BY <1>2
  <2> QED
    BY <2>1 DEF PowersTo
<1>3. k \in T
  <2> HIDE DEF T
  <2> QED
    BY <1>1, <1>2, Induction
<1> QED
  BY <1>3

LEMMA PowerSteps ==
    Power[0] = 1 /\ \A k \in Nat : Power[k] \in Nat \ {0} /\ Power[k + 1] = Base * Power[k]
<1> DEFINE F(n) == CHOOSE f \in [0..n -> Nat] : PowersTo(f, n)
           P == [k \in Nat |-> F(k)[k]]
<1>1. \A n \in Nat : F(n) \in [0..n -> Nat] /\ PowersTo(F(n), n)
  BY SomePowers
<1> HIDE DEF F
<1>2. P[0] = 1 /\ \A k \in Nat : P[k] \in Nat /\ P[k + 1] = Base * P[k]
  <2>1. P[0] = 1
    BY <1>1 DEF PowersTo
  <2>2. ASSUME NEW k \in Nat PROVE P[k] \in Nat /\ P[k + 1] = Base * P[k]
    <3>1. k + 1 \in Nat /\ k \in 0..k /\ k \in 0..(k + 1 - 1) /\ k <= k + 1 /\ k <= k
      OBVIOUS
    <3>2. PowersTo(F(k), k) /\ PowersTo(F(k + 1), k + 1) /\ F(k)[k] \in Nat
      BY <1>1, <3>1
    <3>3. F(k + 1)[k + 1] = Base * F(k + 1)[k]
      BY <3>1, <3>2 DEF PowersTo
    <3>4. F(k + 1)[k] = F(k)[k]
      BY <3>1, <3>2, SamePowers
    <3>5. P[k] = F(k)[k] /\ P[k + 1] = F(k + 1)[k + 1]
      BY <3>1
    <3> QED
      BY <3>2, <3>3, <3>4, <3>5
  <2> QED
    BY <2>1, <2>2
<1>3. P = [k \in Nat |-> IF k = 0 THEN 1 ELSE Base * P[k - 1]]
  <2>1. ASSUME NEW k \in Nat PROVE P[k] = IF k = 0 THEN 1 ELSE Base * P[k - 1]
    <3>1. CASE k # 0
      <4>1. PICK j : j = k - 1
        OBVIOUS
      <4>2. j \in Nat /\ k = j + 1
        BY <3>1, <4>1
      <4>3. P[j + 1] = Base * P[j]
        BY <1>2, <4>2
      <4> HIDE DEF P
      <4> QED
        BY <3>1, <4>1, <4>2, <4>3
    <3> QED
      BY <1>2, <3>1
  <2>2. P = [k \in Nat |-> P[k]]
    OBVIOUS
  <2> HIDE DEF P
  <2> QED
    BY <2>1, <2>2
<1>4. \E p : p = [k \in Nat |-> IF k = 0 THEN 1 ELSE Base * p[k - 1]]
  <2> HIDE DEF P
  <2> QED
    BY <1>3
<1>5. Power = [k \in Nat |-> IF k = 0 THEN 1 ELSE Base * Power[k - 1]]
  BY <1>4 DEF Power
<1>6. Power[0] = 1
  BY <1>5
<1>7. ASSUME NEW k \in Nat PROVE Power[k + 1] = Base * Power[k]
  <2>1. k + 1 \in Nat /\ k + 1 # 0 /\ k + 1 - 1 = k
    OBVIOUS
  <2>2. Power[k + 1] = Base * Power[k + 1 - 1]
    BY <1>5, <2>1
  <2> QED
    BY <2>1, <2>2
<1> DEFINE T == {k \in Nat : Power[k] \in Nat \ {0}}
<1>8. 0 \in T
  BY <1>6
<1>9. ASSUME NEW k \in Nat, k \in T PROVE k + 1 \in T
  <2>1. Power[k + 1] = Base * Power[k] /\ Power[k] \in Nat \ {0}
    BY <1>7, <1>9
  <2>2. Base \in Nat \ {0}
    BY PacketsAssumption
  <2>3. Base * Power[k] \in Nat \ {0}
    BY <2>1, <2>2
  <2> QED
    BY <2>1, <2>3
<1>10. Nat \subseteq T
  <2> HIDE DEF T
  <2> QED
    BY <1>8, <1>9, Induction
<1> QED
  BY <1>6, <1>7, <1>10

\* Powers grow.
LEMMA PowerGrows ==
    \A k \in Nat : k < Power[k]
<1> DEFINE T == {k \in Nat : k < Power[k]}
<1>1. 0 \in T
  BY PowerSteps
<1>2. ASSUME NEW k \in Nat, k \in T PROVE k + 1 \in T
  <2>1. PICK p : p = Power[k]
    OBVIOUS
  <2>2. p \in Nat /\ k < p /\ Power[k + 1] = Base * p
    BY <1>2, <2>1, PowerSteps
  <2>3. Base * p >= 2 * p
    BY <2>2, PacketsAssumption
  <2> QED
    BY <2>2, <2>3, PacketsAssumption
<1> HIDE DEF T
<1>3. Nat \subseteq T
  BY <1>1, <1>2, Induction
<1> QED
  BY <1>3 DEF T

LEMMA PowerMonotone ==
    ASSUME NEW k \in Nat, NEW j \in Nat, k <= j
    PROVE  Power[k] <= Power[j]
<1> DEFINE T == {i \in Nat : Power[k] <= Power[k + i]}
<1>1. 0 \in T
  BY PowerSteps
<1>2. ASSUME NEW i \in Nat, i \in T PROVE i + 1 \in T
  <2>1. PICK p : p = Power[k + i]
    OBVIOUS
  <2>2. p \in Nat /\ Power[k] \in Nat /\ Power[k] <= p
    BY <1>2, <2>1, PowerSteps
  <2>3. Power[k + (i + 1)] = Base * p
    <3>1. k + i \in Nat /\ k + (i + 1) = (k + i) + 1
      OBVIOUS
    <3>2. Power[(k + i) + 1] = Base * Power[k + i]
      BY <3>1, PowerSteps
    <3> QED
      BY <2>1, <3>1, <3>2
  <2>4. Base * p >= p /\ Base * p \in Nat
    BY <2>2, PacketsAssumption
  <2> QED
    BY <2>2, <2>3, <2>4
<1> HIDE DEF T
<1>3. j - k \in T
  BY <1>1, <1>2, Induction
<1>4. k + (j - k) = j
  OBVIOUS
<1> QED
  BY <1>3, <1>4 DEF T

----------------------------------------------------------------------------
(* Least and greatest numbers, and folds *)

LEMMA Least ==
    ASSUME NEW S, S \subseteq Nat, S # {}
    PROVE  \E x \in S : \A y \in S : x <= y
<1> SUFFICES ASSUME \A x \in S : \E y \in S : ~(x <= y) PROVE FALSE
  OBVIOUS
<1> DEFINE T == {n \in Nat : \A m \in S : m > n}
<1>1. 0 \in T
  <2>1. \A m \in S : m \in Nat /\ \E y \in S : y \in Nat /\ y < m
    OBVIOUS
  <2> QED
    BY <2>1
<1>2. ASSUME NEW n \in Nat, n \in T PROVE n + 1 \in T
  <2> SUFFICES ASSUME NEW m \in S, ~(m > n + 1) PROVE FALSE
    OBVIOUS
  <2>1. m \in Nat /\ m = n + 1
    BY <1>2
  <2>2. PICK y \in S : ~(m <= y)
    OBVIOUS
  <2>3. y \in Nat /\ y > n
    BY <1>2
  <2> QED
    BY <2>1, <2>2, <2>3
<1>3. Nat \subseteq T
  <2> HIDE DEF T
  <2> QED
    BY <1>1, <1>2, Induction
<1>4. PICK x \in S : TRUE
  OBVIOUS
<1>5. x \in Nat /\ x \in T
  BY <1>3
<1> QED
  BY <1>5

LEMMA MaxOf ==
    ASSUME NEW n \in Nat, NEW s, s \subseteq 1..n, s # {}
    PROVE  Max(s) \in s /\ \A y \in s : y <= Max(s)
<1>1. PICK S : S = {n - y : y \in s}
  OBVIOUS
<1>2. S \subseteq Nat /\ S # {}
  <2>1. \A y \in s : y \in 1..n /\ n - y \in Nat
    OBVIOUS
  <2> QED
    BY <1>1, <2>1
<1>3. PICK z \in S : \A y \in S : z <= y
  BY <1>2, Least
<1>4. PICK x \in s : z = n - x
  BY <1>1
<1>5. \A y \in s : x >= y
  <2> SUFFICES ASSUME NEW y \in s PROVE x >= y
    OBVIOUS
  <2>1. n - y \in S /\ x \in 1..n /\ y \in 1..n
    BY <1>1
  <2> QED
    BY <1>3, <1>4, <2>1
<1>6. \E m \in s : \A y \in s : m >= y
  BY <1>5
<1>7. Max(s) \in s /\ \A y \in s : Max(s) >= y
  BY <1>6 DEF Max
<1> QED
  BY <1>7

LEMMA IntervalMax ==
    ASSUME NEW a \in Nat, NEW k \in Nat, a <= k
    PROVE  Max(a..k) = k /\ (a..k) \ {k} = a..(k - 1) /\ a..k # {}
<1>1. k \in a..k /\ \A y \in a..k : k >= y
  OBVIOUS
<1>2. Max(a..k) \in a..k /\ \A y \in a..k : Max(a..k) >= y
  BY <1>1 DEF Max
<1>3. Max(a..k) = k
  <2>1. PICK m : m = Max(a..k)
    OBVIOUS
  <2>2. m \in a..k /\ m >= k
    BY <1>1, <1>2, <2>1
  <2> QED
    BY <2>1, <2>2
<1> QED
  BY <1>1, <1>3

\* The values of a fold on all sets of indices, the greatest index last.
FoldTo(V, n) == [V \X (1..n) -> V]
FoldsAll(it, n, base, op) ==
    \A s \in SUBSET (1..n) : it[s] = IF s = {} THEN base ELSE op[<<it[s \ {Max(s)}], Max(s)>>]

LEMMA FoldExists ==
    ASSUME NEW V, NEW n \in Nat, NEW base \in V, NEW op \in FoldTo(V, n)
    PROVE  \E it \in [SUBSET (1..n) -> V] : FoldsAll(it, n, base, op)
<1> DEFINE Ex(m) == \E it \in [SUBSET (1..m) -> V] : FoldsAll(it, m, base, op)
           T == {m \in Nat : m <= n => Ex(m)}
<1>1. Ex(0)
  <2>1. PICK it : it = [s \in SUBSET (1..0) |-> base]
    OBVIOUS
  <2>2. it \in [SUBSET (1..0) -> V]
    BY <2>1
  <2>3. FoldsAll(it, 0, base, op)
    <3>1. \A s \in SUBSET (1..0) : s = {}
      OBVIOUS
    <3> QED
      BY <2>1, <3>1 DEF FoldsAll
  <2> QED
    BY <2>2, <2>3
<1>2. ASSUME NEW m \in Nat, m + 1 <= n, Ex(m) PROVE Ex(m + 1)
  <2>1. PICK g \in [SUBSET (1..m) -> V] : FoldsAll(g, m, base, op)
    BY <1>2
  <2>2. PICK it : it = [s \in SUBSET (1..(m + 1)) |-> IF m + 1 \in s THEN op[<<g[s \ {m + 1}], m + 1>>] ELSE g[s]]
    OBVIOUS
  <2>3. ASSUME NEW s \in SUBSET (1..(m + 1)) PROVE
           it[s] \in V /\ it[s] = IF s = {} THEN base ELSE op[<<it[s \ {Max(s)}], Max(s)>>]
    <3>1. CASE m + 1 \in s
      <4>1. s \ {m + 1} \in SUBSET (1..m) /\ s \ {m + 1} \in SUBSET (1..(m + 1)) /\ s # {}
        BY <3>1
      <4>2. Max(s) = m + 1
        <5>0. m + 1 \in Nat /\ s \subseteq 1..(m + 1)
          OBVIOUS
        <5>1. Max(s) \in s /\ \A y \in s : y <= Max(s)
          BY <4>1, <5>0, MaxOf
        <5>2. Max(s) \in 1..(m + 1) /\ m + 1 <= Max(s)
          BY <3>1, <5>1
        <5> QED
          BY <5>2
      <4>3. it[s \ {m + 1}] = g[s \ {m + 1}] /\ g[s \ {m + 1}] \in V
        BY <2>2, <4>1
      <4>4. it[s] = op[<<g[s \ {m + 1}], m + 1>>]
        BY <2>2, <3>1
      <4>5. op[<<g[s \ {m + 1}], m + 1>>] \in V
        <5>1. m + 1 \in 1..n
          BY <1>2
        <5> QED
          BY <4>3, <5>1 DEF FoldTo
      <4> QED
        BY <4>1, <4>2, <4>3, <4>4, <4>5
    <3>2. CASE m + 1 \notin s
      <4>1. s \in SUBSET (1..m) /\ it[s] = g[s]
        BY <2>2, <3>2
      <4>2. s # {} => s \ {Max(s)} \in SUBSET (1..m) /\ m + 1 \notin s \ {Max(s)}
        <5>1. PICK x : x = Max(s)
          OBVIOUS
        <5>2. s \subseteq 1..m
          BY <4>1
        <5>3. s \ {x} \subseteq 1..m /\ m + 1 \notin s \ {x}
          BY <3>2, <5>2
        <5> QED
          BY <5>1, <5>3
      <4>3. s # {} => it[s \ {Max(s)}] = g[s \ {Max(s)}]
        BY <2>2, <4>2
      <4>4. g[s] = IF s = {} THEN base ELSE op[<<g[s \ {Max(s)}], Max(s)>>]
        BY <2>1, <4>1 DEF FoldsAll
      <4>5. g[s] \in V
        BY <4>1
      <4> QED
        BY <4>1, <4>3, <4>4, <4>5
    <3> QED
      BY <3>1, <3>2
  <2>4. it \in [SUBSET (1..(m + 1)) -> V]
    BY <2>2, <2>3
  <2> QED
    BY <2>3, <2>4 DEF FoldsAll
<1> HIDE DEF Ex
<1>3. 0 \in T
  BY <1>1
<1>4. ASSUME NEW m \in Nat, m \in T PROVE m + 1 \in T
  BY <1>2, <1>4
<1>5. n \in T
  <2> HIDE DEF T
  <2> QED
    BY <1>3, <1>4, Induction
<1>6. Ex(n)
  BY <1>5
<1> QED
  BY <1>6 DEF Ex
----------------------------------------------------------------------------
(* The length of a control packet *)

LEMMA DigitCount ==
    ASSUME NEW v \in Nat
    PROVE  \E n \in 1..(v + 1) : v < Power[n] /\ \A j \in 1..(n - 1) : v >= Power[j]
<1>1. PICK S : S = {k \in 1..(v + 1) : v < Power[k]}
  OBVIOUS
<1>2. v + 1 < Power[v + 1] /\ Power[v + 1] \in Nat
  BY PowerGrows, PowerSteps
<1>3. v + 1 \in S /\ S \subseteq Nat
  BY <1>1, <1>2
<1>4. PICK n \in S : \A y \in S : n <= y
  BY <1>3, Least
<1>5. n \in 1..(v + 1) /\ v < Power[n]
  BY <1>1
<1>6. ASSUME NEW j \in 1..(n - 1) PROVE v >= Power[j]
  <2>1. j \in 1..(v + 1) /\ j \in Nat /\ j < n
    BY <1>5
  <2>2. ASSUME j \in S PROVE FALSE
    <3>1. n <= j
      BY <1>4, <2>2
    <3> QED
      BY <1>5, <2>1, <3>1
  <2> QED
    BY <1>1, <2>1, <2>2, PowerSteps
<1> QED
  BY <1>5, <1>6

\* Digits, all but the last one with the high bit; digit i counts Power[i - 1].
SmallEndFirst(L, n, v) ==
    /\ v < Power[n]
    /\ \A i \in 1..n : /\ L[i] \in Nat /\ (L[i] < Base <=> i = n)
                       /\ L[i] % Base = (v \div Power[i - 1]) % Base

LEMMA MqttDigits ==
    ASSUME NEW v \in Nat
    PROVE  \E n \in Nat \ {0} : MqttLength(v) \in Seq(Nat) /\ Len(MqttLength(v)) = n /\ SmallEndFirst(MqttLength(v), n, v)
<1> DEFINE IsSize(k) == v < Power[k] /\ \A j \in 1..(k - 1) : v >= Power[j]
           n == CHOOSE k \in 1..(v + 1) : IsSize(k)
<1>1. n \in 1..(v + 1) /\ IsSize(n)
  BY DigitCount
<1>2. MqttLength(v) = [i \in 1..n |-> ((v \div Power[i - 1]) % Base) + IF i < n THEN Base ELSE 0]
  BY DEF MqttLength
<1> HIDE DEF n
<1>3. n \in Nat \ {0} /\ v < Power[n]
  BY <1>1
<1>4. ASSUME NEW i \in 1..n PROVE
         /\ MqttLength(v)[i] \in Nat /\ (MqttLength(v)[i] < Base <=> i = n)
         /\ MqttLength(v)[i] % Base = (v \div Power[i - 1]) % Base
  <2>1. PICK d : d = (v \div Power[i - 1]) % Base
    OBVIOUS
  <2>2. d \in Nat /\ d < Base /\ Base \in Nat \ {0}
    <3>1. Power[i - 1] \in Nat \ {0} /\ Base \in Nat \ {0}
      <4>1. i - 1 \in Nat
        BY <1>3
      <4> QED
        BY <4>1, PowerSteps, PacketsAssumption
    <3>2. v \div Power[i - 1] \in Nat
      BY <3>1, DivMod
    <3> QED
      BY <2>1, <3>1, <3>2, DivMod
  <2>3. MqttLength(v)[i] = d + IF i < n THEN Base ELSE 0
    BY <1>2, <2>1
  <2>4. d % Base = d /\ (d + Base) % Base = d
    BY <2>2, Remainder
  <2>5. CASE i < n
    BY <2>1, <2>2, <2>3, <2>4, <2>5
  <2>6. CASE ~(i < n)
    <3>1. i = n
      BY <1>3, <2>6
    <3>2. MqttLength(v)[i] = d
      BY <2>2, <2>3, <2>6
    <3> QED
      BY <2>1, <2>2, <2>4, <3>1, <3>2
  <2> QED
    BY <2>5, <2>6
<1>5. MqttLength(v) \in Seq(Nat) /\ Len(MqttLength(v)) = n
  <2>1. PICK L : L = MqttLength(v)
    OBVIOUS
  <2>2. L \in [1..n -> Nat]
    BY <1>2, <1>4, <2>1
  <2>3. L \in Seq(Nat)
    BY <1>3, <2>2, SeqDef
  <2>4. DOMAIN L = 1..n /\ DOMAIN L = 1..Len(L) /\ Len(L) \in Nat
    BY <2>2, <2>3, LenProperties
  <2> QED
    BY <1>3, <2>1, <2>3, <2>4
<1> QED
  BY <1>3, <1>4, <1>5 DEF SmallEndFirst

\* What the digits add up to, wherever they are.
LEMMA LengthFold ==
    ASSUME NEW v \in Nat, NEW n \in Nat \ {0}, NEW data,
           \A k \in 2..(n + 1) : data[k] % Base = (v \div Power[k - 2]) % Base
    PROVE  LengthOf(data, n + 1) = v % Power[n]
<1> DEFINE D == 2..(n + 1)
           digit(k) == (data[k] % Base) * Power[k - 2]
           idx == [k \in D |-> k]
           raw(m) == (data[idx[m]] % Base) * Power[idx[m] - 2]
           Sum(g) == [s \in SUBSET (DOMAIN idx) |-> IF s = {} THEN 0 ELSE g[s \ {Max(s)}] + raw(Max(s))]
           h == CHOOSE g : g = Sum(g)
<1>1. ASSUME NEW k \in D PROVE digit(k) \in Nat
  <2>1. k - 2 \in Nat
    OBVIOUS
  <2>2. Power[k - 2] \in Nat \ {0} /\ Base \in Nat \ {0}
    BY <2>1, PowerSteps, PacketsAssumption
  <2>3. v \div Power[k - 2] \in Nat
    BY <2>2, DivMod
  <2>4. (v \div Power[k - 2]) % Base \in Nat
    BY <2>2, <2>3, DivMod
  <2> QED
    BY <2>2, <2>4
<1> DEFINE F == FoldLeft(LAMBDA u, k : u + ((data[k] % Base) * Power[k - 2]), 0, idx)
<1>9. DOMAIN idx = D /\ \A m \in D : raw(m) = digit(m)
  OBVIOUS
<1>2. F = h[DOMAIN idx]
  BY DEF FoldLeft, MapThenFoldSet
<1> HIDE DEF digit, raw, idx, F
<1>3. \E g : g = Sum(g)
  <2>1. PICK op : op = [p \in Nat \X (1..(n + 1)) |-> IF p[2] \in D THEN p[1] + digit(p[2]) ELSE 0]
    OBVIOUS
  <2>2. op \in FoldTo(Nat, n + 1)
    BY <1>1, <2>1 DEF FoldTo
  <2>3. PICK it \in [SUBSET (1..(n + 1)) -> Nat] : FoldsAll(it, n + 1, 0, op)
    <3>1. n + 1 \in Nat /\ 0 \in Nat
      OBVIOUS
    <3> QED
      BY <2>2, <3>1, FoldExists
  <2>4. PICK g : g = [s \in SUBSET D |-> it[s]]
    OBVIOUS
  <2>5. ASSUME NEW s \in SUBSET D PROVE g[s] = IF s = {} THEN 0 ELSE g[s \ {Max(s)}] + digit(Max(s))
    <3>1. s \in SUBSET (1..(n + 1)) /\ g[s] = it[s]
      BY <2>4
    <3>2. CASE s = {}
      BY <2>3, <3>1, <3>2 DEF FoldsAll
    <3>3. CASE s # {}
      <4>1. PICK m : m = Max(s)
        OBVIOUS
      <4>2. m \in D
        <5>1. n + 1 \in Nat /\ s \subseteq 1..(n + 1)
          BY <3>1
        <5>2. Max(s) \in s
          BY <3>3, <5>1, MaxOf
        <5> QED
          BY <4>1, <5>2
      <4>3. s \ {m} \in SUBSET D /\ s \ {m} \in SUBSET (1..(n + 1))
        BY <3>1
      <4>4. it[s] = op[<<it[s \ {m}], m>>]
        BY <2>3, <3>1, <3>3, <4>1 DEF FoldsAll
      <4>5. it[s \ {m}] \in Nat /\ g[s \ {m}] = it[s \ {m}]
        BY <2>4, <4>3
      <4>6. op[<<it[s \ {m}], m>>] = it[s \ {m}] + digit(m)
        BY <2>1, <4>2, <4>5
      <4> QED
        BY <3>1, <3>3, <4>1, <4>4, <4>5, <4>6
    <3> QED
      BY <3>2, <3>3
  <2>6. ASSUME NEW s \in SUBSET D, s # {} PROVE raw(Max(s)) = digit(Max(s))
    <3>1. n + 1 \in Nat /\ s \subseteq 1..(n + 1)
      OBVIOUS
    <3>2. Max(s) \in s
      BY <2>6, <3>1, MaxOf
    <3> QED
      BY <1>9, <3>2
  <2>7. g = Sum(g)
    BY <1>9, <2>4, <2>5, <2>6
  <2> QED
    BY <2>7
<1>4. h = Sum(h)
  BY <1>3
<1> HIDE DEF h
<1> DEFINE T == {k \in Nat : k <= n => h[2..(k + 1)] = v % Power[k]}
<1>5. 0 \in T
  <2>1. 2..(0 + 1) = {} /\ {} \in SUBSET D
    OBVIOUS
  <2>2. h[2..(0 + 1)] = 0
    BY <1>4, <1>9, <2>1
  <2>3. v % Power[0] = 0
    BY PowerSteps
  <2> QED
    BY <2>2, <2>3
<1>6. ASSUME NEW k \in Nat, k \in T PROVE k + 1 \in T
  <2> SUFFICES ASSUME k + 1 <= n PROVE h[2..(k + 1 + 1)] = v % Power[k + 1]
    OBVIOUS
  <2>1. PICK j : j = k + 2
    OBVIOUS
  <2>2. j \in Nat /\ 2 <= j /\ j \in D /\ j - 1 = k + 1 /\ j = k + 1 + 1 /\ j - 2 = k
    BY <2>1
  <2>3. Max(2..j) = j /\ (2..j) \ {j} = 2..(j - 1) /\ 2..j # {}
    BY <2>2, IntervalMax
  <2>4. 2..j \in SUBSET D
    BY <2>2
  <2>5. h[2..j] = h[(2..j) \ {Max(2..j)}] + raw(Max(2..j))
    BY <1>4, <1>9, <2>3, <2>4
  <2>6. h[2..j] = h[2..(k + 1)] + digit(j)
    BY <1>9, <2>2, <2>3, <2>5
  <2>7. h[2..(k + 1)] = v % Power[k]
    BY <1>6, <2>2
  <2>8. digit(j) = ((v \div Power[k]) % Base) * Power[k]
    BY <2>2 DEF digit
  <2>9. v % (Base * Power[k]) = (((v \div Power[k]) % Base) * Power[k]) + (v % Power[k])
    <3>1. Power[k] \in Nat \ {0} /\ Base \in Nat \ {0}
      BY PowerSteps, PacketsAssumption
    <3> QED
      BY <3>1, DigitSplit
  <2>10. Power[k + 1] = Base * Power[k] /\ Power[k] \in Nat \ {0}
    BY PowerSteps
  <2>11. v % Power[k] \in Nat /\ digit(j) \in Nat
    BY <1>1, <2>2, <2>10, DivMod
  <2>12. h[2..j] = digit(j) + (v % Power[k])
    BY <2>6, <2>7, <2>11
  <2> QED
    BY <2>2, <2>8, <2>9, <2>10, <2>12
<1>7. n \in T
  <2> HIDE DEF T
  <2> QED
    BY <1>5, <1>6, Induction
<1>8. F = v % Power[n]
  BY <1>2, <1>7, <1>9
<1> QED
  BY <1>8 DEF F, idx, LengthOf

----------------------------------------------------------------------------
(* Control packets on the wire *)

\* The length is found as soon as the byte after it is there, and the packet
\* is whole when the rest is.
LEMMA WholePacket ==
    ASSUME NEW v \in Nat, NEW n \in Nat \ {0}, NEW L, SmallEndFirst(L, n, v), NEW data \in Seq(Nat),
           \A k \in 2..(n + 1) : k <= Len(data) => data[k] = L[k - 1]
    PROVE  IsWholeMqttPacket(data) = IF n + 2 <= Len(data) /\ n + 1 + v <= Len(data) THEN n + 1 + v ELSE 0
<1>0. Len(data) \in Nat
  BY LenProperties
<1> DEFINE Ends == {k \in 2..(Len(data) - 1) : data[k] < Base}
           last == CHOOSE k \in Ends : \A j \in Ends : k <= j
           end == last + LengthOf(data, last)
<1>1. IsWholeMqttPacket(data) = IF Ends = {} THEN 0 ELSE IF Len(data) >= end THEN end ELSE 0
  BY DEF IsWholeMqttPacket, AllThere
<1>2. ASSUME NEW k \in 2..(n + 1), k <= Len(data) PROVE data[k] < Base <=> k = n + 1
  <2>1. k - 1 \in 1..n
    OBVIOUS
  <2>2. data[k] = L[k - 1] /\ (L[k - 1] < Base <=> k - 1 = n)
    BY <1>2, <2>1 DEF SmallEndFirst
  <2> QED
    BY <2>2
<1>3. CASE n + 2 <= Len(data)
  <2>1. n + 1 \in Ends
    BY <1>0, <1>2, <1>3
  <2>2. \A j \in Ends : n + 1 <= j
    <3> SUFFICES ASSUME NEW j \in Ends, j < n + 1 PROVE FALSE
      BY <1>0
    <3>1. j \in 2..(n + 1) /\ j <= Len(data) /\ data[j] < Base /\ j # n + 1
      BY <1>0
    <3> QED
      BY <1>2, <3>1
  <2>3. last = n + 1
    <3>1. last \in Ends /\ \A j \in Ends : last <= j
      BY <2>1, <2>2
    <3>2. \A j \in Ends : j \in Nat
      BY <1>0
    <3> HIDE DEF last, Ends
    <3>3. last \in Nat /\ last <= n + 1 /\ n + 1 <= last
      BY <2>1, <2>2, <3>1, <3>2
    <3> QED
      BY <3>3
  <2>4. LengthOf(data, n + 1) = v
    <3>1. \A k \in 2..(n + 1) : data[k] % Base = (v \div Power[k - 2]) % Base
      <4> SUFFICES ASSUME NEW k \in 2..(n + 1) PROVE data[k] % Base = (v \div Power[k - 2]) % Base
        OBVIOUS
      <4>1. PICK i : i = k - 1
        OBVIOUS
      <4>2. i \in 1..n /\ i - 1 = k - 2 /\ k <= Len(data)
        BY <1>0, <1>3, <4>1
      <4>3. data[k] = L[i]
        BY <4>1, <4>2
      <4>4. L[i] % Base = (v \div Power[i - 1]) % Base
        BY <4>2 DEF SmallEndFirst
      <4> QED
        BY <4>2, <4>3, <4>4
    <3>2. LengthOf(data, n + 1) = v % Power[n]
      BY <3>1, LengthFold
    <3>3. v < Power[n] /\ Power[n] \in Nat \ {0}
      BY PowerSteps DEF SmallEndFirst
    <3>4. v % Power[n] = v
      BY <3>3, Remainder
    <3> QED
      BY <3>2, <3>4
  <2> HIDE DEF last, Ends
  <2>5. end = n + 1 + v /\ Ends # {}
    BY <2>1, <2>3, <2>4
  <2> HIDE DEF end
  <2> QED
    BY <1>0, <1>1, <1>3, <2>5
<1>4. CASE ~(n + 2 <= Len(data))
  <2>1. Ends = {}
    <3> SUFFICES ASSUME NEW j \in Ends PROVE FALSE
      OBVIOUS
    <3>1. j \in 2..(n + 1) /\ j <= Len(data) /\ data[j] < Base /\ j # n + 1
      BY <1>0, <1>4
    <3> QED
      BY <1>2, <3>1
  <2> HIDE DEF last, end, Ends
  <2> QED
    BY <1>1, <1>4, <2>1
<1> QED
  BY <1>3, <1>4

\* A packet on the wire: its number, its length, and a body of that length.
LEMMA FrameShape ==
    ASSUME NEW i \in Nat, NEW v \in Nat, script[i].size = v
    PROVE  \E n \in Nat \ {0} :
             /\ SmallEndFirst(MqttLength(v), n, v)
             /\ Frame(i) \in Seq(Nat) /\ Len(Frame(i)) = n + 1 + v /\ Frame(i)[1] = i
             /\ \A k \in 2..(n + 1) : Frame(i)[k] = MqttLength(v)[k - 1]
<1>1. PICK n \in Nat \ {0} : MqttLength(v) \in Seq(Nat) /\ Len(MqttLength(v)) = n /\ SmallEndFirst(MqttLength(v), n, v)
  BY MqttDigits
<1>2. PICK L, body, head : L = MqttLength(v) /\ body = [k \in 1..v |-> 99] /\ head = <<i>>
  OBVIOUS
<1>3. L \in Seq(Nat) /\ Len(L) = n
  BY <1>1, <1>2
<1>4. body \in Seq(Nat) /\ Len(body) = v
  <2>1. body \in [1..v -> Nat]
    BY <1>2
  <2>2. body \in Seq(Nat)
    BY <2>1, SeqDef
  <2>3. DOMAIN body = 1..v /\ DOMAIN body = 1..Len(body) /\ Len(body) \in Nat
    BY <2>1, <2>2, LenProperties
  <2> QED
    BY <2>2, <2>3
<1>5. head \in Seq(Nat) /\ Len(head) = 1 /\ head[1] = i
  BY <1>2
<1>6. PICK a : a = head \o L
  OBVIOUS
<1>7. /\ a \in Seq(Nat) /\ Len(a) = 1 + n
      /\ \A k \in 1..(1 + n) : a[k] = IF k <= 1 THEN head[k] ELSE L[k - 1]
  <2>1. /\ head \o L \in Seq(Nat) /\ Len(head \o L) = Len(head) + Len(L)
        /\ \A k \in 1..(Len(head) + Len(L)) : (head \o L)[k] = IF k <= Len(head) THEN head[k] ELSE L[k - Len(head)]
    BY <1>3, <1>5, ConcatProperties
  <2> QED
    BY ONLY <1>3, <1>5, <1>6, <2>1
<1>8. PICK f : f = a \o body
  OBVIOUS
<1>9. /\ f \in Seq(Nat) /\ Len(f) = (1 + n) + v
      /\ \A k \in 1..((1 + n) + v) : f[k] = IF k <= 1 + n THEN a[k] ELSE body[k - (1 + n)]
  <2>1. /\ a \o body \in Seq(Nat) /\ Len(a \o body) = Len(a) + Len(body)
        /\ \A k \in 1..(Len(a) + Len(body)) : (a \o body)[k] = IF k <= Len(a) THEN a[k] ELSE body[k - Len(a)]
    BY <1>4, <1>7, ConcatProperties
  <2> QED
    BY ONLY <1>4, <1>7, <1>8, <2>1, n \in Nat, v \in Nat
<1>10. f = Frame(i)
  BY <1>2, <1>6, <1>8 DEF Frame
<1>11. f[1] = i
  BY <1>5, <1>7, <1>9
<1>12. ASSUME NEW k \in 2..(n + 1) PROVE f[k] = L[k - 1]
  <2>1. k \in 1..((1 + n) + v) /\ k <= 1 + n /\ k \in 1..(1 + n) /\ ~(k <= 1)
    OBVIOUS
  <2>2. f[k] = a[k]
    BY ONLY <1>9, <2>1
  <2>3. a[k] = L[k - 1]
    BY ONLY <1>7, <2>1
  <2> QED
    BY <2>2, <2>3
<1> QED
  BY <1>1, <1>2, <1>9, <1>10, <1>11, <1>12

Joined(s, t) == s \o t

LEMMA JoinedAssociative ==
    ASSUME NEW S, NEW s \in Seq(S), NEW t \in Seq(S), NEW u \in Seq(S)
    PROVE  Joined(Joined(s, t), u) = Joined(s, Joined(t, u))
BY ConcatAssociative DEF Joined

\* What is left of a sequence when its beginning is taken away.
LEMMA DropPrefix ==
    ASSUME NEW S, NEW a \in Seq(S), NEW b \in Seq(S), NEW c \in Seq(S), NEW d \in Seq(S),
           Joined(a, b) = Joined(c, d), Len(c) <= Len(a)
    PROVE  SubSeq(a, Len(c) + 1, Len(a)) \in Seq(S) /\ Joined(SubSeq(a, Len(c) + 1, Len(a)), b) = d
<1>0. a \o b = c \o d
  BY Zenon DEF Joined
<1>1. PICK m, p : m = Len(c) /\ p = Len(a) - Len(c)
  OBVIOUS
<1>2. Len(a) \in Nat /\ Len(b) \in Nat /\ Len(c) \in Nat /\ Len(d) \in Nat /\ m \in Nat /\ p \in Nat /\ Len(a) = m + p
  BY <1>1, LenProperties
<1>3. PICK e : e = SubSeq(a, Len(c) + 1, Len(a))
  OBVIOUS
<1>4. e \in Seq(S) /\ Len(e) = p /\ \A i \in 1..p : e[i] = a[m + i]
  <2>1. \A i \in (m + 1)..Len(a) : a[i] \in S
    BY <1>2, ElementOfSeq
  <2>2. /\ e \in Seq(S)
        /\ Len(e) = IF m + 1 <= Len(a) THEN Len(a) - (m + 1) + 1 ELSE 0
        /\ \A i \in 1..(Len(a) - (m + 1) + 1) : e[i] = a[(m + 1) + i - 1]
    BY <1>1, <1>2, <1>3, <2>1, SubSeqProperties
  <2>3. Len(a) - (m + 1) + 1 = p /\ (~(m + 1 <= Len(a)) => p = 0)
    BY <1>2
  <2>4. \A i \in 1..p : (m + 1) + i - 1 = m + i
    BY <1>2
  <2> QED
    BY <2>2, <2>3, <2>4
<1>5. /\ Len(a \o b) = Len(a) + Len(b)
      /\ \A i \in 1..(Len(a) + Len(b)) : (a \o b)[i] = IF i <= Len(a) THEN a[i] ELSE b[i - Len(a)]
  BY ConcatProperties
<1>6. /\ Len(c \o d) = m + Len(d)
      /\ \A i \in 1..(m + Len(d)) : (c \o d)[i] = IF i <= m THEN c[i] ELSE d[i - m]
  BY <1>1, ConcatProperties
<1>7. /\ e \o b \in Seq(S) /\ Len(e \o b) = p + Len(b)
      /\ \A i \in 1..(p + Len(b)) : (e \o b)[i] = IF i <= p THEN e[i] ELSE b[i - p]
  BY <1>4, ConcatProperties
<1>8. Len(e \o b) = Len(d)
  BY <1>0, <1>2, <1>5, <1>6, <1>7
<1>9. ASSUME NEW i \in 1..Len(d) PROVE (e \o b)[i] = d[i]
  <2>1. i \in 1..(p + Len(b)) /\ m + i \in 1..(Len(a) + Len(b)) /\ m + i \in 1..(m + Len(d)) /\ ~(m + i <= m)
        /\ m + i - m = i
    BY <1>2, <1>7, <1>8
  <2>2. (a \o b)[m + i] = d[i]
    <3>1. PICK j : j = m + i
      OBVIOUS
    <3>2. j \in 1..(m + Len(d)) /\ ~(j <= m) /\ j - m = i
      BY <1>2, <2>1, <3>1
    <3>3. (c \o d)[j] = d[j - m]
      BY ONLY <1>6, <3>2
    <3> QED
      BY <1>0, <3>1, <3>2, <3>3
  <2>3. CASE i <= p
    <3>1. m + i <= Len(a) /\ i \in 1..p
      BY <1>2, <2>3
    <3>2. (e \o b)[i] = a[m + i] /\ (a \o b)[m + i] = a[m + i]
      BY <1>4, <1>5, <1>7, <2>1, <2>3, <3>1
    <3> QED
      BY <2>2, <3>2
  <2>4. CASE ~(i <= p)
    <3>1. ~(m + i <= Len(a)) /\ m + i - Len(a) = i - p
      BY <1>2, <2>4
    <3>2. (e \o b)[i] = b[i - p]
      BY <1>7, <2>1, <2>4
    <3>3. PICK j : j = m + i
      OBVIOUS
    <3>4. j \in 1..(Len(a) + Len(b)) /\ ~(j <= Len(a)) /\ j - Len(a) = i - p
      BY <1>2, <2>1, <3>1, <3>3
    <3>5. (a \o b)[j] = b[j - Len(a)]
      BY ONLY <1>5, <3>4
    <3> QED
      BY <2>2, <3>2, <3>3, <3>4, <3>5
  <2> QED
    BY <2>3, <2>4
<1>10. e \o b = d
  BY <1>7, <1>8, <1>9, SeqEqual
<1>11. e \in Seq(S) /\ Joined(e, b) = d
  BY <1>4, <1>10 DEF Joined
<1> QED
  BY ONLY <1>3, <1>11

\* The frames that are left when h of them were handled.
Rest(h) == [i \in 1..(Len(script) - h) |-> Frame(h + i)]

\* What FramesInOrder needs to be inductive: the types of what it is about.
FramingInv ==
    /\ script \in Seq(Controls)
    /\ handled \in Seq(Nat) /\ Len(handled) <= Len(script)
    /\ \A i \in 1..Len(handled) : handled[i] = i
    /\ wire \in Seq(Nat) /\ wsBuffer \in Seq(Nat)
    /\ wsBuffer \o wire = FlattenSeq(Rest(Len(handled)))
    /\ whole => wsBuffer = <<>>

\* A control packet of a script has a size.
LEMMA ControlSize ==
    ASSUME script \in Seq(Controls), NEW i \in 1..Len(script)
    PROVE  script[i] \in Controls /\ script[i].size \in Nat /\ i \in Nat
<1>1. script[i] \in Controls
  BY ElementOfSeq
<1>2. \A c \in Controls : c.size \in Nat
  BY DEF Controls
<1>3. Len(script) \in Nat
  BY LenProperties
<1> QED
  BY <1>1, <1>2, <1>3

\* The frames that are left are sequences of bytes, and the first of them is
\* the frame of the next packet.
LEMMA RestFrames ==
    ASSUME script \in Seq(Controls), NEW h \in Nat, h <= Len(script)
    PROVE  /\ Rest(h) \in Seq(Seq(Nat)) /\ Len(Rest(h)) = Len(script) - h
           /\ \A i \in 1..(Len(script) - h) : Rest(h)[i] = Frame(h + i)
           /\ h < Len(script) => Frame(h + 1) \in Seq(Nat) /\ Rest(h + 1) \in Seq(Seq(Nat)) /\ Rest(h) = <<Frame(h + 1)>> \o Rest(h + 1)
           /\ h = Len(script) => Rest(h) = <<>>
<1>0. Len(script) \in Nat
  BY LenProperties
<1>1. ASSUME NEW i \in 1..Len(script) PROVE Frame(i) \in Seq(Nat)
  <2>1. PICK v : v = script[i].size
    OBVIOUS
  <2>2. i \in Nat /\ v \in Nat /\ script[i].size = v
    BY <2>1, ControlSize
  <2> QED
    BY <2>2, FrameShape
<1>2. ASSUME NEW g \in Nat, g <= Len(script)
      PROVE /\ Rest(g) \in Seq(Seq(Nat)) /\ Len(Rest(g)) = Len(script) - g
            /\ \A i \in 1..(Len(script) - g) : Rest(g)[i] = Frame(g + i)
  <2>1. PICK m : m = Len(script) - g
    OBVIOUS
  <2>2. m \in Nat /\ \A i \in 1..m : g + i \in 1..Len(script)
    BY <1>0, <1>2, <2>1
  <2>3. Rest(g) = [i \in 1..m |-> Frame(g + i)]
    BY <2>1 DEF Rest
  <2>4. \A i \in 1..m : Frame(g + i) \in Seq(Nat)
    BY <1>1, <2>2
  <2>5. Rest(g) \in [1..m -> Seq(Nat)] /\ \A i \in 1..m : Rest(g)[i] = Frame(g + i)
    BY <2>3, <2>4
  <2>6. Rest(g) \in Seq(Seq(Nat))
    BY <2>2, <2>5, SeqDef
  <2>7. DOMAIN Rest(g) = 1..m /\ DOMAIN Rest(g) = 1..Len(Rest(g)) /\ Len(Rest(g)) \in Nat
    BY <2>5, <2>6, LenProperties
  <2>8. Len(Rest(g)) = m
    BY <2>2, <2>7
  <2> QED
    BY <2>1, <2>5, <2>6, <2>8
<1>3. ASSUME h < Len(script)
      PROVE  Frame(h + 1) \in Seq(Nat) /\ Rest(h + 1) \in Seq(Seq(Nat)) /\ Rest(h) = <<Frame(h + 1)>> \o Rest(h + 1)
  <2>1. h + 1 \in Nat /\ h + 1 <= Len(script) /\ h + 1 \in 1..Len(script)
    BY <1>0, <1>3
  <2>2. PICK one : one = <<Frame(h + 1)>>
    OBVIOUS
  <2>3. one \in Seq(Seq(Nat)) /\ Len(one) = 1 /\ one[1] = Frame(h + 1)
    BY <1>1, <2>1, <2>2
  <2>4. PICK more : more = Rest(h + 1)
    OBVIOUS
  <2>5. more \in Seq(Seq(Nat)) /\ Len(more) = Len(script) - (h + 1)
        /\ \A i \in 1..(Len(script) - (h + 1)) : more[i] = Frame((h + 1) + i)
    BY <1>2, <2>1, <2>4
  <2>6. PICK all : all = one \o more
    OBVIOUS
  <2>7. /\ all \in Seq(Seq(Nat)) /\ Len(all) = 1 + Len(more)
        /\ \A i \in 1..(1 + Len(more)) : all[i] = IF i <= 1 THEN one[i] ELSE more[i - 1]
    <3>1. /\ one \o more \in Seq(Seq(Nat)) /\ Len(one \o more) = Len(one) + Len(more)
          /\ \A i \in 1..(Len(one) + Len(more)) : (one \o more)[i] = IF i <= Len(one) THEN one[i] ELSE more[i - Len(one)]
      BY <2>3, <2>5, ConcatProperties
    <3> QED
      BY ONLY <2>3, <2>6, <3>1
  <2>8. PICK r : r = Rest(h)
    OBVIOUS
  <2>9. r \in Seq(Seq(Nat)) /\ Len(r) = Len(script) - h /\ \A i \in 1..(Len(script) - h) : r[i] = Frame(h + i)
    BY <1>2, <2>8
  <2>10. ASSUME NEW i \in 1..Len(r) PROVE r[i] = all[i]
    <3>1. i \in 1..(Len(script) - h) /\ i \in 1..(1 + Len(more))
      BY <1>0, <2>5, <2>9
    <3>2. CASE i <= 1
      <4>1. i = 1
        BY <3>1, <3>2
      <4> QED
        BY <2>3, <2>7, <2>9, <3>1, <4>1
    <3>3. CASE ~(i <= 1)
      <4>1. PICK j : j = i - 1
        OBVIOUS
      <4>2. j \in 1..(Len(script) - (h + 1)) /\ (h + 1) + j = h + i
        BY <1>0, <3>1, <3>3, <4>1
      <4>3. all[i] = more[j]
        BY <2>7, <3>1, <3>3, <4>1
      <4> QED
        BY <2>5, <2>9, <3>1, <4>2, <4>3
    <3> QED
      BY <3>2, <3>3
  <2>11. Len(r) = Len(all)
    BY <1>0, <2>5, <2>7, <2>9
  <2>12. r = all
    BY <2>7, <2>9, <2>10, <2>11, SeqEqual
  <2> QED
    BY <1>1, <2>1, <2>2, <2>4, <2>5, <2>6, <2>8, <2>12
<1>4. ASSUME h = Len(script) PROVE Rest(h) = <<>>
  <2>1. Rest(h) \in Seq(Seq(Nat)) /\ Len(Rest(h)) = Len(script) - h
    BY <1>2
  <2>2. Len(Rest(h)) = 0
    BY ONLY <1>0, <1>4, <2>1
  <2> QED
    BY <2>1, <2>2, EmptySeq
<1>5. h \in Nat /\ h <= Len(script)
  OBVIOUS
<1> QED
  BY <1>2, <1>3, <1>4, <1>5

MessageTaken(S, b, w, n) ==
    LET x == SubSeq(w, 1, n)
        y == SubSeq(w, n + 1, Len(w))
    IN x \in Seq(S) /\ y \in Seq(S) /\ Joined(b, x) \in Seq(S) /\ Joined(Joined(b, x), y) = Joined(b, w)

\* A message is taken off the wire.
LEMMA TakeMessage ==
    ASSUME NEW S, NEW b \in Seq(S), NEW w \in Seq(S), NEW n \in 1..Len(w)
    PROVE  MessageTaken(S, b, w, n)
<1>0. Len(w) \in Nat
  BY LenProperties
<1>1. PICK x, y : x = SubSeq(w, 1, n) /\ y = SubSeq(w, n + 1, Len(w))
  OBVIOUS
<1>2. \A i \in 1..Len(w) : w[i] \in S
  BY ElementOfSeq
<1>3. x \in Seq(S)
  <2>1. 1 \in Int /\ n \in Int /\ \A i \in 1..n : w[i] \in S
    BY <1>0, <1>2
  <2> QED
    BY <1>1, <2>1, SubSeqProperties
<1>4. y \in Seq(S)
  <2>1. n + 1 \in Int /\ Len(w) \in Int /\ \A i \in (n + 1)..Len(w) : w[i] \in S
    BY <1>0, <1>2
  <2> QED
    BY <1>1, <2>1, SubSeqProperties
<1>5. x \o y = w
  <2>1. 1 \in 1..(Len(w) + 1) /\ n \in (1 - 1)..Len(w) /\ Len(w) \in n..Len(w)
    BY <1>0
  <2>2. SubSeq(w, 1, n) \o SubSeq(w, n + 1, Len(w)) = SubSeq(w, 1, Len(w))
    BY <2>1, ConcatAdjacentSubSeq
  <2>3. SubSeq(w, 1, Len(w)) = w
    BY SubSeqFull
  <2> QED
    BY <1>1, <2>2, <2>3
<1>6. Joined(b, x) \in Seq(S)
  BY <1>3, ConcatProperties DEF Joined
<1>7. Joined(Joined(b, x), y) = Joined(b, Joined(x, y))
  BY <1>3, <1>4, JoinedAssociative
<1>8. Joined(x, y) = w
  BY ONLY <1>5, Zenon DEF Joined
<1>9. Joined(Joined(b, x), y) = Joined(b, w)
  BY ONLY <1>7, <1>8
<1> QED
  BY ONLY <1>1, <1>3, <1>4, <1>6, <1>9, Zenon DEF MessageTaken

FrameComes(i, v, data, later, others) ==
    /\ i \in Nat /\ v \in Nat /\ script[i].size = v
    /\ data \in Seq(Nat) /\ later \in Seq(Nat) /\ others \in Seq(Nat)
    /\ Joined(data, later) = Joined(Frame(i), others)

FrameSeen(i, v, data, n) ==
    /\ Len(Frame(i)) = n + 1 + v
    /\ data # <<>> => data[1] = i
    /\ IsWholeMqttPacket(data) = IF n + 2 <= Len(data) /\ n + 1 + v <= Len(data) THEN n + 1 + v ELSE 0

\* What is seen of the bytes when one frame, and others, are under way.
LEMMA SeenOfFrame ==
    ASSUME NEW i, NEW v, NEW data, NEW later, NEW others, FrameComes(i, v, data, later, others)
    PROVE  \E n \in Nat \ {0} : FrameSeen(i, v, data, n)
<1>0. /\ i \in Nat /\ v \in Nat /\ script[i].size = v
      /\ data \in Seq(Nat) /\ later \in Seq(Nat) /\ others \in Seq(Nat)
      /\ Joined(data, later) = Joined(Frame(i), others)
  BY Zenon DEF FrameComes
<1>1. PICK n \in Nat \ {0} :
        /\ SmallEndFirst(MqttLength(v), n, v)
        /\ Frame(i) \in Seq(Nat) /\ Len(Frame(i)) = n + 1 + v /\ Frame(i)[1] = i
        /\ \A k \in 2..(n + 1) : Frame(i)[k] = MqttLength(v)[k - 1]
  BY <1>0, FrameShape
<1>2. PICK f, L : f = Frame(i) /\ L = MqttLength(v)
  OBVIOUS
<1>3. f \in Seq(Nat) /\ Len(f) = n + 1 + v /\ Len(data) \in Nat /\ Len(later) \in Nat /\ Len(others) \in Nat
  BY <1>0, <1>1, <1>2, LenProperties
<1>4. ASSUME NEW k \in Nat, 1 <= k, k <= n + 1, k <= Len(data) PROVE data[k] = f[k]
  <2>1. k \in 1..(Len(data) + Len(later)) /\ k \in 1..(Len(f) + Len(others)) /\ k <= Len(f)
    BY <1>0, <1>3, <1>4
  <2>2. (data \o later)[k] = data[k]
    <3>1. \A j \in 1..(Len(data) + Len(later)) : (data \o later)[j] = IF j <= Len(data) THEN data[j] ELSE later[j - Len(data)]
      BY <1>0, ConcatProperties
    <3> QED
      BY ONLY <1>4, <2>1, <3>1
  <2>3. (f \o others)[k] = f[k]
    <3>1. \A j \in 1..(Len(f) + Len(others)) : (f \o others)[j] = IF j <= Len(f) THEN f[j] ELSE others[j - Len(f)]
      BY <1>0, <1>3, ConcatProperties
    <3> QED
      BY ONLY <1>4, <2>1, <3>1
  <2>4. data \o later = f \o others
    BY <1>0, <1>2, Zenon DEF Joined
  <2> QED
    BY ONLY <2>2, <2>3, <2>4
<1>5. data # <<>> => data[1] = i
  <2> SUFFICES ASSUME data # <<>> PROVE data[1] = i
    OBVIOUS
  <2>1. Len(data) \in Nat \ {0}
    BY <1>0, EmptySeq
  <2>2. data[1] = f[1]
    BY <1>4, <2>1
  <2> QED
    BY <1>1, <1>2, <2>2
<1>6. \A k \in 2..(n + 1) : k <= Len(data) => data[k] = L[k - 1]
  <2> SUFFICES ASSUME NEW k \in 2..(n + 1), k <= Len(data) PROVE data[k] = L[k - 1]
    OBVIOUS
  <2>1. f[k] = L[k - 1]
    BY <1>1, <1>2
  <2>2. k \in Nat /\ 1 <= k /\ k <= n + 1
    OBVIOUS
  <2> QED
    BY <1>4, <2>1, <2>2
<1>7. SmallEndFirst(L, n, v)
  BY <1>1, <1>2
<1>8. IsWholeMqttPacket(data) = IF n + 2 <= Len(data) /\ n + 1 + v <= Len(data) THEN n + 1 + v ELSE 0
  BY <1>0, <1>6, <1>7, WholePacket
<1> QED
  BY <1>1, <1>5, <1>8 DEF FrameSeen

LEMMA FramingStep ==
    ASSUME FramingInv, NEW n \in 1..Len(wire), ReadMessage(n)
    PROVE  /\ FramingInv'
           /\ \/ UNCHANGED <<handled, todo, contactVars>>
              \/ \E i \in DOMAIN script : MQTTHandlePacket(i)
<1> DEFINE data == Joined(wsBuffer, SubSeq(wire, 1, n))
           later == SubSeq(wire, n + 1, Len(wire))
           h == Len(handled)
<1>1. /\ script \in Seq(Controls) /\ handled \in Seq(Nat) /\ h <= Len(script)
      /\ \A i \in 1..h : handled[i] = i
      /\ wire \in Seq(Nat) /\ wsBuffer \in Seq(Nat) /\ wsBuffer \o wire = FlattenSeq(Rest(h))
      /\ whole => wsBuffer = <<>>
  BY DEF FramingInv
<1>2. Len(script) \in Nat /\ h \in Nat /\ Len(wire) \in Nat
  BY <1>1, LenProperties
<1>3. data \in Seq(Nat) /\ later \in Seq(Nat) /\ Joined(data, later) = Joined(wsBuffer, wire) /\ SubSeq(wire, 1, n) \in Seq(Nat)
  <2>1. wire \in Seq(Nat) /\ wsBuffer \in Seq(Nat) /\ n \in 1..Len(wire)
    BY <1>1
  <2> QED
    <3>1. MessageTaken(Nat, wsBuffer, wire, n)
      BY ONLY <2>1, TakeMessage
    <3> QED
      BY ONLY <3>1, Zenon DEF MessageTaken, data, later
<1>4. h < Len(script)
  <2> SUFFICES ASSUME h = Len(script) PROVE FALSE
    BY <1>1, <1>2
  <2>1. wsBuffer \o wire = <<>>
    BY <1>1, <1>2, RestFrames, FlattenEmpty
  <2>2. wire = <<>>
    BY <1>1, <2>1, ConcatSimplifications
  <2> QED
    BY <1>1, <1>2, <2>2, EmptySeq
<1>5. PICK i : i = h + 1
  OBVIOUS
<1>6. i \in Nat /\ i \in 1..Len(script) /\ i <= Len(script)
  BY <1>2, <1>4, <1>5
<1>7. PICK v : v = script[i].size
  OBVIOUS
<1>8. v \in Nat
  BY <1>1, <1>6, <1>7, ControlSize
<1>9. PICK others : others = FlattenSeq(Rest(i))
  OBVIOUS
<1>10. Frame(i) \in Seq(Nat) /\ others \in Seq(Nat) /\ FlattenSeq(Rest(h)) = Frame(i) \o others
  <2>1. Frame(i) \in Seq(Nat) /\ Rest(i) \in Seq(Seq(Nat)) /\ Rest(h) = <<Frame(i)>> \o Rest(i)
    BY <1>1, <1>2, <1>4, <1>5, RestFrames
  <2> QED
    BY <1>9, <2>1, FlattenFirst, FlattenType
<1>11. Joined(data, later) = Joined(Frame(i), others)
  <2>1. Joined(wsBuffer, wire) = Joined(Frame(i), others)
    BY <1>1, <1>10, Zenon DEF Joined
  <2> QED
    BY <1>3, <2>1
<1> HIDE DEF data, later
<1>12. PICK m \in Nat \ {0} : FrameSeen(i, v, data, m)
  <2>1. i \in Nat /\ v \in Nat /\ script[i].size = v /\ data \in Seq(Nat) /\ later \in Seq(Nat) /\ others \in Seq(Nat)
    BY <1>3, <1>6, <1>7, <1>8, <1>10
  <2>2. FrameComes(i, v, data, later, others)
    BY ONLY <1>11, <2>1, Zenon DEF FrameComes
  <2> QED
    BY ONLY <2>2, SeenOfFrame
<1> USE DEF FrameSeen
<1>13. PICK end : end = IsWholeMqttPacket(data)
  OBVIOUS
<1>14. Len(data) \in Nat
  BY <1>3, LenProperties
<1>15. /\ wire' = later /\ script' = script
       /\ whole' = (whole /\ \E j \in DOMAIN script : Frame(j) = SubSeq(wire, 1, n) /\ script[j].size > 0)
       /\ wsBuffer' = SubSeq(data, end + 1, Len(data))
       /\ end = 0 => handled' = handled
       /\ end # 0 => handled' = Append(handled, data[1])
  BY <1>13, Zenon DEF ReadMessage, MQTTHandlePacket, Joined, data, later
<1>16. /\ end = 0 => UNCHANGED <<handled, todo, contactVars>>
       /\ end # 0 => MQTTHandlePacket(data[1])
  BY <1>13, Zenon DEF ReadMessage, Joined, data
<1>17. whole' => end # 0 /\ data = Frame(i)
  <2> SUFFICES ASSUME whole' PROVE end # 0 /\ data = Frame(i)
    OBVIOUS
  <2>1. PICK j \in DOMAIN script : Frame(j) = SubSeq(wire, 1, n) /\ script[j].size > 0
    BY <1>15
  <2>2. wsBuffer = <<>>
    BY <1>1, <1>15
  <2>3. data = SubSeq(wire, 1, n)
    <3>1. PICK x : x = SubSeq(wire, 1, n)
      OBVIOUS
    <3>2. x \in Seq(Nat) /\ data = wsBuffer \o x
      BY <1>3, <3>1, Zenon DEF data, Joined
    <3>3. <<>> \o x = x
      BY <3>2, ConcatEmptySeq
    <3> QED
      BY ONLY <2>2, <3>1, <3>2, <3>3
  <2>4. data = Frame(j) /\ j \in 1..Len(script)
    BY <1>1, <2>1, <2>3, LenProperties
  <2>5. j \in Nat /\ script[j].size \in Nat
    BY <1>1, <2>4, ControlSize
  <2>6. PICK l \in Nat \ {0} : Len(data) = l + 1 + script[j].size /\ data[1] = j
    BY <2>4, <2>5, FrameShape
  <2>7. data # <<>>
    BY <2>5, <2>6, EmptySeq
  <2>8. j = i
    BY <1>12, <2>6, <2>7
  <2>9. data = Frame(i) /\ v > 0
    BY <1>7, <2>1, <2>4, <2>8
  <2>10. Len(data) = m + 1 + v
    BY <1>12, <2>9
  <2>11. m + 2 <= Len(data) /\ m + 1 + v # 0
    BY <1>8, <2>9, <2>10
  <2> QED
    BY <1>12, <1>13, <2>9, <2>10, <2>11
<1>18. CASE end = 0
  <2>1. wsBuffer' = data
    BY <1>3, <1>15, <1>18, SubSeqFull
  <2>2. handled' = handled /\ ~whole'
    BY <1>15, <1>17, <1>18
  <2>3. data \o later = FlattenSeq(Rest(h))
    <3>1. data \o later = Frame(i) \o others
      BY <1>11, Zenon DEF Joined
    <3> QED
      BY ONLY <1>10, <3>1
  <2>4. Rest(h)' = Rest(h)
    BY <1>15, <2>2 DEF Rest, Frame
  <2>5. wsBuffer' \o wire' = FlattenSeq(Rest(Len(handled)))'
    BY <1>15, <2>1, <2>2, <2>3, <2>4
  <2>6. FramingInv'
    BY <1>1, <1>3, <1>15, <2>1, <2>2, <2>5 DEF FramingInv
  <2> QED
    BY <1>18, <1>16, <2>6, Zenon
<1>19. CASE end # 0
  <2>1. end = m + 1 + v /\ end = Len(Frame(i)) /\ end <= Len(data) /\ Len(data) # 0
    BY <1>8, <1>12, <1>13, <1>14, <1>19
  <2>2. data # <<>>
    BY <2>1, EmptySeq
  <2>3. handled' = Append(handled, i)
    BY <1>12, <1>15, <1>19, <2>2
  <2>4. /\ handled' \in Seq(Nat) /\ Len(handled') = i
        /\ \A k \in 1..i : handled'[k] = k
    <3>1. /\ Append(handled, i) \in Seq(Nat) /\ Len(Append(handled, i)) = h + 1
          /\ \A k \in 1..h : Append(handled, i)[k] = handled[k]
          /\ Append(handled, i)[h + 1] = i
      BY <1>1, <1>6, AppendProperties
    <3>2. \A k \in 1..i : k = i \/ k \in 1..h
      BY <1>2, <1>5
    <3> QED
      BY <1>1, <1>5, <2>3, <3>1, <3>2
  <2>5. wsBuffer' \in Seq(Nat) /\ wsBuffer' \o later = others
    <3>1. PICK frame : frame = Frame(i)
      OBVIOUS
    <3>2. /\ SubSeq(data, Len(frame) + 1, Len(data)) \in Seq(Nat)
          /\ Joined(SubSeq(data, Len(frame) + 1, Len(data)), later) = others
      <4>1. frame \in Seq(Nat) /\ Joined(data, later) = Joined(frame, others) /\ Len(frame) <= Len(data)
        BY <1>10, <1>11, <2>1, <3>1
      <4> QED
        <5>1. others \in Seq(Nat) /\ data \in Seq(Nat) /\ later \in Seq(Nat)
          BY <1>3, <1>10
        <5> QED
          BY ONLY <4>1, <5>1, DropPrefix
    <3>3. wsBuffer' \in Seq(Nat) /\ Joined(wsBuffer', later) = others
      BY ONLY <1>15, <2>1, <3>1, <3>2
    <3> QED
      BY ONLY <3>3, Zenon DEF Joined
  <2>6. FlattenSeq(Rest(Len(handled)))' = others
    <3>1. Rest(i)' = Rest(i)
      BY <1>15 DEF Rest, Frame
    <3> QED
      BY <1>9, <2>4, <3>1
  <2>7. whole' => wsBuffer' = <<>>
    <3> SUFFICES ASSUME whole' PROVE wsBuffer' = <<>>
      OBVIOUS
    <3>1. end = Len(data)
      BY <1>17, <2>1
    <3>2. end + 1 \in Int /\ end \in Int /\ end < end + 1
      BY <1>14, <3>1
    <3>3. SubSeq(data, end + 1, end) = <<>>
      BY <3>2, SubSeqEmpty
    <3> QED
      BY <1>15, <3>1, <3>3
  <2>8. wsBuffer' \o wire' = FlattenSeq(Rest(Len(handled)))'
    BY <1>15, <2>5, <2>6
  <2>9. FramingInv'
    BY <1>1, <1>3, <1>6, <1>15, <2>4, <2>5, <2>7, <2>8 DEF FramingInv
  <2>10. MQTTHandlePacket(i)
    <3>1. data[1] = i
      BY <1>12, <2>2
    <3> QED
      BY ONLY <1>19, <1>16, <3>1
  <2>11. i \in DOMAIN script
    BY <1>1, <1>6, LenProperties
  <2> QED
    BY <2>9, <2>10, <2>11, Zenon
<1> QED
  BY <1>18, <1>19

----------------------------------------------------------------------------
(* Frames in order *)

LEMMA FramingInit ==
    ASSUME Init
    PROVE  FramingInv
<1>1. script \in Seq(Controls)
  <2>1. script = <<>> \/ script \in Scripts
    BY DEF Init
  <2> QED
    BY <2>1, ScriptsAssumption, EmptySeq
<1>2. Len(script) \in Nat /\ DOMAIN script = 1..Len(script)
  BY <1>1, LenProperties
<1>3. handled = <<>> /\ wsBuffer = <<>> /\ wire = FlattenSeq([i \in DOMAIN script |-> Frame(i)])
  BY DEF Init
<1>4. handled \in Seq(Nat) /\ wsBuffer \in Seq(Nat) /\ Len(handled) = 0
  BY <1>3, EmptySeq
<1>5. Rest(0) = [i \in DOMAIN script |-> Frame(i)]
  <2>1. PICK m : m = Len(script)
    OBVIOUS
  <2>2. m - 0 = m /\ \A i \in 1..m : 0 + i = i
    BY <1>2, <2>1
  <2> QED
    BY <1>2, <2>1, <2>2 DEF Rest
<1>6. Rest(0) \in Seq(Seq(Nat))
  <2>1. 0 \in Nat /\ 0 <= Len(script)
    BY <1>2
  <2> QED
    BY <1>1, <2>1, RestFrames
<1>7. wire \in Seq(Nat) /\ wire = FlattenSeq(Rest(0))
  BY <1>3, <1>5, <1>6, FlattenType
<1>8. wsBuffer \o wire = FlattenSeq(Rest(Len(handled)))
  <2>1. <<>> \o wire = wire
    BY <1>7, ConcatEmptySeq
  <2> QED
    BY ONLY <1>3, <1>4, <1>7, <2>1
<1> QED
  BY <1>1, <1>2, <1>3, <1>4, <1>7, <1>8 DEF FramingInv

LEMMA FramingNext ==
    ASSUME FramingInv, [Next]_vars
    PROVE  FramingInv'
<1>1. CASE UNCHANGED <<script, wire, wsBuffer, handled, whole>>
  <2>1. Rest(Len(handled))' = Rest(Len(handled))
    BY <1>1 DEF Rest, Frame
  <2> QED
    BY <1>1, <2>1 DEF FramingInv
<1>2. CASE \E n \in 1..Len(wire) : ReadMessage(n)
  BY <1>2, FramingStep
<1> QED
  BY <1>1, <1>2, Zenon DEF Next, WebSocketLoop, PushPacketUpFromBottom, PushInVain, MakeErrorAndDisconnect, Deliver, vars, socketVars

LEMMA FramingImplies ==
    ASSUME FramingInv
    PROVE  FramesInOrder
<1>1. handled \in Seq(Nat) /\ \A i \in 1..Len(handled) : handled[i] = i
  BY DEF FramingInv
<1>2. handled = [i \in DOMAIN handled |-> i]
  <2>1. handled \in [1..Len(handled) -> Nat] /\ DOMAIN handled = 1..Len(handled)
    BY <1>1, LenProperties
  <2> QED
    BY <1>1, <2>1
<1> QED
  BY <1>2 DEF FramingInv, FramesInOrder, Rest

\* However the web socket cuts the bytes, the packets are handled in order and
\* what is left is the rest of the bytes (WebSocketLoop).
THEOREM FramesTheorem == Spec => []FramesInOrder
<1>1. Spec => []FramingInv
  BY FramingInit, FramingNext, PTL DEF Spec
<1>2. FramingInv => FramesInOrder
  BY FramingImplies
<1> QED
  BY <1>1, <1>2, PTL

----------------------------------------------------------------------------
(* Subscriptions *)

\* Whether the last of the packets p about a topic is a subscribe.
Above(p, topic) ==
    \E i \in DOMAIN p : /\ p[i].cmd = "S" /\ About(p[i], topic)
                        /\ \A j \in DOMAIN p : j > i => ~About(p[j], topic)

\* Packets about other topics do not change it.
LEMMA AboveOthers ==
    ASSUME NEW S, NEW p \in Seq(S), NEW q \in Seq(S), NEW t, \A k \in 1..Len(q) : ~About(q[k], t)
    PROVE  Above(p \o q, t) <=> Above(p, t)
<1>1. PICK r : r = p \o q
  OBVIOUS
<1>2. Len(p) \in Nat /\ Len(q) \in Nat /\ DOMAIN p = 1..Len(p)
  BY LenProperties
<1>3. /\ r \in Seq(S) /\ Len(r) = Len(p) + Len(q)
      /\ \A i \in 1..(Len(p) + Len(q)) : r[i] = IF i <= Len(p) THEN p[i] ELSE q[i - Len(p)]
  BY <1>1, ConcatProperties
<1>4. DOMAIN r = 1..(Len(p) + Len(q))
  BY <1>3, LenProperties
<1>5. \A i \in DOMAIN p : i \in DOMAIN r /\ r[i] = p[i]
  BY <1>2, <1>3, <1>4
<1>6. ASSUME NEW i \in DOMAIN r, About(r[i], t) PROVE i \in DOMAIN p
  <2> SUFFICES ASSUME ~(i <= Len(p)) PROVE FALSE
    BY <1>2, <1>4
  <2>1. PICK k : k = i - Len(p)
    OBVIOUS
  <2>2. k \in 1..Len(q) /\ r[i] = q[k]
    BY <1>2, <1>3, <1>4, <2>1
  <2> QED
    BY <1>6, <2>2
<1>7. Above(r, t) => Above(p, t)
  BY <1>5, <1>6 DEF Above
<1>8. Above(p, t) => Above(r, t)
  BY <1>5, <1>6 DEF Above
<1> QED
  BY <1>1, <1>7, <1>8

\* The last packet about the topic decides.
LEMMA AboveAfter ==
    ASSUME NEW S, NEW p \in Seq(S), NEW q \in Seq(S), NEW t, NEW k \in 1..Len(q), About(q[k], t),
           \A j \in 1..Len(q) : j > k => ~About(q[j], t)
    PROVE  Above(p \o q, t) <=> q[k].cmd = "S"
<1>1. PICK r : r = p \o q
  OBVIOUS
<1>2. Len(p) \in Nat /\ Len(q) \in Nat
  BY LenProperties
<1>3. /\ r \in Seq(S) /\ Len(r) = Len(p) + Len(q)
      /\ \A i \in 1..(Len(p) + Len(q)) : r[i] = IF i <= Len(p) THEN p[i] ELSE q[i - Len(p)]
  BY <1>1, ConcatProperties
<1>4. DOMAIN r = 1..(Len(p) + Len(q))
  BY <1>3, LenProperties
<1>5. PICK m : m = Len(p) + k
  OBVIOUS
<1>6. m \in DOMAIN r /\ r[m] = q[k] /\ m \in Nat
  <2>1. m \in 1..(Len(p) + Len(q)) /\ ~(m <= Len(p)) /\ m - Len(p) = k
    BY <1>2, <1>5
  <2>2. r[m] = q[m - Len(p)]
    BY ONLY <1>3, <2>1
  <2> QED
    BY <1>4, <2>1, <2>2
<1>7. ASSUME NEW j \in DOMAIN r, j > m PROVE ~About(r[j], t)
  <2>1. PICK l : l = j - Len(p)
    OBVIOUS
  <2>2. l \in 1..Len(q) /\ l > k /\ ~(j <= Len(p)) /\ j \in 1..(Len(p) + Len(q))
    BY <1>2, <1>4, <1>5, <1>7, <2>1
  <2>3. r[j] = q[l]
    BY <1>3, <2>1, <2>2
  <2> QED
    BY <2>2, <2>3
<1>8. q[k].cmd = "S" => Above(r, t)
  BY <1>6, <1>7 DEF Above
<1>9. ASSUME Above(r, t) PROVE q[k].cmd = "S"
  <2>1. PICK i \in DOMAIN r : /\ r[i].cmd = "S" /\ About(r[i], t)
                              /\ \A j \in DOMAIN r : j > i => ~About(r[j], t)
    BY <1>9 DEF Above
  <2>2. ~(m > i) /\ ~(i > m)
    BY <1>6, <1>7, <2>1
  <2>3. i = m
    BY <1>2, <1>4, <1>6, <2>2
  <2> QED
    BY <1>6, <2>1, <2>3
<1> QED
  BY <1>1, <1>8, <1>9

\* What the control packets of a script send up.
Items == UNION {Range(Pushes(script[i])) : i \in DOMAIN script}
Sent == {x.packet : x \in Items}

\* A subscribe or its opposite is about its topic, one of those of c.
OwnTopic(c, x) == x.topic \in Range(c.topics) /\ x.packet.address = Binary(FromBytes(x.topic))

LEMMA PerTopicItems ==
    ASSUME NEW c \in Controls, NEW cmd
    PROVE  /\ PerTopic(c, cmd) \in Seq(Range(PerTopic(c, cmd)))
           /\ \A x \in Range(PerTopic(c, cmd)) : x.packet.cmd = cmd /\ OwnTopic(c, x)
<1>1. c.topics \in Seq(Bytes)
  BY DEF Controls
<1>2. PICK n : n = Len(c.topics)
  OBVIOUS
<1>3. n \in Nat /\ DOMAIN c.topics = 1..n
  BY <1>1, <1>2, LenProperties
<1>4. PICK q : q = PerTopic(c, cmd)
  OBVIOUS
<1>5. DOMAIN q = 1..n /\ \A k \in 1..n : /\ q[k].packet.cmd = cmd /\ q[k].packet.address = Binary(FromBytes(c.topics[k]))
                                         /\ q[k].topic = c.topics[k]
  BY <1>3, <1>4, Zenon DEF PerTopic
<1>6. q \in Seq(Range(q))
  <2>1. q = [k \in 1..n |-> q[k]]
    <3>1. q = [k \in DOMAIN c.topics |-> q[k]]
      BY <1>4 DEF PerTopic
    <3> QED
      BY <1>3, <3>1
  <2>2. q \in [1..n -> Range(q)]
    BY <1>5, <2>1 DEF Range
  <2> QED
    BY <1>3, <2>2, SeqDef
<1>7. ASSUME NEW x \in Range(q) PROVE x.packet.cmd = cmd /\ OwnTopic(c, x)
  <2>1. PICK k \in 1..n : x = q[k]
    BY <1>5 DEF Range
  <2>2. c.topics[k] \in Range(c.topics)
    BY <1>3 DEF Range
  <2> QED
    BY <1>5, <2>1, <2>2, Zenon DEF OwnTopic
<1> QED
  BY <1>4, <1>6, <1>7

\* What a control packet sends up is a sequence; what is about a topic has it,
\* and a publish comes of a publish.
LEMMA PushesItems ==
    ASSUME NEW c \in Controls
    PROVE  /\ Pushes(c) \in Seq(Range(Pushes(c)))
           /\ \A x \in Range(Pushes(c)) :
                 /\ x.packet.cmd \in {"S", "U"} => OwnTopic(c, x)
                 /\ x.packet.cmd = "P" => c.type = "publish" /\ x.packet = Published(c)
<1>1. ASSUME NEW y, Pushes(c) = <<y>> PROVE Pushes(c) \in Seq(Range(Pushes(c))) /\ Range(Pushes(c)) = {y}
  <2>1. PICK q : q = <<y>>
    OBVIOUS
  <2>2. q \in Seq({y}) /\ DOMAIN q = {1} /\ q[1] = y
    BY <2>1
  <2>3. Range(q) = {y}
    BY <2>2 DEF Range
  <2> QED
    BY <1>1, <2>1, <2>2, <2>3
<1>2. CASE c.type = "connect"
  <2>1. PICK y : Pushes(c) = <<y>> /\ y.packet.cmd = "C"
    BY <1>2 DEF Pushes
  <2> QED
    BY <1>1, <2>1
<1>3. CASE c.type = "publish"
  <2>1. PICK p : p = Published(c)
    OBVIOUS
  <2>2. PICK y : Pushes(c) = <<y>> /\ y.packet = p
    <3>1. PICK z : z = [packet |-> p, topic |-> <<>>]
      OBVIOUS
    <3>2. Pushes(c) = <<z>>
      BY <1>3, <2>1, <3>1 DEF Pushes
    <3> QED
      BY <3>1, <3>2
  <2>3. p.cmd \in {"P", "L"}
    BY <2>1 DEF Published
  <2> QED
    BY <1>1, <1>3, <2>1, <2>2, <2>3
<1>4. CASE c.type = "subscribe"
  <2>1. Pushes(c) = PerTopic(c, "S")
    BY <1>4 DEF Pushes
  <2> QED
    BY <2>1, PerTopicItems
<1>5. CASE c.type = "unsub"
  <2>1. Pushes(c) = PerTopic(c, "U")
    BY <1>5 DEF Pushes
  <2> QED
    BY <2>1, PerTopicItems
<1>6. CASE c.type \notin {"connect", "publish", "subscribe", "unsub"}
  <2>1. Pushes(c) = <<>>
    BY <1>6 DEF Pushes
  <2>2. <<>> \in Seq(Range(Pushes(c))) /\ Range(<<>>) = {}
    BY EmptySeq DEF Range
  <2> QED
    BY <2>1, <2>2
<1> QED
  BY <1>2, <1>3, <1>4, <1>5, <1>6

TopicsOf == UNION {Range(script[i].topics) : i \in DOMAIN script}

\* Where an item comes from.
LEMMA ItemOrigin ==
    ASSUME script \in Seq(Controls), NEW x \in Items
    PROVE  /\ \E i \in DOMAIN script : script[i] \in Controls /\ x \in Range(Pushes(script[i]))
           /\ x.packet \in Sent
           /\ x.packet.cmd \in {"S", "U"} => x.topic \in TopicsOf /\ x.packet.address = Binary(FromBytes(x.topic))
<1>1. PICK i \in DOMAIN script : x \in Range(Pushes(script[i]))
  BY DEF Items
<1>2. script[i] \in Controls
  BY LenProperties, ElementOfSeq
<1>3. x.packet \in Sent
  BY DEF Sent
<1>4. x.packet.cmd \in {"S", "U"} => OwnTopic(script[i], x)
  BY <1>1, <1>2, PushesItems
<1>5. Range(script[i].topics) \subseteq TopicsOf
  BY DEF TopicsOf
<1> QED
  BY <1>1, <1>2, <1>3, <1>4, <1>5 DEF OwnTopic

AckKinds == {"connack", "suback", "pingresp", "disconnect"}

\* The list has a topic just if the last packet about it is a subscribe, but
\* for the topic of a packet that waits for a contact that is closed.
TopicsAgree(topics, up, hanging, item) ==
    \A t \in TopicsOf : (hanging /\ About(item.packet, t)) \/ (t \in topics <=> Above(up, t))

SubscriptionInv ==
    /\ script \in Scripts \cup {<<>>}
    /\ subscriptions \subseteq TopicsOf
    /\ todo \in Seq(Items) /\ pushed \in Seq(Sent) /\ acks \in Seq(AckKinds)
    /\ checkedIn \in BOOLEAN /\ refused \in BOOLEAN /\ closed \in BOOLEAN /\ stuck \in BOOLEAN
    /\ stuck => closed
    /\ TopicsAgree(subscriptions, pushed, stuck /\ todo # <<>>, Head(todo))

\* The script never changes.
LEMMA SameScript ==
    ASSUME script' = script
    PROVE  TopicsOf' = TopicsOf /\ Items' = Items /\ Sent' = Sent
<1>1. TopicsOf' = TopicsOf
  BY DEF TopicsOf
<1>2. Items' = Items
  BY DEF Items
<1> QED
  BY <1>1, <1>2 DEF Sent

\* Two topics of a script that are one topic in the lookup table are the same.
LEMMA OneName ==
    ASSUME SubscriptionInv, NEW t \in TopicsOf, NEW u \in TopicsOf, Binary(FromBytes(t)) = Binary(FromBytes(u))
    PROVE  t = u
<1>1. PICK i \in DOMAIN script : t \in Range(script[i].topics)
  BY DEF TopicsOf
<1>2. PICK j \in DOMAIN script : u \in Range(script[j].topics)
  BY DEF TopicsOf
<1>3. script \in Scripts
  BY <1>1 DEF SubscriptionInv
<1> QED
  BY <1>1, <1>2, <1>3, TopicsAssumption

\* An answer is one of a few.
LEMMA AnswersAcks ==
    ASSUME acks \in Seq(AckKinds), NEW i, NEW rest
    PROVE  Answered(i, rest) \in Seq(AckKinds)
<1>1. PICK c : c = script[i]
  OBVIOUS
<1>2. \A x \in AckKinds : <<x>> \in Seq(AckKinds)
  OBVIOUS
<1>3. Answers(c) \in {<<"connack">>, <<"suback">>, <<"pingresp">>, <<>>}
  BY DEF Answers
<1>4. Answers(c) \in Seq(AckKinds)
  BY <1>2, <1>3, EmptySeq DEF AckKinds
<1>5. acks \o Answers(c) \in Seq(AckKinds)
  BY <1>4, ConcatProperties
<1> QED
  BY <1>1, <1>5 DEF Answered

\* A control packet is handled.
LEMMA HandledStep ==
    ASSUME script \in Seq(Controls), SubscriptionInv, ~stuck, NEW i \in DOMAIN script,
           MQTTHandlePacket(i), script' = script
    PROVE  SubscriptionInv'
<1>1. /\ UNCHANGED <<subscriptions, pushed, checkedIn, refused>> /\ todo' = Pushes(script[i]) /\ acks' = Answered(i, todo')
      /\ closed' \in BOOLEAN /\ stuck' \in BOOLEAN /\ (stuck' => closed')
  BY DEF MQTTHandlePacket, SubscriptionInv
<1>2. Pushes(script[i]) \in Seq(Items)
  <2>1. script[i] \in Controls
    BY LenProperties, ElementOfSeq
  <2>2. Pushes(script[i]) \in Seq(Range(Pushes(script[i])))
    BY <2>1, PushesItems
  <2>3. Range(Pushes(script[i])) \subseteq Items
    BY DEF Items
  <2> QED
    BY <2>2, <2>3, SeqMonotonic
<1>3. acks' \in Seq(AckKinds)
  BY <1>1, AnswersAcks DEF SubscriptionInv
<1>4. \A t \in TopicsOf : t \in subscriptions <=> Above(pushed, t)
  BY DEF SubscriptionInv, TopicsAgree
<1>5. TopicsAgree(subscriptions', pushed', (stuck /\ todo # <<>>)', Head(todo)')
  BY <1>1, <1>4 DEF TopicsAgree
<1>6. TopicsAgree(subscriptions, pushed, stuck /\ todo # <<>>, Head(todo))'
  BY <1>5, SameScript DEF TopicsAgree, Above, About
<1> QED
  BY <1>1, <1>2, <1>3, <1>6, SameScript, Zenon DEF SubscriptionInv

\* What is pushed is the next item.
LEMMA NextItem ==
    ASSUME script \in Seq(Controls), SubscriptionInv, todo # <<>>
    PROVE  /\ Head(todo) \in Items /\ Tail(todo) \in Seq(Items)
           /\ TopicsAfter(Head(todo)) \subseteq TopicsOf
           /\ \A t \in TopicsOf : About(Head(todo).packet, t) => t = Head(todo).topic
           /\ \A t \in TopicsOf : ~About(Head(todo).packet, t) => (t \in TopicsAfter(Head(todo)) <=> t \in subscriptions)
<1>1. Head(todo) \in Items /\ Tail(todo) \in Seq(Items)
  BY HeadTailProperties DEF SubscriptionInv
<1>2. PICK x : x = Head(todo)
  OBVIOUS
<1>3. x \in Items /\ (x.packet.cmd \in {"S", "U"} => x.topic \in TopicsOf /\ x.packet.address = Binary(FromBytes(x.topic)))
  BY <1>1, <1>2, ItemOrigin
<1>4. TopicsAfter(x) \subseteq TopicsOf
  BY <1>3 DEF TopicsAfter, SubscriptionInv
<1>5. ASSUME NEW t \in TopicsOf, About(x.packet, t) PROVE t = x.topic
  <2>1. x.packet.cmd \in {"S", "U"} /\ x.packet.address = Binary(FromBytes(t))
    BY <1>5 DEF About
  <2> QED
    BY <1>3, <2>1, OneName
<1>6. ASSUME NEW t \in TopicsOf, ~About(x.packet, t) PROVE t \in TopicsAfter(x) <=> t \in subscriptions
  <2>1. x.packet.cmd \in {"S", "U"} => t # x.topic
    BY <1>3, <1>6 DEF About
  <2> QED
    BY <2>1 DEF TopicsAfter
<1> QED
  BY <1>1, <1>2, <1>4, <1>5, <1>6

LEMMA PushedStep ==
    ASSUME script \in Seq(Controls), SubscriptionInv, PushPacketUpFromBottom
    PROVE  SubscriptionInv'
<1>1. PICK x : x = Head(todo)
  OBVIOUS
<1>2. /\ todo # <<>> /\ ~closed /\ subscriptions' = TopicsAfter(x) /\ pushed' = Append(pushed, x.packet)
      /\ todo' = Tail(todo) /\ acks' = Answered(Last(handled), todo') /\ script' = script /\ closed' = closed /\ stuck' = stuck
  BY <1>1 DEF PushPacketUpFromBottom
<1>3. checkedIn' \in BOOLEAN /\ refused' \in BOOLEAN
  <2>1. ExpectToken(x.packet)
    BY <1>1 DEF PushPacketUpFromBottom
  <2> QED
    BY <2>1 DEF ExpectToken, SubscriptionInv
<1>4. /\ x \in Items /\ todo' \in Seq(Items) /\ subscriptions' \subseteq TopicsOf /\ x.packet \in Sent
      /\ \A t \in TopicsOf : About(x.packet, t) => t = x.topic
      /\ \A t \in TopicsOf : ~About(x.packet, t) => (t \in TopicsAfter(x) <=> t \in subscriptions)
  BY <1>1, <1>2, NextItem, ItemOrigin
<1>5. pushed \in Seq(Sent) /\ ~stuck /\ \A t \in TopicsOf : t \in subscriptions <=> Above(pushed, t)
  BY <1>2 DEF SubscriptionInv, TopicsAgree
<1>6. PICK p, q : p = x.packet /\ q = <<p>>
  OBVIOUS
<1>7. q \in Seq(Sent) /\ Len(q) = 1 /\ q[1] = p /\ \A k \in 1..Len(q) : k = 1
  BY <1>4, <1>6
<1>8. pushed' = pushed \o q /\ pushed' \in Seq(Sent)
  BY <1>2, <1>4, <1>5, <1>6, <1>7, AppendIsConcat, AppendProperties
<1>9. ASSUME NEW t \in TopicsOf PROVE t \in subscriptions' <=> Above(pushed', t)
  <2>1. CASE About(p, t)
    <3>1. Above(pushed \o q, t) <=> p.cmd = "S"
      <4>1. 1 \in 1..Len(q) /\ About(q[1], t) /\ \A k \in 1..Len(q) : k > 1 => ~About(q[k], t)
        BY <1>7, <2>1
      <4> QED
        BY <1>5, <1>7, <4>1, AboveAfter
    <3>2. t = x.topic /\ p.cmd \in {"S", "U"}
      BY <1>4, <1>6, <2>1 DEF About
    <3>3. t \in TopicsAfter(x) <=> p.cmd = "S"
      BY <1>6, <3>2 DEF TopicsAfter
    <3> QED
      BY <1>2, <1>8, <3>1, <3>3
  <2>2. CASE ~About(p, t)
    <3>1. Above(pushed \o q, t) <=> Above(pushed, t)
      <4>1. \A k \in 1..Len(q) : ~About(q[k], t)
        BY <1>7, <2>2
      <4> QED
        BY <1>5, <1>7, <4>1, AboveOthers
    <3> QED
      BY <1>2, <1>4, <1>5, <1>6, <1>8, <2>2, <3>1
  <2> QED
    BY <2>1, <2>2
<1>10. acks' \in Seq(AckKinds)
  BY <1>2, AnswersAcks DEF SubscriptionInv
<1>11. TopicsAgree(subscriptions, pushed, stuck /\ todo # <<>>, Head(todo))'
  BY <1>2, <1>9, SameScript DEF TopicsAgree, Above, About
<1>12. closed' \in BOOLEAN /\ stuck' \in BOOLEAN /\ (stuck' => closed') /\ script' \in Scripts \cup {<<>>}
  BY <1>2 DEF SubscriptionInv
<1> QED
  BY <1>2, <1>3, <1>4, <1>8, <1>10, <1>11, <1>12, SameScript, Zenon DEF SubscriptionInv

LEMMA VainStep ==
    ASSUME script \in Seq(Controls), SubscriptionInv, PushInVain
    PROVE  SubscriptionInv'
<1>1. PICK x : x = Head(todo)
  OBVIOUS
<1>2. /\ todo # <<>> /\ closed /\ ~stuck /\ subscriptions' = TopicsAfter(x) /\ stuck' = TRUE
      /\ script' = script /\ todo' = todo /\ pushed' = pushed /\ acks' = acks
      /\ checkedIn' = checkedIn /\ refused' = refused /\ closed' = closed
  BY <1>1 DEF PushInVain
<1>3. /\ subscriptions' \subseteq TopicsOf
      /\ \A t \in TopicsOf : ~About(x.packet, t) => (t \in TopicsAfter(x) <=> t \in subscriptions)
  BY <1>1, <1>2, NextItem
<1>4. \A t \in TopicsOf : t \in subscriptions <=> Above(pushed, t)
  BY <1>2 DEF SubscriptionInv, TopicsAgree
<1>5. \A t \in TopicsOf : About(x.packet, t) \/ (t \in subscriptions' <=> Above(pushed', t))
  BY <1>2, <1>3, <1>4
<1>6. TopicsAgree(subscriptions, pushed, stuck /\ todo # <<>>, Head(todo))'
  BY <1>1, <1>2, <1>5, SameScript DEF TopicsAgree, Above, About
<1>7. /\ script \in Scripts \cup {<<>>} /\ todo \in Seq(Items) /\ pushed \in Seq(Sent) /\ acks \in Seq(AckKinds)
      /\ checkedIn \in BOOLEAN /\ refused \in BOOLEAN
  BY DEF SubscriptionInv
<1> QED
  BY <1>2, <1>3, <1>6, <1>7, SameScript, Zenon DEF SubscriptionInv

LEMMA DisconnectStep ==
    ASSUME SubscriptionInv, MakeErrorAndDisconnect
    PROVE  SubscriptionInv'
<1>1. /\ refused' = FALSE /\ closed' = TRUE /\ acks' \in {acks, Append(acks, "disconnect")}
      /\ script' = script /\ todo' = todo /\ subscriptions' = subscriptions /\ pushed' = pushed
      /\ checkedIn' = checkedIn /\ stuck' = stuck
  BY DEF MakeErrorAndDisconnect
<1>2. acks' \in Seq(AckKinds)
  <2>1. "disconnect" \in AckKinds /\ acks \in Seq(AckKinds)
    BY DEF AckKinds, SubscriptionInv
  <2> QED
    BY <1>1, <2>1, AppendProperties
<1>3. TopicsAgree(subscriptions, pushed, stuck /\ todo # <<>>, Head(todo))'
  BY <1>1, SameScript DEF TopicsAgree, Above, About, SubscriptionInv
<1>4. /\ script \in Scripts \cup {<<>>} /\ subscriptions \subseteq TopicsOf /\ todo \in Seq(Items) /\ pushed \in Seq(Sent)
      /\ checkedIn \in BOOLEAN /\ stuck \in BOOLEAN
  BY DEF SubscriptionInv
<1> QED
  BY <1>1, <1>2, <1>3, <1>4, SameScript, Zenon DEF SubscriptionInv

\* A step that leaves the contact alone.
LEMMA SameContact ==
    ASSUME SubscriptionInv, script' = script, UNCHANGED <<todo, contactVars>>
    PROVE  SubscriptionInv'
<1>1. /\ todo' = todo /\ subscriptions' = subscriptions /\ pushed' = pushed /\ acks' = acks
      /\ checkedIn' = checkedIn /\ refused' = refused /\ closed' = closed /\ stuck' = stuck
  BY DEF contactVars
<1>2. TopicsAgree(subscriptions, pushed, stuck /\ todo # <<>>, Head(todo))'
  BY <1>1, SameScript DEF TopicsAgree, Above, About, SubscriptionInv
<1>3. /\ script \in Scripts \cup {<<>>} /\ subscriptions \subseteq TopicsOf /\ todo \in Seq(Items) /\ pushed \in Seq(Sent)
      /\ acks \in Seq(AckKinds) /\ checkedIn \in BOOLEAN /\ refused \in BOOLEAN /\ closed \in BOOLEAN /\ stuck \in BOOLEAN
      /\ stuck => closed
  BY DEF SubscriptionInv
<1> QED
  BY <1>1, <1>2, <1>3, SameScript, Zenon DEF SubscriptionInv

SocketInv == FramingInv /\ SubscriptionInv

LEMMA SocketInit ==
    ASSUME Init
    PROVE  SocketInv
<1>1. /\ script \in Scripts \cup {<<>>} /\ subscriptions = {} /\ pushed = <<>> /\ acks = <<>> /\ todo = <<>>
      /\ checkedIn = FALSE /\ refused = FALSE /\ closed = FALSE /\ stuck = FALSE
  BY DEF Init
<1>2. \A t : ~Above(<<>>, t)
  BY DEF Above
<1>3. pushed \in Seq(Sent) /\ acks \in Seq(AckKinds) /\ todo \in Seq(Items)
  BY <1>1, EmptySeq
<1>4. SubscriptionInv
  BY <1>1, <1>2, <1>3 DEF SubscriptionInv, TopicsAgree
<1> QED
  BY <1>4, FramingInit DEF SocketInv

LEMMA SocketNext ==
    ASSUME SocketInv, [Next]_vars
    PROVE  SocketInv'
<1>1. FramingInv'
  BY FramingNext DEF SocketInv
<1>2. SubscriptionInv /\ FramingInv /\ script \in Seq(Controls)
  BY DEF SocketInv, FramingInv
<1>3. ASSUME UNCHANGED socketVars PROVE SubscriptionInv'
  BY <1>2, <1>3, SameContact DEF socketVars
<1>4. ASSUME NEW n \in 1..Len(wire), ReadMessage(n) PROVE SubscriptionInv'
  <2>1. \/ UNCHANGED <<handled, todo, contactVars>>
        \/ \E i \in DOMAIN script : MQTTHandlePacket(i)
    BY <1>2, <1>4, FramingStep
  <2>2. ~stuck /\ script' = script
    BY <1>4 DEF ReadMessage
  <2> QED
    BY <1>2, <2>1, <2>2, SameContact, HandledStep
<1>5. SubscriptionInv'
  <2>1. CASE WebSocketLoop \/ MakeErrorAndDisconnect
    BY <1>2, <1>4, <2>1, PushedStep, VainStep, DisconnectStep DEF WebSocketLoop
  <2>2. \/ WebSocketLoop \/ MakeErrorAndDisconnect
        \/ UNCHANGED socketVars
    BY DEF Next, Deliver, vars
  <2> QED
    BY <1>3, <2>1, <2>2
<1> QED
  BY <1>1, <1>5 DEF SocketInv

LEMMA SocketImplies ==
    ASSUME SocketInv
    PROVE  SubscriptionsAgree
<1>1. \A t \in TopicsOf : (stuck /\ todo # <<>> /\ About(Head(todo).packet, t)) \/ (t \in subscriptions <=> Above(pushed, t))
  BY DEF SocketInv, SubscriptionInv, TopicsAgree
<1>2. \A t : SubscribedAbove(t) <=> Above(pushed, t)
  BY Zenon DEF SubscribedAbove, Above
<1>3. \A i \in DOMAIN script : \A t \in Range(script[i].topics) : t \in TopicsOf
  BY Zenon DEF TopicsOf
<1> QED
  BY <1>1, <1>2, <1>3, Zenon DEF SubscriptionsAgree, WaitsWith

LEMMA SocketInvariant == Spec => []SocketInv
BY SocketInit, SocketNext, PTL DEF Spec

\* The topics a contact would unsubscribe are the ones the lookup table has from
\* it, also when the contact closes between the topics of a control packet, but
\* for the topic of a packet that is pushed to a closed contact (MQTTHandlePacket).
THEOREM SubscriptionsTheorem == Spec => []SubscriptionsAgree
<1>1. SocketInv => SubscriptionsAgree
  BY SocketImplies
<1> QED
  BY <1>1, SocketInvariant, PTL

----------------------------------------------------------------------------
(* Writers *)

\* A packet has a command, and its options are a sequence.
Packable(p) ==
    /\ p # NoPacket /\ p.cmd \in Range(Commands)
    /\ p.options \in Seq({p.options[i] : i \in DOMAIN p.options})

FieldNames == {"address", "source", "payload"}

LEMMA FieldsShape ==
    ASSUME NEW cmd \in Range(Commands)
    PROVE  Fields(cmd) \in Seq(FieldNames) /\ Len(Fields(cmd)) \in Nat /\ DOMAIN Fields(cmd) = 1..Len(Fields(cmd))
<1>1. cmd \in {"P", "L", "S", "U", "C", "D", "H"}
  BY DEF Range, Commands
<1>2. Fields(cmd) \in {<<"address", "source", "payload">>, <<"address", "source">>, <<"address">>, <<>>}
  BY <1>1 DEF Fields
<1>3. Fields(cmd) \in Seq(FieldNames)
  <2>1. /\ <<"address", "source", "payload">> \in Seq(FieldNames) /\ <<"address", "source">> \in Seq(FieldNames)
        /\ <<"address">> \in Seq(FieldNames) /\ <<>> \in Seq(FieldNames)
    BY DEF FieldNames
  <2> QED
    BY <1>2, <2>1
<1> QED
  BY <1>3, LenProperties

\* The arguments of the first k fields.
FirstArgs(p, k) == [i \in 1..k |-> FieldBytes(p, Fields(p.cmd)[i])]

\* What the arguments of a packet are made of.
Parts(p) == {FieldBytes(p, f) : f \in FieldNames} \cup {p.options[i].key : i \in DOMAIN p.options}
                \cup {p.options[i].value : i \in DOMAIN p.options}

LEMMA FirstArgsShape ==
    ASSUME NEW p, Packable(p), NEW k \in 0..Len(Fields(p.cmd))
    PROVE  FirstArgs(p, k) \in Seq(Parts(p)) /\ Len(FirstArgs(p, k)) = k
<1>1. Fields(p.cmd) \in Seq(FieldNames) /\ Len(Fields(p.cmd)) \in Nat
  BY FieldsShape DEF Packable
<1>2. k \in Nat /\ \A i \in 1..k : i \in 1..Len(Fields(p.cmd))
  BY <1>1
<1>3. ASSUME NEW i \in 1..k PROVE FieldBytes(p, Fields(p.cmd)[i]) \in Parts(p)
  <2>1. Fields(p.cmd)[i] \in FieldNames
    BY <1>1, <1>2, ElementOfSeq
  <2> QED
    BY <2>1, Zenon DEF Parts
<1>4. PICK a : a = FirstArgs(p, k)
  OBVIOUS
<1>5. a \in [1..k -> Parts(p)]
  BY <1>3, <1>4 DEF FirstArgs
<1>6. a \in Seq(Parts(p))
  BY <1>2, <1>5, SeqDef
<1>7. DOMAIN a = 1..Len(a) /\ Len(a) \in Nat /\ DOMAIN a = 1..k
  BY <1>5, <1>6, LenProperties
<1>8. Len(a) = k
  <2>1. k \in Nat /\ Len(a) \in Nat /\ 1..Len(a) = 1..k
    BY <1>2, <1>7
  <2> QED
    BY ONLY <2>1
<1> QED
  BY <1>4, <1>6, <1>8

LEMMA FirstArgsStep ==
    ASSUME NEW p, Packable(p), NEW k \in Nat, k < Len(Fields(p.cmd))
    PROVE  Append(FirstArgs(p, k), FieldBytes(p, Fields(p.cmd)[k + 1])) = FirstArgs(p, k + 1)
<1>1. Fields(p.cmd) \in Seq(FieldNames) /\ Len(Fields(p.cmd)) \in Nat
  BY FieldsShape DEF Packable
<1>2. k \in 0..Len(Fields(p.cmd)) /\ k + 1 \in 0..Len(Fields(p.cmd)) /\ k + 1 \in 1..Len(Fields(p.cmd)) /\ k + 1 \in 1..(k + 1)
  BY <1>1
<1>3. PICK a, b, e : a = FirstArgs(p, k) /\ b = FirstArgs(p, k + 1) /\ e = FieldBytes(p, Fields(p.cmd)[k + 1])
  OBVIOUS
<1>4. a \in Seq(Parts(p)) /\ Len(a) = k /\ b \in Seq(Parts(p)) /\ Len(b) = k + 1
  BY <1>2, <1>3, FirstArgsShape
<1>5. (\A i \in 1..k : a[i] = FieldBytes(p, Fields(p.cmd)[i])) /\ (\A i \in 1..(k + 1) : b[i] = FieldBytes(p, Fields(p.cmd)[i]))
  BY <1>3 DEF FirstArgs
<1>6. b[k + 1] = e /\ \A i \in 1..k : b[i] = a[i]
  BY <1>2, <1>3, <1>5
<1>7. e \in Parts(p)
  BY <1>2, <1>4, <1>6, ElementOfSeq
<1>8. PICK c : c = Append(a, e)
  OBVIOUS
<1>9. c \in Seq(Parts(p)) /\ Len(c) = k + 1 /\ c[k + 1] = e /\ \A i \in 1..k : c[i] = a[i]
  <2>1. /\ Append(a, e) \in Seq(Parts(p)) /\ Len(Append(a, e)) = Len(a) + 1
        /\ \A i \in 1..Len(a) : Append(a, e)[i] = a[i]
        /\ Append(a, e)[Len(a) + 1] = e
    BY <1>4, <1>7, AppendProperties
  <2> QED
    BY ONLY <1>4, <1>8, <2>1
<1>10. \A i \in 1..Len(c) : c[i] = b[i]
  <2> SUFFICES ASSUME NEW i \in 1..Len(c) PROVE c[i] = b[i]
    OBVIOUS
  <2>1. i = k + 1 \/ i \in 1..k
    BY <1>9
  <2> QED
    BY <1>6, <1>9, <2>1
<1>11. c = b
  BY <1>4, <1>9, <1>10, SeqEqual
<1> QED
  BY <1>3, <1>8, <1>11

\* The options as arguments.
LEMMA PackOptionsShape ==
    ASSUME NEW p, Packable(p)
    PROVE  PackOptions(p) \in Seq(Parts(p))
<1>1. PICK n : n = Len(p.options)
  OBVIOUS
<1>2. n \in Nat /\ DOMAIN p.options = 1..n
  BY <1>1, LenProperties DEF Packable
<1>3. PICK pairs : pairs = [i \in DOMAIN p.options |-> <<p.options[i].key, p.options[i].value>>]
  OBVIOUS
<1>4. ASSUME NEW i \in 1..n PROVE pairs[i] \in Seq(Parts(p))
  <2>1. p.options[i].key \in Parts(p) /\ p.options[i].value \in Parts(p)
    BY <1>2 DEF Parts
  <2>2. pairs[i] = <<p.options[i].key, p.options[i].value>>
    BY <1>2, <1>3
  <2> QED
    BY <2>1, <2>2
<1>5. pairs \in [1..n -> Seq(Parts(p))]
  <2>1. pairs = [i \in 1..n |-> <<p.options[i].key, p.options[i].value>>]
    BY <1>2, <1>3
  <2> QED
    BY <1>4, <2>1
<1>6. pairs \in Seq(Seq(Parts(p)))
  BY <1>2, <1>5, SeqDef
<1>7. PackOptions(p) = FlattenSeq(pairs)
  BY <1>3, Zenon DEF PackOptions
<1> QED
  BY <1>6, <1>7, FlattenType

LEMMA ArgsOfShape ==
    ASSUME NEW p, Packable(p)
    PROVE  ArgsOf(p) = FirstArgs(p, Len(Fields(p.cmd))) \o PackOptions(p)
<1>1. DOMAIN Fields(p.cmd) = 1..Len(Fields(p.cmd))
  BY FieldsShape DEF Packable
<1>2. [i \in DOMAIN Fields(p.cmd) |-> FieldBytes(p, Fields(p.cmd)[i])] = FirstArgs(p, Len(Fields(p.cmd)))
  BY <1>1 DEF FirstArgs
<1> QED
  BY <1>2, Zenon DEF ArgsOf

\* The first fields are a prefix of the arguments, and so are all of them.
LEMMA PrefixOfArgs ==
    ASSUME NEW p, Packable(p)
    PROVE  /\ IsPrefix(ArgsOf(p), ArgsOf(p))
           /\ \A k \in 0..Len(Fields(p.cmd)) : IsPrefix(FirstArgs(p, k), ArgsOf(p))
<1>1. PICK n : n = Len(Fields(p.cmd))
  OBVIOUS
<1>2. n \in Nat
  BY <1>1, FieldsShape DEF Packable
<1>3. PICK t, h, o : t = ArgsOf(p) /\ h = FirstArgs(p, n) /\ o = PackOptions(p)
  OBVIOUS
<1>4. h \in Seq(Parts(p)) /\ Len(h) = n /\ o \in Seq(Parts(p)) /\ t = h \o o
  <2>1. n \in 0..Len(Fields(p.cmd))
    BY <1>1, <1>2
  <2>2. h \in Seq(Parts(p)) /\ Len(h) = n
    BY <1>3, <2>1, FirstArgsShape
  <2>3. o \in Seq(Parts(p))
    BY <1>3, PackOptionsShape
  <2>4. t = h \o o
    BY <1>1, <1>3, ArgsOfShape
  <2> QED
    BY <2>2, <2>3, <2>4
<1>5. /\ t \in Seq(Parts(p)) /\ Len(t) = n + Len(o) /\ Len(o) \in Nat
      /\ \A i \in 1..n : t[i] = h[i]
  <2>1. /\ h \o o \in Seq(Parts(p)) /\ Len(h \o o) = Len(h) + Len(o) /\ Len(o) \in Nat
        /\ \A i \in 1..(Len(h) + Len(o)) : (h \o o)[i] = IF i <= Len(h) THEN h[i] ELSE o[i - Len(h)]
    BY <1>4, ConcatProperties, LenProperties
  <2> QED
    BY ONLY <1>2, <1>4, <2>1
<1>6. IsPrefix(t, t)
  <2>1. Len(t) \in Nat
    BY <1>5, LenProperties
  <2> QED
    BY <2>1 DEF IsPrefix
<1>7. ASSUME NEW k \in 0..n PROVE IsPrefix(FirstArgs(p, k), t)
  <2>1. PICK s : s = FirstArgs(p, k)
    OBVIOUS
  <2>2. s \in Seq(Parts(p)) /\ Len(s) = k
    BY <1>1, <2>1, FirstArgsShape
  <2>3. \A i \in 1..k : s[i] = t[i]
    <3>1. \A i \in 1..k : s[i] = FieldBytes(p, Fields(p.cmd)[i])
      BY <2>1 DEF FirstArgs
    <3>2. \A i \in 1..n : h[i] = FieldBytes(p, Fields(p.cmd)[i])
      BY <1>3 DEF FirstArgs
    <3> QED
      BY <1>2, <1>5, <3>1, <3>2
  <2>4. k \in Nat /\ k <= Len(t)
    BY <1>2, <1>5
  <2>5. SubSeq(s, 1, k) = s
    BY <2>2, SubSeqFull
  <2>6. PICK r : r = SubSeq(t, 1, k)
    OBVIOUS
  <2>7. r \in Seq(Parts(p)) /\ Len(r) = k /\ \A i \in 1..k : r[i] = t[i]
    <3>1. \A i \in 1..k : t[i] \in Parts(p)
      BY <2>2, <2>3, ElementOfSeq
    <3>2. 1 \in Int /\ k \in Int
      BY <2>4
    <3>3. /\ SubSeq(t, 1, k) \in Seq(Parts(p))
          /\ Len(SubSeq(t, 1, k)) = IF 1 <= k THEN k - 1 + 1 ELSE 0
          /\ \A i \in 1..(k - 1 + 1) : SubSeq(t, 1, k)[i] = t[1 + i - 1]
      BY <3>1, <3>2, SubSeqProperties
    <3>4. k - 1 + 1 = k /\ \A i \in 1..k : 1 + i - 1 = i
      BY <2>4
    <3> QED
      BY <2>4, <2>6, <3>3, <3>4
  <2>8. r = s
    BY <2>2, <2>3, <2>7, SeqEqual
  <2> QED
    BY <2>1, <2>2, <2>4, <2>5, <2>6, <2>8 DEF IsPrefix
<1> QED
  BY <1>1, <1>3, <1>6, <1>7

Steps == {"reset", "check", "new", "cmd", "args", "options", "write", "body", "publish", "done"}

\* A universal of m with the arguments of the first k fields, and a full one.
Started(m, k) == [cmd |-> m.cmd, args |-> FirstArgs(m, k)]
Full(m) == [cmd |-> m.cmd, args |-> ArgsOf(m)]

\* What a writer of m has made when it is at a step.
MadeAt(m, step, u) ==
    /\ step \in Steps
    /\ step \in {"reset", "check", "new", "cmd", "publish"} => u = Blank
    /\ step = "args" => \E k \in 0..Len(Fields(m.cmd)) : (k < Len(Fields(m.cmd)) \/ k = 0) /\ u = Started(m, k)
    /\ step = "options" => u = Started(m, Len(Fields(m.cmd)))
    /\ step \in {"write", "body", "done"} => u \in {Blank, Full(m)}

WriterInv ==
    /\ kind \in [Writers -> {"tcp", "text", "mqtt"}]
    /\ DOMAIN pc = Writers /\ DOMAIN universal = Writers /\ DOMAIN got = Writers
    /\ using \in [Writers -> Writers \cup {"nil"}] /\ lost \in [Writers -> BOOLEAN]
    /\ backing \in Writers \cup {"nil"} /\ panicked \in BOOLEAN
    /\ pc = [v \in Writers |-> pc[v]] /\ universal = [v \in Writers |-> universal[v]] /\ got = [v \in Writers |-> got[v]]
    /\ message = NoPacket \/ Packable(message)
    /\ message = NoPacket => \A w \in Writers : pc[w] \in {"reset", "check", "publish"}
    /\ \A w \in Writers : MadeAt(message, pc[w], universal[w])
    /\ \A w \in Writers : Arrived(w) => got[w].cmd \in Range(Commands)

\* What a contact publishes is a packet.
LEMMA PublishedPackable ==
    ASSUME NEW c \in Controls
    PROVE  Packable(Published(c))
<1>1. PICK options : options = Bracketed(c.props)
  OBVIOUS
<1>2. PICK n : n = Len(c.props)
  OBVIOUS
<1>3. n \in Nat /\ DOMAIN c.props = 1..n
  <2>1. c.props \in Seq([key : Bytes, value : Bytes])
    BY DEF Controls
  <2> QED
    BY <1>2, <2>1, LenProperties
<1>4. DOMAIN options = 1..n
  BY <1>1, <1>3 DEF Bracketed
<1>5. PICK echo : echo = [i \in DOMAIN options |->
                   IF options[i].key = Api1 THEN [options[i] EXCEPT !.value = OptionOf(options, Nonc)] ELSE options[i]]
  OBVIOUS
<1>6. PICK p : p = Published(c)
  OBVIOUS
<1>7. p.cmd \in {"P", "L"} /\ DOMAIN p = {"cmd", "address", "source", "payload", "options"} /\ p.options \in {options, echo, <<>>}
  BY <1>1, <1>5, <1>6 DEF Published
<1>8. ASSUME NEW f, f = [i \in 1..n |-> f[i]] PROVE f \in Seq({f[i] : i \in DOMAIN f})
  <2>1. PICK R : R = {f[i] : i \in DOMAIN f}
    OBVIOUS
  <2>2. f \in [1..n -> R]
    BY <1>8, <2>1
  <2> QED
    BY <1>3, <2>1, <2>2, SeqDef
<1>9. options = [i \in 1..n |-> options[i]] /\ echo = [i \in 1..n |-> echo[i]]
  <2>1. options = [i \in 1..n |-> [c.props[i] EXCEPT !.value = <<91>> \o @ \o <<93>>]]
    BY <1>1, <1>3, Zenon DEF Bracketed
  <2> QED
    BY <1>4, <1>5, <2>1, Zenon
<1>10. p.options \in Seq({p.options[i] : i \in DOMAIN p.options})
  <2>1. options \in Seq({options[i] : i \in DOMAIN options})
    BY <1>8, <1>9
  <2>2. echo \in Seq({echo[i] : i \in DOMAIN echo})
    BY <1>8, <1>9
  <2>3. CASE p.options = <<>>
    BY <2>3, EmptySeq
  <2> QED
    BY <1>7, <2>1, <2>2, <2>3, Zenon
<1>11. p.cmd \in Range(Commands)
  BY <1>7 DEF Range, Commands
<1>12. p # NoPacket
  <2>1. DOMAIN NoPacket = {"cmd"}
    BY DEF NoPacket
  <2> QED
    BY <1>7, <2>1
<1> QED
  BY <1>6, <1>10, <1>11, <1>12 DEF Packable

\* What is delivered was published.
LEMMA DeliveredItem ==
    ASSUME SocketInv, Deliver
    PROVE  \E i \in DOMAIN script : /\ script \in Scripts /\ script[i] \in Controls /\ script[i].type = "publish"
                                    /\ message' = Published(script[i]) /\ message'.cmd = "P"
<1>1. PICK k \in DOMAIN pushed : pushed[k].cmd = "P" /\ message' = pushed[k]
  BY DEF Deliver, Range
<1>2. pushed \in Seq(Sent) /\ script \in Seq(Controls) /\ script \in Scripts \cup {<<>>}
  BY DEF SocketInv, SubscriptionInv, FramingInv
<1>3. pushed[k] \in Sent
  BY <1>2, LenProperties, ElementOfSeq
<1>4. PICK x \in Items : pushed[k] = x.packet
  BY <1>3 DEF Sent
<1>5. PICK i \in DOMAIN script : script[i] \in Controls /\ x \in Range(Pushes(script[i]))
  BY <1>2, ItemOrigin
<1>6. script[i].type = "publish" /\ x.packet = Published(script[i])
  BY <1>1, <1>4, <1>5, PushesItems
<1>7. script \in Scripts
  BY <1>2, <1>5
<1> QED
  BY <1>1, <1>4, <1>5, <1>6, <1>7

\* What is read has a command.
LEMMA ReadCommand ==
    ASSUME NEW bytes
    PROVE  ReadPacket(bytes) = NoPacket \/ ReadPacket(bytes).cmd \in Range(Commands)
<1>1. ASSUME NEW u PROVE FillPacket(u) = NoPacket \/ FillPacket(u).cmd \in Range(Commands)
  BY DEF FillPacket
<1>2. PICK array : array = ReadArrayOfByteArray(Tail(bytes))
  OBVIOUS
<1>3. ReadPacket(bytes) = NoPacket \/ \E u : ReadPacket(bytes) = FillPacket(u)
  BY <1>2, Zenon DEF ReadPacket
<1> QED
  BY <1>1, <1>3

LEMMA OneWriterSteps ==
    ASSUME WriterInv, NEW w \in Writers, NEW to, NEW u, MadeAt(message, to, u), message # NoPacket, message' = message, kind' = kind,
           pc' = [pc EXCEPT ![w] = to], universal' = [universal EXCEPT ![w] = u],
           got' = got \/ got' = [got EXCEPT ![w] = ReadPacket(stream[w])],
           using' \in [Writers -> Writers \cup {"nil"}], lost' \in [Writers -> BOOLEAN],
           backing' \in Writers \cup {"nil"}, panicked' \in BOOLEAN
    PROVE  WriterInv'
<1>1. DOMAIN pc = Writers /\ DOMAIN universal = Writers /\ DOMAIN got = Writers
  BY DEF WriterInv
<1>2. /\ DOMAIN pc' = Writers /\ DOMAIN universal' = Writers /\ DOMAIN got' = Writers
      /\ pc' = [v \in Writers |-> pc'[v]] /\ universal' = [v \in Writers |-> universal'[v]] /\ got' = [v \in Writers |-> got'[v]]
  <2>1. got = [v \in Writers |-> got[v]]
    BY DEF WriterInv
  <2>2. CASE got' = got
    BY <1>1, <2>1, <2>2
  <2>3. CASE got' = [got EXCEPT ![w] = ReadPacket(stream[w])]
    BY <1>1, <2>3
  <2> QED
    BY <1>1, <2>2, <2>3
<1>3. ASSUME NEW v \in Writers PROVE MadeAt(message, pc[v], universal[v])'
  <2>1. CASE v = w
    <3>1. pc'[v] = to /\ universal'[v] = u
      BY <1>1, <2>1
    <3> QED
      BY <3>1
  <2>2. CASE v # w
    <3>1. pc'[v] = pc[v] /\ universal'[v] = universal[v]
      BY <1>1, <2>2
    <3>2. MadeAt(message, pc[v], universal[v])
      BY DEF WriterInv
    <3> QED
      BY <3>1, <3>2
  <2> QED
    BY <2>1, <2>2
<1>4. ASSUME NEW v \in Writers, Arrived(v)' PROVE got'[v].cmd \in Range(Commands)
  <2>1. CASE got'[v] = got[v]
    BY <1>4, <2>1 DEF WriterInv, Arrived
  <2>2. CASE got'[v] # got[v]
    <3>1. got'[v] = ReadPacket(stream[w])
      BY <1>1, <2>2
    <3> QED
      BY <1>4, <3>1, ReadCommand DEF Arrived
  <2> QED
    BY <2>1, <2>2
<1>5. Packable(message)' /\ kind' \in [Writers -> {"tcp", "text", "mqtt"}]
  BY DEF WriterInv, Packable
<1> QED
  BY <1>2, <1>3, <1>4, <1>5 DEF WriterInv

LEMMA SameWriters ==
    ASSUME WriterInv, UNCHANGED packetVars
    PROVE  WriterInv'
BY DEF WriterInv, packetVars, Packable, Arrived

\* A step that changes neither the universals nor what the readers got.
LEMMA PlainStep ==
    ASSUME WriterInv, NEW w \in Writers, NEW from, NEW to, Goes(w, from, to), MadeAt(message, to, universal[w]),
           universal' = universal, got' = got,
           using' \in [Writers -> Writers \cup {"nil"}], lost' \in [Writers -> BOOLEAN],
           backing' \in Writers \cup {"nil"}, panicked' \in BOOLEAN
    PROVE  WriterInv'
<1>1. universal' = [universal EXCEPT ![w] = universal[w]]
  BY DEF WriterInv
<1> QED
  BY <1>1, OneWriterSteps DEF Goes

\* A writer adds to its universal.
LEMMA FillStep ==
    ASSUME WriterInv, NEW w \in Writers, NEW from, NEW to, Goes(w, from, to), NEW u, MadeAt(message, to, u),
           universal' = [universal EXCEPT ![w] = u], UNCHANGED <<backing, using, lost, got, panicked>>
    PROVE  WriterInv'
<1>1. /\ using' \in [Writers -> Writers \cup {"nil"}] /\ lost' \in [Writers -> BOOLEAN]
      /\ backing' \in Writers \cup {"nil"} /\ panicked' \in BOOLEAN
  BY DEF WriterInv
<1> QED
  BY <1>1, OneWriterSteps DEF Goes

LEMMA PacketPackable ==
    ASSUME NEW p, Packet(p)
    PROVE  Packable(p)
<1>1. p.cmd \in Range(Commands) /\ p.options \in Seq([key : Bytes \ {<<>>}, value : Bytes])
  BY DEF Packet
<1>2. p.options \in Seq(Range(p.options))
  BY <1>1, SeqOfRange
<1>3. p # NoPacket
  BY <1>1 DEF NoPacket, Range, Commands
<1> QED
  BY <1>1, <1>2, <1>3, Zenon DEF Packable, Range

LEMMA WriterInit ==
    ASSUME Init
    PROVE  WriterInv
<1>1. /\ kind \in [Writers -> {"tcp", "text", "mqtt"}] /\ backing = "nil" /\ panicked = FALSE
      /\ pc = [w \in Writers |-> FirstStep(kind[w])] /\ universal = [w \in Writers |-> Blank]
      /\ got = [w \in Writers |-> Unread]
      /\ using = [w \in Writers |-> "nil"] /\ lost = [w \in Writers |-> FALSE]
  BY DEF Init, PacketsInit
<1>2. \A w \in Writers : pc[w] \in {"reset", "check", "publish"}
  BY <1>1 DEF FirstStep
<1>3. \A w \in Writers : MadeAt(message, pc[w], universal[w])
  BY <1>1, <1>2 DEF MadeAt, Steps
<1>4. \A w \in Writers : ~Arrived(w)
  BY <1>1 DEF Arrived
<1>5. message = NoPacket \/ Packable(message)
  BY MessagesAssumption, PacketPackable DEF Init
<1> QED
  BY <1>1, <1>2, <1>3, <1>4, <1>5 DEF WriterInv

LEMMA WriterSteps ==
    ASSUME WriterInv, NEW w \in Writers, Write(w) \/ Lose(w) \/ Read(w)
    PROVE  WriterInv'
<1>0. /\ using \in [Writers -> Writers \cup {"nil"}] /\ lost \in [Writers -> BOOLEAN]
      /\ backing \in Writers \cup {"nil"} /\ panicked \in BOOLEAN
      /\ kind \in [Writers -> {"tcp", "text", "mqtt"}]
      /\ MadeAt(message, pc[w], universal[w])
      /\ message # NoPacket => Packable(message)
      /\ message = NoPacket => pc[w] \in {"reset", "check", "publish"}
  BY DEF WriterInv
<1>1. CASE Reset(w)
  <2>1. Goes(w, "reset", "check") /\ backing' = "nil" /\ UNCHANGED <<universal, using, lost, got, panicked>>
    BY <1>1, Zenon DEF Reset
  <2>2. MadeAt(message, "check", universal[w])
    BY <1>0, <2>1 DEF Goes, MadeAt, Steps
  <2> QED
    BY <1>0, <2>1, <2>2, PlainStep
<1>2. CASE Check(w)
  <2>1. PICK to : /\ to = IF backing = "nil" THEN "new" ELSE "write"
                  /\ Goes(w, "check", to) /\ UNCHANGED <<backing, universal, using, lost, got, panicked>>
    BY <1>2, Zenon DEF Check
  <2>2. MadeAt(message, to, universal[w])
    BY <1>0, <2>1 DEF Goes, MadeAt, Steps
  <2> QED
    BY <1>0, <2>1, <2>2, PlainStep
<1>3. CASE New(w)
  <2>1. Goes(w, "new", "cmd") /\ backing' = w /\ UNCHANGED <<universal, using, lost, got, panicked>>
    BY <1>3, Zenon DEF New
  <2>2. MadeAt(message, "cmd", universal[w])
    BY <1>0, <2>1 DEF Goes, MadeAt, Steps
  <2> QED
    BY <1>0, <2>1, <2>2, PlainStep
<1>4. CASE SetCmd(w)
  <2>1. Goes(w, "cmd", "args") /\ universal' = [universal EXCEPT ![w] = [@ EXCEPT !.cmd = message.cmd]]
        /\ UNCHANGED <<backing, using, lost, got, panicked>>
    BY <1>4 DEF SetCmd
  <2>2. Packable(message) /\ universal[w] = Blank
    BY <1>0, <2>1 DEF Goes, MadeAt
  <2>3. 0 \in 0..Len(Fields(message.cmd)) /\ FirstArgs(message, 0) = <<>>
    <3>1. 0 \in 0..Len(Fields(message.cmd))
      BY <2>2, FieldsShape DEF Packable
    <3>2. FirstArgs(message, 0) \in Seq(Parts(message)) /\ Len(FirstArgs(message, 0)) = 0
      BY <2>2, <3>1, FirstArgsShape
    <3> QED
      BY <3>1, <3>2, EmptySeq
  <2>4. [universal[w] EXCEPT !.cmd = message.cmd] = Started(message, 0)
    <3>1. PICK c, e, h, r : e = "" /\ c = message.cmd /\ h = FirstArgs(message, 0) /\ r = universal[w]
      OBVIOUS
    <3>2. r = [cmd |-> e, args |-> h]
      BY <2>2, <2>3, <3>1 DEF Blank
    <3>3. [r EXCEPT !.cmd = c] = [[cmd |-> e, args |-> h] EXCEPT !.cmd = c]
      BY ONLY <3>2
    <3>4. [[cmd |-> e, args |-> h] EXCEPT !.cmd = c] = [cmd |-> c, args |-> h]
      BY ONLY TRUE
    <3> QED
      BY ONLY <3>1, <3>3, <3>4 DEF Started
  <2>5. MadeAt(message, "args", Started(message, 0))
    BY <2>3 DEF MadeAt, Steps
  <2>6. universal' = [universal EXCEPT ![w] = Started(message, 0)]
    BY <2>1, <2>4
  <2> QED
    BY <2>1, <2>5, <2>6, FillStep
<1>5. CASE AppendArg(w)
  <2>1. Packable(message) /\ pc[w] = "args"
    BY <1>0, <1>5 DEF AppendArg, Goes
  <2>2. PICK n : n = Len(Fields(message.cmd))
    OBVIOUS
  <2>3. n \in Nat
    BY <2>1, <2>2, FieldsShape DEF Packable
  <2>4. PICK k \in 0..n : (k < n \/ k = 0) /\ universal[w] = Started(message, k)
    BY <1>0, <2>1, <2>2 DEF MadeAt
  <2>5. k \in Nat /\ FirstArgs(message, k) \in Seq(Parts(message)) /\ Len(FirstArgs(message, k)) = k
    BY <2>1, <2>2, <2>3, <2>4, FirstArgsShape
  <2>6. universal[w].args = FirstArgs(message, k) /\ universal[w].cmd = message.cmd /\ Len(universal[w].args) + 1 = k + 1
    BY <2>4, <2>5 DEF Started
  <2>7. PICK to, u : /\ to = IF k + 1 >= n THEN "options" ELSE "args"
                     /\ u = [universal[w] EXCEPT !.args = IF k + 1 > n THEN @ ELSE Append(@, FieldBytes(message, Fields(message.cmd)[k + 1]))]
    OBVIOUS
  <2>8. Goes(w, "args", to) /\ universal' = [universal EXCEPT ![w] = u] /\ UNCHANGED <<backing, using, lost, got, panicked>>
    BY <1>5, <2>2, <2>6, <2>7 DEF AppendArg
  <2>9. CASE k < n
    <3>1. Append(FirstArgs(message, k), FieldBytes(message, Fields(message.cmd)[k + 1])) = FirstArgs(message, k + 1)
      BY <2>1, <2>2, <2>5, <2>9, FirstArgsStep
    <3>2. u = Started(message, k + 1)
      <4>1. ~(k + 1 > n)
        BY <2>3, <2>5, <2>9
      <4> QED
        BY <2>4, <2>6, <2>7, <3>1, <4>1 DEF Started
    <3>3. MadeAt(message, to, u)
      <4>1. CASE k + 1 = n
        BY <2>2, <2>7, <3>2, <4>1 DEF MadeAt, Steps
      <4>2. CASE k + 1 # n
        <5>1. k + 1 < n /\ k + 1 \in 0..n /\ to = "args"
          BY <2>3, <2>5, <2>7, <2>9, <4>2
        <5> QED
          BY <2>2, <3>2, <5>1 DEF MadeAt, Steps
      <4> QED
        BY <4>1, <4>2
    <3> QED
      BY <2>8, <3>3, FillStep
  <2>10. CASE ~(k < n)
    <3>1. k = 0 /\ n = 0 /\ k + 1 > n /\ to = "options"
      BY <2>3, <2>4, <2>5, <2>7, <2>10
    <3>2. u = Started(message, n)
      BY <2>4, <2>6, <2>7, <3>1 DEF Started
    <3>3. MadeAt(message, to, u)
      BY <2>2, <3>1, <3>2 DEF MadeAt, Steps
    <3> QED
      BY <2>8, <3>3, FillStep
  <2> QED
    BY <2>9, <2>10
<1>6. CASE AppendOptions(w)
  <2>1. Packable(message) /\ pc[w] = "options" /\ universal[w] = Started(message, Len(Fields(message.cmd)))
    BY <1>0, <1>6 DEF AppendOptions, Goes, MadeAt
  <2>2. PICK u : u = [universal[w] EXCEPT !.args = @ \o PackOptions(message)]
    OBVIOUS
  <2>3. Goes(w, "options", "write") /\ universal' = [universal EXCEPT ![w] = u] /\ UNCHANGED <<backing, using, lost, got, panicked>>
    BY <1>6, <2>2 DEF AppendOptions
  <2>4. u = Full(message)
    <3>1. ArgsOf(message) = FirstArgs(message, Len(Fields(message.cmd))) \o PackOptions(message)
      BY <2>1, ArgsOfShape
    <3>2. PICK all : all = FirstArgs(message, Len(Fields(message.cmd))) \o PackOptions(message)
      OBVIOUS
    <3>3. universal[w] = [cmd |-> message.cmd, args |-> FirstArgs(message, Len(Fields(message.cmd)))]
      BY <2>1 DEF Started
    <3>4. u = [universal[w] EXCEPT !.args = all]
      BY <2>2, <3>2, <3>3
    <3>5. u = [[cmd |-> message.cmd, args |-> FirstArgs(message, Len(Fields(message.cmd)))] EXCEPT !.args = all]
      BY ONLY <3>3, <3>4
    <3>6. u = [cmd |-> message.cmd, args |-> all]
      BY ONLY <3>5
    <3> QED
      BY ONLY <3>1, <3>2, <3>6 DEF Full
  <2>5. MadeAt(message, "write", u)
    BY <2>4 DEF MadeAt, Steps
  <2> QED
    BY <2>3, <2>5, FillStep
<1>7. CASE WriteCmd(w)
  <2>1. Goes(w, "write", "body") /\ using' = [using EXCEPT ![w] = backing] /\ UNCHANGED <<backing, universal, lost, got, panicked>>
    BY <1>7, Zenon DEF WriteCmd
  <2>2. MadeAt(message, "body", universal[w])
    BY <1>0, <2>1 DEF Goes, MadeAt, Steps
  <2>3. using' \in [Writers -> Writers \cup {"nil"}]
    BY <1>0, <2>1
  <2> QED
    BY <1>0, <2>1, <2>2, <2>3, PlainStep
<1>8. CASE WriteBody(w)
  <2>1. Goes(w, "body", "done") /\ UNCHANGED <<backing, universal, using, lost, got, panicked>>
    BY <1>8, Zenon DEF WriteBody
  <2>2. MadeAt(message, "done", universal[w])
    BY <1>0, <2>1 DEF Goes, MadeAt, Steps
  <2> QED
    BY <1>0, <2>1, <2>2, PlainStep
<1>9. CASE WriteText(w)
  <2>1. Goes(w, "write", "done") /\ UNCHANGED <<backing, universal, using, lost, got, panicked>>
    BY <1>9, Zenon DEF WriteText
  <2>2. MadeAt(message, "done", universal[w])
    BY <1>0, <2>1 DEF Goes, MadeAt, Steps
  <2> QED
    BY <1>0, <2>1, <2>2, PlainStep
<1>10. CASE WriteMqtt(w)
  <2>1. Goes(w, "publish", "done") /\ UNCHANGED <<backing, universal, using, lost, got, panicked>>
    BY <1>10, Zenon DEF WriteMqtt
  <2>2. MadeAt(message, "done", universal[w])
    BY <1>0, <2>1 DEF Goes, MadeAt, Steps
  <2> QED
    BY <1>0, <2>1, <2>2, PlainStep
<1>15. CASE WriteError(w)
  <2>1. Goes(w, FirstStep(kind[w]), "done") /\ UNCHANGED <<backing, universal, using, lost, got, panicked>>
    BY <1>15, Zenon DEF WriteError
  <2>2. FirstStep(kind[w]) \in {"reset", "check", "publish"}
    BY <1>0 DEF FirstStep
  <2>3. MadeAt(message, "done", universal[w])
    BY <1>0, <2>1, <2>2 DEF Goes, MadeAt, Steps
  <2> QED
    BY <1>0, <2>1, <2>3, PlainStep
<1>11. ASSUME UNCHANGED <<message, kind, pc, universal>>, message # NoPacket,
              got' = got \/ got' = [got EXCEPT ![w] = ReadPacket(stream[w])],
              using' \in [Writers -> Writers \cup {"nil"}], lost' \in [Writers -> BOOLEAN],
              backing' \in Writers \cup {"nil"}, panicked' \in BOOLEAN
       PROVE  WriterInv'
  <2>1. pc' = [pc EXCEPT ![w] = pc[w]] /\ universal' = [universal EXCEPT ![w] = universal[w]]
    BY <1>11 DEF WriterInv
  <2>2. PICK to, u : to = pc[w] /\ u = universal[w]
    OBVIOUS
  <2>3. MadeAt(message, to, u) /\ pc' = [pc EXCEPT ![w] = to] /\ universal' = [universal EXCEPT ![w] = u]
    BY <1>0, <2>1, <2>2
  <2>4. message' = message /\ kind' = kind
    BY <1>11
  <2> QED
    BY <1>11, <2>3, <2>4, OneWriterSteps
<1>12. CASE WriteNil(w)
  <2>1. message # NoPacket
    BY <1>0, <1>12 DEF WriteNil
  <2> QED
    BY <1>0, <1>11, <1>12, <2>1 DEF WriteNil
<1>13. CASE Lose(w)
  <2>1. message # NoPacket
    BY <1>0, <1>13 DEF Lose
  <2>2. lost' \in [Writers -> BOOLEAN]
    BY <1>0, <1>13 DEF Lose
  <2> QED
    <3>1. UNCHANGED <<message, kind, backing, universal, pc, using, got, raced, panicked>>
      BY <1>13 DEF Lose
    <3> QED
      BY <1>0, <1>11, <2>1, <2>2, <3>1
<1>14. CASE Read(w)
  <2>1. message # NoPacket
    BY <1>0, <1>14 DEF Read
  <2> QED
    BY <1>0, <1>11, <1>14, <2>1 DEF Read
<1> QED
  BY <1>1, <1>2, <1>3, <1>4, <1>5, <1>6, <1>7, <1>8, <1>9, <1>10, <1>12, <1>13, <1>14, <1>15, Zenon DEF Write

\* A message that is delivered finds no writer at work.
LEMMA WriterDeliver ==
    ASSUME WriterInv, SocketInv, Deliver
    PROVE  WriterInv'
<1>2. /\ message = NoPacket
      /\ UNCHANGED <<kind, backing, universal, pc, using, stream, lost, got, raced, panicked>>
  BY DEF Deliver
<1>6. Packable(message')
  BY DeliveredItem, PublishedPackable
<1>7. \A w \in Writers : pc[w] \in {"reset", "check", "publish"} /\ universal[w] = Blank
  BY <1>2 DEF WriterInv, MadeAt
<1>8. \A w \in Writers : MadeAt(message', pc[w], universal[w])
  BY <1>7 DEF MadeAt, Steps
<1>9. message' # NoPacket
  BY <1>6 DEF Packable
<1>10. \A w \in Writers : Arrived(w)' => Arrived(w)
  BY <1>2 DEF Arrived
<1> QED
  BY <1>2, <1>6, <1>8, <1>9, <1>10 DEF WriterInv, Packable

LEMMA WriterNext ==
    ASSUME WriterInv, SocketInv, [Next]_vars
    PROVE  WriterInv'
<1>1. CASE UNCHANGED packetVars
  BY <1>1, SameWriters
<1>2. CASE Deliver
  BY <1>2, WriterDeliver
<1>3. CASE PacketsNext
  BY <1>3, WriterSteps DEF PacketsNext
<1> QED
  BY <1>1, <1>2, <1>3, Zenon DEF Next, vars

LEMMA WriterImplies ==
    ASSUME WriterInv, SocketInv
    PROVE  TypeOK
<1>1. ASSUME NEW w \in Writers, universal[w] # Blank
      PROVE  universal[w].cmd = message.cmd /\ IsPrefix(universal[w].args, ArgsOf(message))
  <2>1. MadeAt(message, pc[w], universal[w]) /\ pc[w] \notin {"reset", "check", "new", "cmd", "publish"}
    BY <1>1 DEF WriterInv, MadeAt
  <2>2. message # NoPacket
    BY <2>1 DEF WriterInv
  <2>3. Packable(message)
    BY <2>2 DEF WriterInv
  <2>4. Len(Fields(message.cmd)) \in 0..Len(Fields(message.cmd))
    BY <2>3, FieldsShape DEF Packable
  <2>5. universal[w] = Full(message) \/ \E k \in 0..Len(Fields(message.cmd)) : universal[w] = Started(message, k)
    BY <1>1, <2>1, <2>4 DEF MadeAt, Steps
  <2>6. CASE universal[w] = Full(message)
    BY <2>3, <2>6, PrefixOfArgs DEF Full
  <2>7. ASSUME NEW k \in 0..Len(Fields(message.cmd)), universal[w] = Started(message, k)
        PROVE  universal[w].cmd = message.cmd /\ IsPrefix(universal[w].args, ArgsOf(message))
    BY <2>3, <2>7, PrefixOfArgs DEF Started
  <2> QED
    BY <2>5, <2>6, <2>7
<1>2. PacketsTypeOK
  BY <1>1 DEF PacketsTypeOK, WriterInv, MadeAt, Steps
<1>3. subscriptions \subseteq UNION {Range(script[i].topics) : i \in DOMAIN script}
  BY Zenon DEF SocketInv, SubscriptionInv, TopicsOf
<1>4. Range(acks) \subseteq {"connack", "suback", "pingresp", "disconnect"}
  <2>1. acks \in Seq(AckKinds)
    BY DEF SocketInv, SubscriptionInv
  <2> QED
    BY <2>1, RangeOfSeq DEF AckKinds
<1> QED
  BY <1>2, <1>3, <1>4 DEF TypeOK, SocketInv, SubscriptionInv

\* Each universal grows towards the arguments of the packet, whatever writer
\* runs when, and what a reader takes has a command (packets.go).
THEOREM TypeTheorem == Spec => []TypeOK
<1>1. Spec => []WriterInv
  BY WriterInit, WriterNext, SocketInvariant, PTL DEF Spec
<1>2. WriterInv /\ SocketInv => TypeOK
  BY WriterImplies
<1> QED
  BY <1>1, <1>2, SocketInvariant, PTL

----------------------------------------------------------------------------
(* Addresses *)

LEMMA AddressLengths ==
    /\ DOMAIN AddressLength = {BinaryAddress, HexAddress, Base64Address}
    /\ AddressLength[BinaryAddress] = HashTypeLen /\ AddressLength[HexAddress] = HashTypeLen * 2
    /\ AddressLength[Base64Address] = (HashTypeLen * 8) \div 6
    /\ \A type \in DOMAIN AddressLength : AddressLength[type] \in Nat
<1>1. HashTypeLen \in Nat /\ HashTypeLen * 2 \in Nat /\ (HashTypeLen * 8) \div 6 \in Nat
  BY PacketsAssumption, DivMod
<1> QED
  BY <1>1 DEF AddressLength, BinaryAddress, HexAddress, Base64Address

\* One byte and more of them.
LEMMA Behind ==
    ASSUME NEW S, NEW b \in S, NEW s \in Seq(S)
    PROVE  /\ <<b>> \o s \in Seq(S) /\ Len(<<b>> \o s) = 1 + Len(s) /\ <<b>> \o s # <<>>
           /\ (<<b>> \o s)[1] = b /\ Tail(<<b>> \o s) = s
           /\ \A i \in 1..Len(s) : (<<b>> \o s)[i + 1] = s[i]
<1>1. <<b>> \in Seq(S) /\ Len(<<b>>) = 1 /\ <<b>>[1] = b /\ Len(s) \in Nat
  BY LenProperties
<1>2. PICK t : t = <<b>> \o s
  OBVIOUS
<1>3. /\ t \in Seq(S) /\ Len(t) = 1 + Len(s)
      /\ \A i \in 1..(1 + Len(s)) : t[i] = IF i <= 1 THEN b ELSE s[i - 1]
  <2>1. /\ <<b>> \o s \in Seq(S) /\ Len(<<b>> \o s) = Len(<<b>>) + Len(s)
        /\ \A i \in 1..(Len(<<b>>) + Len(s)) : (<<b>> \o s)[i] = IF i <= Len(<<b>>) THEN <<b>>[i] ELSE s[i - Len(<<b>>)]
    BY <1>1, ConcatProperties
  <2> QED
    BY <1>1, <1>2, <2>1
<1>4. t # <<>>
  BY <1>1, <1>3, EmptySeq
<1>5. t[1] = b
  BY <1>1, <1>3
<1>6. ASSUME NEW i \in 1..Len(s) PROVE t[i + 1] = s[i]
  <2>1. i + 1 \in 1..(1 + Len(s)) /\ ~(i + 1 <= 1) /\ i + 1 - 1 = i
    BY <1>1
  <2> QED
    BY <1>3, <2>1
<1>7. Tail(t) = s
  <2>1. Tail(t) \in Seq(S) /\ Len(Tail(t)) = Len(t) - 1 /\ \A i \in 1..Len(Tail(t)) : Tail(t)[i] = t[i + 1]
    BY <1>3, <1>4, HeadTailProperties
  <2>2. Len(Tail(t)) = Len(s) /\ \A i \in 1..Len(s) : Tail(t)[i] = s[i]
    BY <1>1, <1>3, <1>6, <2>1
  <2> QED
    BY <2>1, <2>2, SeqEqual
<1> QED
  BY <1>2, <1>3, <1>4, <1>5, <1>6, <1>7

\* What a typed address is read as.
LEMMA TypedAddress ==
    ASSUME NEW type \in DOMAIN AddressLength, NEW bytes \in Bytes, Len(bytes) = AddressLength[type]
    PROVE  FromBytes(<<type>> \o bytes) = [type |-> type, bytes |-> bytes]
<1>1. type \in Nat /\ type # Utf8Address
  BY AddressLengths DEF BinaryAddress, HexAddress, Base64Address, Utf8Address
<1>2. PICK t : t = <<type>> \o bytes
  OBVIOUS
<1>3. t # <<>> /\ t[1] = type /\ Len(t) = 1 + Len(bytes) /\ Tail(t) = bytes /\ Len(bytes) \in Nat
  BY <1>1, <1>2, Behind, LenProperties DEF Bytes
<1>4. Typed(t)
  BY <1>3 DEF Typed
<1>5. FromBytes(t) = [type |-> type, bytes |-> bytes]
  BY <1>3, <1>4 DEF FromBytes
<1> QED
  BY <1>2, <1>5

LEMMA SpacedAddress ==
    ASSUME NEW bytes \in Bytes
    PROVE  FromBytes(<<Utf8Address>> \o bytes) = [type |-> Utf8Address, bytes |-> bytes]
<1>1. PICK t : t = <<Utf8Address>> \o bytes
  OBVIOUS
<1>2. t # <<>> /\ t[1] = Utf8Address /\ Tail(t) = bytes
  BY <1>1, Behind DEF Bytes, Utf8Address
<1>3. FromBytes(t) = [type |-> Utf8Address, bytes |-> bytes]
  BY <1>2 DEF FromBytes, Typed
<1> QED
  BY <1>1, <1>3

LEMMA SoundShape ==
    ASSUME NEW a, Sound(a)
    PROVE  /\ a = [type |-> a.type, bytes |-> a.bytes] /\ a.bytes \in Bytes
           /\ (a.type = Utf8Address /\ ~Typed(a.bytes)) \/ (a.type \in DOMAIN AddressLength /\ Len(a.bytes) = AddressLength[a.type])
           /\ a.type \in Nat /\ ToBytes(a) \in Bytes
<1>1. a \in [type : {Utf8Address} \cup DOMAIN AddressLength, bytes : Bytes]
  BY DEF Sound
<1>2. a.type \in Nat
  BY <1>1, AddressLengths DEF BinaryAddress, HexAddress, Base64Address, Utf8Address
<1>3. ToBytes(a) \in Bytes
  BY <1>1, <1>2, Behind DEF ToBytes, Bytes
<1> QED
  BY <1>1, <1>2, <1>3 DEF Sound

\* An address is read as it was written.
LEMMA AddressRead ==
    ASSUME NEW a, Sound(a)
    PROVE  FromBytes(ToBytes(a)) = a
<1>1. PICK y, b : y = a.type /\ b = a.bytes
  OBVIOUS
<1>2. /\ a = [type |-> y, bytes |-> b] /\ b \in Bytes
      /\ (y = Utf8Address /\ ~Typed(b)) \/ (y \in DOMAIN AddressLength /\ Len(b) = AddressLength[y])
  BY <1>1, SoundShape
<1>3. CASE y = Utf8Address
  <2>1. Utf8Address \notin DOMAIN AddressLength
    BY AddressLengths DEF BinaryAddress, HexAddress, Base64Address, Utf8Address
  <2>2. ToBytes(a) = b /\ ~Typed(b)
    BY <1>1, <1>2, <1>3, <2>1 DEF ToBytes
  <2> QED
    BY <1>2, <1>3, <2>2 DEF FromBytes
<1>4. CASE y # Utf8Address
  <2>1. ToBytes(a) = <<y>> \o b
    BY <1>1, <1>4 DEF ToBytes
  <2> QED
    BY <1>2, <1>4, <2>1, TypedAddress
<1> QED
  BY <1>3, <1>4

\* What mqtt is given stands for the same topic.
LEMMA AddressStringRead ==
    ASSUME NEW a, Sound(a)
    PROVE  EnsureAddressIsBinary(FromBytes(AddressString(a))) = EnsureAddressIsBinary(a)
<1>1. PICK y, b : y = a.type /\ b = a.bytes
  OBVIOUS
<1>2. /\ a = [type |-> y, bytes |-> b] /\ b \in Bytes
      /\ (y = Utf8Address /\ ~Typed(b)) \/ (y \in DOMAIN AddressLength /\ Len(b) = AddressLength[y])
  BY <1>1, SoundShape
<1>3. CASE y = Utf8Address
  <2>1. AddressString(a) = <<Utf8Address>> \o b
    BY <1>1, <1>3 DEF AddressString, BinaryAddress, Utf8Address
  <2> QED
    BY <1>2, <1>3, <2>1, SpacedAddress
<1>4. CASE y # Utf8Address /\ y # BinaryAddress
  <2>1. AddressString(a) = <<y>> \o b
    BY <1>1, <1>4 DEF AddressString
  <2> QED
    BY <1>2, <1>4, <2>1, TypedAddress
<1>5. CASE y = BinaryAddress
  <2>1. Len(b) = HashTypeLen
    BY <1>2, <1>5, AddressLengths DEF BinaryAddress, Utf8Address
  <2>2. PICK c : c = Base64(b)
    OBVIOUS
  <2>3. c \in Bytes /\ Len(c) = AddressLength[Base64Address] /\ Unbase64(c) = b
    BY <1>1, <1>5, <2>2 DEF Sound
  <2>4. AddressString(a) = <<Base64Address>> \o c
    BY <1>1, <1>5, <2>1, <2>2 DEF AddressString
  <2>5. FromBytes(AddressString(a)) = [type |-> Base64Address, bytes |-> c]
    BY <2>3, <2>4, AddressLengths, TypedAddress
  <2>6. EnsureAddressIsBinary([type |-> Base64Address, bytes |-> c]) = Unbase64(c)
    BY <2>3 DEF EnsureAddressIsBinary, BinaryAddress, HexAddress, Base64Address
  <2>7. EnsureAddressIsBinary(a) = b
    <3>1. a.type = BinaryAddress /\ Len(a.bytes) = AddressLength[BinaryAddress] /\ a.type # HexAddress /\ a.type # Base64Address /\ a.bytes = b
      BY <1>1, <1>5, <2>1, AddressLengths DEF BinaryAddress, HexAddress, Base64Address
    <3> QED
      BY <3>1 DEF EnsureAddressIsBinary
  <2> QED
    BY <2>3, <2>5, <2>6, <2>7
<1> QED
  BY <1>3, <1>4, <1>5

----------------------------------------------------------------------------
(* Folds *)

\* A fold over all the sets of indices runs through the indices in order.
FoldsIn(V, n, base, op, h) ==
    h[{}] = base /\ \A s \in SUBSET (1..n) : s # {} /\ h[s \ {Max(s)}] \in V => h[s] = op[<<h[s \ {Max(s)}], Max(s)>>]
RunsTo(n, base, op, f, last) == f[0] = base /\ f[n] = last /\ \A k \in 0..(n - 1) : f[k + 1] = op[<<f[k], k + 1>>]

LEMMA FoldRuns ==
    ASSUME NEW V, NEW n \in Nat, NEW base \in V, NEW op \in FoldTo(V, n), NEW h, FoldsIn(V, n, base, op, h)
    PROVE  \E f \in [0..n -> V] : RunsTo(n, base, op, f, h[1..n])
<1> USE DEF FoldsIn, RunsTo
<1>1. PICK f : f = [k \in 0..n |-> h[1..k]]
  OBVIOUS
<1>2. f[0] = base /\ f[n] = h[1..n]
  <2>1. 0 \in 0..n /\ 1..0 = {} /\ n \in 0..n
    OBVIOUS
  <2> QED
    BY <1>1, <2>1
<1>3. ASSUME NEW k \in 0..(n - 1), f[k] \in V PROVE f[k + 1] = op[<<f[k], k + 1>>] /\ f[k + 1] \in V
  <2>1. PICK j : j = k + 1
    OBVIOUS
  <2>2. j \in Nat /\ 1 <= j /\ j <= n /\ j - 1 = k /\ j \in 0..n /\ k \in 0..n /\ j \in 1..n
    BY <2>1
  <2>3. Max(1..j) = j /\ (1..j) \ {j} = 1..(j - 1) /\ 1..j # {}
    BY <2>2, IntervalMax
  <2>4. 1..j \in SUBSET (1..n) /\ h[1..k] \in V
    BY <1>1, <1>3, <2>2
  <2>5. h[1..j] = op[<<h[1..k], j>>]
    BY <2>2, <2>3, <2>4
  <2>6. op[<<h[1..k], j>>] \in V
    BY <2>2, <2>4 DEF FoldTo
  <2> QED
    BY <1>1, <2>1, <2>2, <2>5, <2>6
<1> DEFINE T == {k \in Nat : k <= n => f[k] \in V}
<1>4. 0 \in T
  BY <1>2
<1>5. ASSUME NEW k \in Nat, k \in T PROVE k + 1 \in T
  <2> SUFFICES ASSUME k + 1 <= n PROVE f[k + 1] \in V
    OBVIOUS
  <2>1. k \in 0..(n - 1) /\ f[k] \in V
    BY <1>5
  <2> QED
    BY <1>3, <2>1
<1>6. Nat \subseteq T
  <2> HIDE DEF T
  <2> QED
    BY <1>4, <1>5, Induction
<1>7. \A k \in 0..n : f[k] \in V
  BY <1>6
<1>8. f \in [0..n -> V]
  BY <1>1, <1>7
<1>9. \A k \in 0..(n - 1) : f[k + 1] = op[<<f[k], k + 1>>]
  BY <1>3, <1>7
<1> QED
  BY <1>2, <1>8, <1>9

\* The value of digits, digit by digit.
ValueSteps(f, digits) ==
    /\ f[0] = 0 /\ \A k \in 0..(Len(digits) - 1) : f[k + 1] = (f[k] * Base) + (digits[k + 1] % Base)
    /\ ValueOf(digits) = f[Len(digits)]

LEMMA ValueFold ==
    ASSUME NEW digits \in Seq(Nat)
    PROVE  \E f \in [0..Len(digits) -> Nat] : ValueSteps(f, digits)
<1> DEFINE n == Len(digits)
           raw(v, k) == (v * Base) + (digits[k] % Base)
           Sum(g) == [s \in SUBSET (DOMAIN digits) |-> IF s = {} THEN 0 ELSE raw(g[s \ {Max(s)}], Max(s))]
           h == CHOOSE g : g = Sum(g)
<1>1. n \in Nat /\ DOMAIN digits = 1..n /\ \A k \in 1..n : digits[k] \in Nat
  BY LenProperties, ElementOfSeq
<1>2. ValueOf(digits) = h[DOMAIN digits]
  BY DEF ValueOf, FoldLeft, MapThenFoldSet
<1>3. ASSUME NEW v \in Nat, NEW k \in 1..n PROVE raw(v, k) \in Nat
  <2>1. Base \in Nat \ {0} /\ digits[k] \in Nat
    BY <1>1, PacketsAssumption
  <2>2. digits[k] % Base \in Nat /\ v * Base \in Nat
    BY <2>1, DivMod
  <2> QED
    BY <2>2
<1> HIDE DEF raw
<1>4. PICK op : op = [p \in Nat \X (1..n) |-> raw(p[1], p[2])]
  OBVIOUS
<1>5. op \in FoldTo(Nat, n) /\ \A v \in Nat : \A k \in 1..n : op[<<v, k>>] = raw(v, k)
  BY <1>3, <1>4 DEF FoldTo
<1>6. PICK it \in [SUBSET (1..n) -> Nat] : FoldsAll(it, n, 0, op)
  BY <1>1, <1>5, FoldExists
<1>7. ASSUME NEW s \in SUBSET (1..n), s # {} PROVE Max(s) \in 1..n /\ s \ {Max(s)} \in SUBSET (1..n)
  <2>1. PICK m : m = Max(s)
    OBVIOUS
  <2>2. m \in s
    BY <1>1, <1>7, <2>1, MaxOf
  <2> QED
    BY <2>1, <2>2
<1>8. it = Sum(it)
  <2>1. ASSUME NEW s \in SUBSET (1..n) PROVE it[s] = IF s = {} THEN 0 ELSE raw(it[s \ {Max(s)}], Max(s))
    <3>1. it[s] = IF s = {} THEN 0 ELSE op[<<it[s \ {Max(s)}], Max(s)>>]
      BY <1>6 DEF FoldsAll
    <3> HIDE DEF n
    <3> QED
      BY <1>5, <1>7, <3>1
  <2> HIDE DEF n
  <2> QED
    BY <1>1, <2>1
<1>9. h = Sum(h)
  BY <1>8
<1> HIDE DEF h, n
<1>10. h[{}] = 0
  BY <1>1, <1>9
<1>11. ASSUME NEW s \in SUBSET (1..n), s # {}, h[s \ {Max(s)}] \in Nat PROVE h[s] = op[<<h[s \ {Max(s)}], Max(s)>>]
  <2>1. h[s] = raw(h[s \ {Max(s)}], Max(s))
    BY <1>1, <1>9, <1>11
  <2> QED
    BY <1>5, <1>7, <1>11, <2>1
<1>12. PICK f \in [0..n -> Nat] : RunsTo(n, 0, op, f, h[1..n])
  <2>1. FoldsIn(Nat, n, 0, op, h)
    BY <1>10, <1>11 DEF FoldsIn
  <2> QED
    BY <1>1, <1>5, <2>1, FoldRuns
<1>13. ASSUME NEW k \in 0..(n - 1) PROVE f[k + 1] = (f[k] * Base) + (digits[k + 1] % Base)
  <2>1. f[k] \in Nat /\ k + 1 \in 1..n
    BY <1>1
  <2>2. f[k + 1] = raw(f[k], k + 1)
    BY <1>5, <1>12, <2>1 DEF RunsTo
  <2> QED
    BY <2>2 DEF raw
<1>14. ValueSteps(f, digits)
  BY <1>1, <1>2, <1>12, <1>13 DEF ValueSteps, RunsTo, n
<1> QED
  BY <1>14 DEF n

\* Where each of the sequences that are put one after the other begins.
Offsets(f, seqs) == f[0] = 0 /\ \A k \in 0..(Len(seqs) - 1) : f[k + 1] = f[k] + Len(seqs[k + 1])

LEMMA TotalFold ==
    ASSUME NEW S, NEW seqs \in Seq(Seq(S))
    PROVE  \E f \in [0..Len(seqs) -> Nat] : Offsets(f, seqs) /\ Total(seqs) = f[Len(seqs)]
<1> DEFINE n == Len(seqs)
           raw(v, k) == v + Len(seqs[k])
           Sum(g) == [s \in SUBSET (DOMAIN seqs) |-> IF s = {} THEN 0 ELSE raw(g[s \ {Max(s)}], Max(s))]
           h == CHOOSE g : g = Sum(g)
<1>1. n \in Nat /\ DOMAIN seqs = 1..n /\ \A k \in 1..n : Len(seqs[k]) \in Nat
  BY LenProperties, ElementOfSeq
<1>2. Total(seqs) = h[DOMAIN seqs]
  BY DEF Total, FoldLeft, MapThenFoldSet
<1>3. ASSUME NEW v \in Nat, NEW k \in 1..n PROVE raw(v, k) \in Nat
  BY <1>1
<1> HIDE DEF raw
<1>4. PICK op : op = [p \in Nat \X (1..n) |-> raw(p[1], p[2])]
  OBVIOUS
<1>5. op \in FoldTo(Nat, n) /\ \A v \in Nat : \A k \in 1..n : op[<<v, k>>] = raw(v, k)
  BY <1>3, <1>4 DEF FoldTo
<1>6. PICK it \in [SUBSET (1..n) -> Nat] : FoldsAll(it, n, 0, op)
  BY <1>1, <1>5, FoldExists
<1>7. ASSUME NEW s \in SUBSET (1..n), s # {} PROVE Max(s) \in 1..n /\ s \ {Max(s)} \in SUBSET (1..n)
  <2>1. PICK m : m = Max(s)
    OBVIOUS
  <2>2. m \in s
    BY <1>1, <1>7, <2>1, MaxOf
  <2> QED
    BY <2>1, <2>2
<1>8. it = Sum(it)
  <2>1. ASSUME NEW s \in SUBSET (1..n) PROVE it[s] = IF s = {} THEN 0 ELSE raw(it[s \ {Max(s)}], Max(s))
    <3>1. it[s] = IF s = {} THEN 0 ELSE op[<<it[s \ {Max(s)}], Max(s)>>]
      BY <1>6 DEF FoldsAll
    <3> HIDE DEF n
    <3> QED
      BY <1>5, <1>7, <3>1
  <2> HIDE DEF n
  <2> QED
    BY <1>1, <2>1
<1>9. h = Sum(h)
  BY <1>8
<1> HIDE DEF h, n
<1>10. h[{}] = 0
  BY <1>1, <1>9
<1>11. ASSUME NEW s \in SUBSET (1..n), s # {}, h[s \ {Max(s)}] \in Nat PROVE h[s] = op[<<h[s \ {Max(s)}], Max(s)>>]
  <2>1. h[s] = raw(h[s \ {Max(s)}], Max(s))
    BY <1>1, <1>9, <1>11
  <2> QED
    BY <1>5, <1>7, <1>11, <2>1
<1>12. PICK f \in [0..n -> Nat] : RunsTo(n, 0, op, f, h[1..n])
  <2>1. FoldsIn(Nat, n, 0, op, h)
    BY <1>10, <1>11 DEF FoldsIn
  <2> QED
    BY <1>1, <1>5, <2>1, FoldRuns
<1>13. ASSUME NEW k \in 0..(n - 1) PROVE f[k + 1] = f[k] + Len(seqs[k + 1])
  <2>1. f[k] \in Nat /\ k + 1 \in 1..n
    BY <1>1
  <2>2. f[k + 1] = raw(f[k], k + 1)
    BY <1>5, <1>12, <2>1 DEF RunsTo
  <2> QED
    BY <2>2 DEF raw
<1>14. Offsets(f, seqs) /\ Total(seqs) = f[n]
  BY <1>1, <1>2, <1>12, <1>13 DEF Offsets, RunsTo, n
<1> QED
  BY <1>14 DEF n

\* Each of the first j sequences is in flat where it begins.
Placed(flat, f, seqs, j) ==
    /\ Len(flat) = f[j]
    /\ \A i \in 0..(j - 1) : f[i + 1] <= f[j] /\ \A k \in 1..Len(seqs[i + 1]) : flat[f[i] + k] = seqs[i + 1][k]

LEMMA FlattenPlaces ==
    ASSUME NEW S, NEW seqs \in Seq(Seq(S)), NEW f \in [0..Len(seqs) -> Nat], Offsets(f, seqs)
    PROVE  Placed(FlattenSeq(seqs), f, seqs, Len(seqs))
<1> DEFINE n == Len(seqs)
<1>1. n \in Nat /\ \A k \in 1..n : seqs[k] \in Seq(S) /\ Len(seqs[k]) \in Nat
  BY LenProperties, ElementOfSeq
<1>2. PICK g \in [0..n -> Seq(S)] : FlatSteps(g, seqs)
  BY FlattenSteps
<1>3. f \in [0..n -> Nat] /\ f[0] = 0 /\ \A k \in 0..(n - 1) : f[k + 1] = f[k] + Len(seqs[k + 1])
  BY DEF Offsets
<1>4. g[0] = <<>> /\ (\A k \in 0..(n - 1) : g[k + 1] = g[k] \o seqs[k + 1]) /\ FlattenSeq(seqs) = g[n]
  BY <1>2 DEF FlatSteps
<1> HIDE DEF n
<1> DEFINE T == {j \in Nat : j <= n => Placed(g[j], f, seqs, j)}
<1>5. 0 \in T
  BY <1>3, <1>4, EmptySeq DEF Placed
<1>6. ASSUME NEW j \in Nat, j \in T PROVE j + 1 \in T
  <2> SUFFICES ASSUME j + 1 <= n PROVE Placed(g[j + 1], f, seqs, j + 1)
    OBVIOUS
  <2>1. j \in 0..(n - 1) /\ j \in 0..n /\ j + 1 \in 1..n /\ j + 1 \in 0..n /\ Placed(g[j], f, seqs, j)
    BY <1>1, <1>6
  <2> HIDE DEF T
  <2>2. PICK a, s, b, fj : a = g[j] /\ s = seqs[j + 1] /\ b = g[j + 1] /\ fj = f[j]
    OBVIOUS
  <2>3. a \in Seq(S) /\ s \in Seq(S) /\ Len(s) \in Nat /\ b = a \o s /\ fj \in Nat /\ Len(a) = fj
    BY <1>1, <1>2, <1>3, <1>4, <2>1, <2>2 DEF Placed
  <2>4. Len(b) = fj + Len(s) /\ (\A i \in 1..fj : b[i] = a[i]) /\ \A i \in 1..Len(s) : b[fj + i] = s[i]
    <3>1. /\ Len(a \o s) = Len(a) + Len(s)
          /\ \A i \in 1..(Len(a) + Len(s)) : (a \o s)[i] = IF i <= Len(a) THEN a[i] ELSE s[i - Len(a)]
      BY <2>3, ConcatProperties
    <3>2. Len(b) = fj + Len(s) /\ \A i \in 1..(fj + Len(s)) : b[i] = IF i <= fj THEN a[i] ELSE s[i - fj]
      BY ONLY <2>3, <3>1
    <3>3. \A i \in 1..fj : i \in 1..(fj + Len(s)) /\ i <= fj
      BY <2>3
    <3>4. \A i \in 1..Len(s) : fj + i \in 1..(fj + Len(s)) /\ ~(fj + i <= fj) /\ fj + i - fj = i
      BY <2>3
    <3>5. Len(b) = fj + Len(s)
      BY <3>2
    <3>6. \A i \in 1..fj : b[i] = a[i]
      BY <3>2, <3>3
    <3>7. ASSUME NEW i \in 1..Len(s) PROVE b[fj + i] = s[i]
      <4>1. PICK p : p = fj + i
        OBVIOUS
      <4>2. p \in 1..(fj + Len(s)) /\ ~(p <= fj) /\ p - fj = i
        <5>1. i \in 1..Len(s) /\ Len(s) \in Nat /\ fj \in Nat
          BY <2>3
        <5> QED
          BY ONLY <4>1, <5>1
      <4>3. b[p] = s[p - fj]
        BY ONLY <3>2, <4>2
      <4> QED
        BY ONLY <4>1, <4>2, <4>3
    <3> QED
      BY <3>5, <3>6, <3>7
  <2>5. f[j + 1] = fj + Len(s)
    BY <1>3, <2>1, <2>2
  <2>6. ASSUME NEW i \in 0..j
        PROVE  f[i + 1] <= f[j + 1] /\ \A k \in 1..Len(seqs[i + 1]) : b[f[i] + k] = seqs[i + 1][k]
    <3>1. CASE i = j
      <4>1. f[i + 1] = f[j + 1] /\ f[j + 1] \in Nat /\ seqs[i + 1] = s /\ f[i] = fj
        <5>1. f[j + 1] \in Nat
          BY <1>3, <2>1
        <5> QED
          BY ONLY <2>2, <3>1, <5>1
      <4> QED
        BY <2>4, <4>1
    <3>2. CASE i # j
      <4>1. i \in 0..(j - 1) /\ i \in 0..(n - 1) /\ i \in 0..n /\ i + 1 \in 0..n /\ i + 1 \in 1..n
        <5>1. j \in Nat /\ i \in 0..j /\ n \in Nat /\ j + 1 <= n
          BY <1>1
        <5> QED
          BY ONLY <3>2, <5>1
      <4>2. f[i + 1] <= fj /\ \A k \in 1..Len(seqs[i + 1]) : a[f[i] + k] = seqs[i + 1][k]
        BY <2>1, <2>2, <4>1 DEF Placed
      <4>3. f[i] \in Nat /\ f[i + 1] \in Nat /\ f[i + 1] = f[i] + Len(seqs[i + 1]) /\ Len(seqs[i + 1]) \in Nat
        BY <1>1, <1>3, <4>1
      <4>4. \A k \in 1..Len(seqs[i + 1]) : f[i] + k \in 1..fj
        <5>1. PICK x, l : x = f[i] /\ l = Len(seqs[i + 1])
          OBVIOUS
        <5>2. x \in Nat /\ l \in Nat /\ x + l <= fj /\ fj \in Nat
          BY <2>3, <4>2, <4>3, <5>1
        <5>3. \A k \in 1..l : x + k \in 1..fj
          BY ONLY <5>2
        <5> QED
          BY <5>1, <5>3
      <4> QED
        <5>1. \A k \in 1..Len(seqs[i + 1]) : b[f[i] + k] = a[f[i] + k]
          BY <2>4, <4>4
        <5>2. f[j + 1] \in Nat /\ fj <= f[j + 1]
          BY ONLY <2>3, <2>5
        <5>3. fj \in Nat
          BY <2>3
        <5>4. f[i + 1] <= f[j + 1]
          BY ONLY <4>2, <4>3, <5>2, <5>3
        <5> QED
          BY ONLY <4>2, <5>1, <5>4
    <3> QED
      BY <3>1, <3>2
  <2>7. j + 1 - 1 = j
    OBVIOUS
  <2> QED
    BY <2>2, <2>4, <2>5, <2>6, <2>7 DEF Placed
<1>7. n \in T
  <2> HIDE DEF T
  <2> QED
    BY <1>1, <1>5, <1>6, Induction
<1> QED
  BY <1>1, <1>4, <1>7 DEF n

----------------------------------------------------------------------------
(* Variable length integers *)

\* Digits, all but the last one with the high bit; digit i counts Power[n - i].
BigEndFirst(d, n, v) ==
    /\ v < Power[n]
    /\ \A i \in 1..n : /\ d[i] \in Nat /\ (d[i] < Base <=> i = n)
                       /\ d[i] % Base = (v \div Power[n - i]) % Base

LEMMA VarLenDigits ==
    ASSUME NEW v \in Nat
    PROVE  \E n \in Nat \ {0} :
              /\ WriteVarLenInt(v) \in Seq(Nat) /\ Len(WriteVarLenInt(v)) = n /\ BigEndFirst(WriteVarLenInt(v), n, v)
              /\ \A k \in Nat \ {0} : v < Power[k] => n <= k
<1> DEFINE IsSize(k) == v < Power[k] /\ \A j \in 1..(k - 1) : v >= Power[j]
           n == CHOOSE k \in 1..(v + 1) : IsSize(k)
<1>1. n \in 1..(v + 1) /\ IsSize(n)
  BY DigitCount
<1>2. WriteVarLenInt(v) = [i \in 1..n |-> ((v \div Power[n - i]) % Base) + IF i < n THEN Base ELSE 0]
  BY DEF WriteVarLenInt
<1> HIDE DEF n
<1>3. n \in Nat \ {0} /\ v < Power[n]
  BY <1>1
<1>4. ASSUME NEW i \in 1..n PROVE
         /\ WriteVarLenInt(v)[i] \in Nat /\ (WriteVarLenInt(v)[i] < Base <=> i = n)
         /\ WriteVarLenInt(v)[i] % Base = (v \div Power[n - i]) % Base
  <2>1. PICK d : d = (v \div Power[n - i]) % Base
    OBVIOUS
  <2>2. d \in Nat /\ d < Base /\ Base \in Nat \ {0}
    <3>1. Power[n - i] \in Nat \ {0} /\ Base \in Nat \ {0}
      <4>1. n - i \in Nat
        BY <1>3
      <4> QED
        BY <4>1, PowerSteps, PacketsAssumption
    <3>2. v \div Power[n - i] \in Nat
      BY <3>1, DivMod
    <3> QED
      BY <2>1, <3>1, <3>2, DivMod
  <2>3. WriteVarLenInt(v)[i] = d + IF i < n THEN Base ELSE 0
    BY <1>2, <2>1
  <2>4. d % Base = d /\ (d + Base) % Base = d
    BY <2>2, Remainder
  <2>5. CASE i < n
    BY <2>1, <2>2, <2>3, <2>4, <2>5
  <2>6. CASE ~(i < n)
    <3>1. i = n
      BY <1>3, <2>6
    <3>2. WriteVarLenInt(v)[i] = d
      BY <2>2, <2>3, <2>6
    <3> QED
      BY <2>1, <2>2, <2>4, <3>1, <3>2
  <2> QED
    BY <2>5, <2>6
<1>5. WriteVarLenInt(v) \in Seq(Nat) /\ Len(WriteVarLenInt(v)) = n
  <2>1. PICK L : L = WriteVarLenInt(v)
    OBVIOUS
  <2>2. L \in [1..n -> Nat]
    BY <1>2, <1>4, <2>1
  <2>3. L \in Seq(Nat)
    BY <1>3, <2>2, SeqDef
  <2>4. DOMAIN L = 1..n /\ DOMAIN L = 1..Len(L) /\ Len(L) \in Nat
    BY <2>2, <2>3, LenProperties
  <2> QED
    BY <1>3, <2>1, <2>3, <2>4
<1>6. ASSUME NEW k \in Nat \ {0}, v < Power[k] PROVE n <= k
  <2> SUFFICES ASSUME k < n PROVE FALSE
    BY <1>3
  <2>1. k \in 1..(n - 1)
    BY <1>3
  <2>2. v >= Power[k] /\ Power[k] \in Nat
    BY <1>1, <2>1, PowerSteps
  <2> QED
    BY <1>6, <2>2
<1> QED
  BY <1>3, <1>4, <1>5, <1>6 DEF BigEndFirst

LEMMA ValueOfDigits ==
    ASSUME NEW v \in Nat, NEW d \in Seq(Nat), NEW n \in Nat, Len(d) = n, BigEndFirst(d, n, v)
    PROVE  ValueOf(d) = v
<1>1. PICK f \in [0..n -> Nat] : ValueSteps(f, d)
  BY ValueFold
<1>2. f[0] = 0 /\ (\A k \in 0..(n - 1) : f[k + 1] = (f[k] * Base) + (d[k + 1] % Base)) /\ ValueOf(d) = f[n]
  BY <1>1 DEF ValueSteps
<1> DEFINE T == {k \in Nat : k <= n => f[k] = v \div Power[n - k]}
<1>3. 0 \in T
  <2>1. v < Power[n] /\ Power[n] \in Nat \ {0} /\ n - 0 = n
    <3>1. v < Power[n] /\ n - 0 = n
      BY DEF BigEndFirst
    <3>2. Power[n] \in Nat \ {0}
      BY PowerSteps
    <3> QED
      BY <3>1, <3>2
  <2>2. v \div Power[n] = 0
    <3>1. v = Power[n] * 0 + v
      BY <2>1
    <3> QED
      BY <2>1, <3>1, DivModUnique
  <2> QED
    BY <1>2, <2>1, <2>2
<1>4. ASSUME NEW k \in Nat, k \in T PROVE k + 1 \in T
  <2> SUFFICES ASSUME k + 1 <= n PROVE f[k + 1] = v \div Power[n - (k + 1)]
    OBVIOUS
  <2>1. k \in 0..(n - 1) /\ k + 1 \in 1..n /\ f[k] = v \div Power[n - k]
    BY <1>4
  <2> HIDE DEF T
  <2>2. PICK j : j = n - (k + 1)
    OBVIOUS
  <2>3. j \in Nat /\ n - k = j + 1
    BY <2>2
  <2>4. PICK m : m = Power[j]
    OBVIOUS
  <2>5. m \in Nat \ {0} /\ Power[n - k] = Base * m /\ Base \in Nat \ {0}
    BY <2>3, <2>4, PowerSteps, PacketsAssumption
  <2>6. v \div m = ((v \div (Base * m)) * Base) + ((v \div m) % Base)
    BY <2>5, DigitSplit
  <2>7. d[k + 1] % Base = (v \div m) % Base
    BY <2>1, <2>2, <2>4 DEF BigEndFirst
  <2>8. f[k + 1] = (f[k] * Base) + (d[k + 1] % Base)
    BY <1>2, <2>1
  <2> QED
    BY <2>1, <2>2, <2>4, <2>5, <2>6, <2>7, <2>8
<1>5. n \in T
  <2> HIDE DEF T
  <2> QED
    BY <1>3, <1>4, Induction
<1>6. f[n] = v \div Power[0]
  <2>1. n - n = 0
    OBVIOUS
  <2> QED
    BY <1>5, <2>1
<1>7. v \div 1 = v
  <2>1. v = 1 * v + 0
    OBVIOUS
  <2> QED
    BY <2>1, DivModUnique
<1> QED
  BY <1>2, <1>6, <1>7, PowerSteps

\* A length that is all there is read, and what is behind it is left alone.
LEMMA VarLenRead ==
    ASSUME NEW v \in Nat, v < Power[Digits], NEW bytes \in Seq(Nat), Len(WriteVarLenInt(v)) <= Len(bytes),
           \A i \in 1..Len(WriteVarLenInt(v)) : bytes[i] = WriteVarLenInt(v)[i]
    PROVE  ReadVarLenInt(bytes) = [value |-> v, size |-> Len(WriteVarLenInt(v))]
<1>1. PICK d, n : d = WriteVarLenInt(v) /\ n = Len(WriteVarLenInt(v))
  OBVIOUS
<1>2. n \in Nat \ {0} /\ d \in Seq(Nat) /\ Len(d) = n /\ BigEndFirst(d, n, v) /\ n <= Digits /\ Digits \in Nat \ {0}
  BY <1>1, VarLenDigits, PacketsAssumption
<1>3. n <= Len(bytes) /\ Len(bytes) \in Nat /\ \A i \in 1..n : bytes[i] = d[i]
  BY <1>1, LenProperties
<1> DEFINE ends(k) == k <= Len(bytes) /\ (bytes[k] < Base \/ k = Digits + 1)
           Ends == {k \in 1..(Digits + 1) : ends(k)}
           m == CHOOSE k \in Ends : \A j \in Ends : k <= j
           digits == SubSeq(bytes, 1, IF m > Digits THEN Digits ELSE m)
<1>4. ReadVarLenInt(bytes) = IF Ends = {} THEN [value |-> 0, size |-> 0] ELSE [value |-> ValueOf(digits), size |-> m]
  BY DEF ReadVarLenInt
<1>5. n \in Ends
  <2>1. n \in 1..n /\ d[n] < Base
    BY <1>2 DEF BigEndFirst
  <2> QED
    BY <1>2, <1>3, <2>1
<1>6. \A j \in Ends : n <= j
  <2> SUFFICES ASSUME NEW j \in Ends, j < n PROVE FALSE
    BY <1>2
  <2>1. j \in 1..n /\ j # n /\ j # Digits + 1
    BY <1>2
  <2>2. ~(d[j] < Base)
    BY <1>2, <2>1 DEF BigEndFirst
  <2> QED
    BY <1>3, <2>1, <2>2
<1>7. Ends \subseteq Nat
  BY <1>2
<1> HIDE DEF Ends
<1>8. m = n
  <2>1. m \in Ends /\ \A j \in Ends : m <= j
    BY <1>5, <1>6
  <2>2. m <= n /\ n <= m /\ m \in Nat
    BY <1>5, <1>6, <1>7, <2>1
  <2> QED
    BY <1>2, <2>2
<1> HIDE DEF m
<1>9. digits = d
  <2>1. digits = SubSeq(bytes, 1, n)
    BY <1>2, <1>8
  <2>2. PICK s : s = SubSeq(bytes, 1, n)
    OBVIOUS
  <2>3. s \in Seq(Nat) /\ Len(s) = n /\ \A i \in 1..n : s[i] = bytes[i]
    <3>1. \A i \in 1..n : bytes[i] \in Nat
      BY <1>2, <1>3 DEF BigEndFirst
    <3>2. 1 \in Int /\ n \in Int
      BY <1>2
    <3>3. /\ SubSeq(bytes, 1, n) \in Seq(Nat)
          /\ Len(SubSeq(bytes, 1, n)) = IF 1 <= n THEN n - 1 + 1 ELSE 0
          /\ \A i \in 1..(n - 1 + 1) : SubSeq(bytes, 1, n)[i] = bytes[1 + i - 1]
      BY <3>1, <3>2, SubSeqProperties
    <3>4. n - 1 + 1 = n /\ 1 <= n /\ \A i \in 1..n : 1 + i - 1 = i
      BY <1>2
    <3> QED
      BY <2>2, <3>3, <3>4
  <2>4. s = d
    BY <1>2, <1>3, <2>3, SeqEqual
  <2> QED
    BY <2>1, <2>2, <2>4
<1>10. ValueOf(d) = v
  BY <1>2, ValueOfDigits
<1> HIDE DEF digits
<1> QED
  BY <1>1, <1>4, <1>5, <1>8, <1>9, <1>10

\* A length that is cut is not.
LEMMA VarLenCut ==
    ASSUME NEW v \in Nat, v < Power[Digits], NEW bytes \in Seq(Nat), Len(bytes) < Len(WriteVarLenInt(v)),
           \A i \in 1..Len(bytes) : bytes[i] = WriteVarLenInt(v)[i]
    PROVE  ReadVarLenInt(bytes).size = 0
<1>1. PICK d, n : d = WriteVarLenInt(v) /\ n = Len(WriteVarLenInt(v))
  OBVIOUS
<1>2. n \in Nat \ {0} /\ BigEndFirst(d, n, v) /\ n <= Digits /\ Digits \in Nat \ {0}
  BY <1>1, VarLenDigits, PacketsAssumption
<1>3. Len(bytes) < n /\ Len(bytes) \in Nat /\ \A i \in 1..Len(bytes) : bytes[i] = d[i]
  BY <1>1, LenProperties
<1> DEFINE ends(k) == k <= Len(bytes) /\ (bytes[k] < Base \/ k = Digits + 1)
           Ends == {k \in 1..(Digits + 1) : ends(k)}
<1>4. Ends = {}
  <2> SUFFICES ASSUME NEW k \in Ends PROVE FALSE
    OBVIOUS
  <2>1. k \in 1..Len(bytes) /\ k \in 1..n /\ k # n /\ k # Digits + 1
    BY <1>2, <1>3
  <2>2. ~(d[k] < Base)
    BY <1>2, <2>1 DEF BigEndFirst
  <2> QED
    BY <1>3, <2>1, <2>2
<1>5. ReadVarLenInt(bytes) = [value |-> 0, size |-> 0]
  BY <1>4 DEF ReadVarLenInt
<1> QED
  BY <1>5

LEMMA VarLenType ==
    ASSUME NEW bytes \in Seq(Nat)
    PROVE  ReadVarLenInt(bytes).value \in Nat /\ ReadVarLenInt(bytes).size \in Nat
<1> DEFINE ends(k) == k <= Len(bytes) /\ (bytes[k] < Base \/ k = Digits + 1)
           Ends == {k \in 1..(Digits + 1) : ends(k)}
           m == CHOOSE k \in Ends : \A j \in Ends : k <= j
           digits == SubSeq(bytes, 1, IF m > Digits THEN Digits ELSE m)
<1>1. ReadVarLenInt(bytes) = IF Ends = {} THEN [value |-> 0, size |-> 0] ELSE [value |-> ValueOf(digits), size |-> m]
  BY DEF ReadVarLenInt
<1>2. CASE Ends = {}
  BY <1>1, <1>2
<1>3. CASE Ends # {}
  <2>1. Ends \subseteq Nat /\ \A k \in Ends : k \in 1..Len(bytes) /\ Len(bytes) \in Nat
    BY PacketsAssumption, LenProperties
  <2>2. \E k \in Ends : \A j \in Ends : k <= j
    BY <1>3, <2>1, Least
  <2> HIDE DEF Ends
  <2>3. m \in Ends
    BY <2>2
  <2> HIDE DEF m
  <2>4. PICK k : k = IF m > Digits THEN Digits ELSE m
    OBVIOUS
  <2>5. k \in Nat /\ k <= Len(bytes) /\ k \in Int /\ 1 \in Int
    BY <2>1, <2>3, <2>4, PacketsAssumption
  <2>6. \A i \in 1..k : bytes[i] \in Nat
    <3>1. \A i \in 1..k : i \in 1..Len(bytes)
      BY <2>1, <2>3, <2>5
    <3> QED
      BY <3>1, ElementOfSeq
  <2>7. digits \in Seq(Nat)
    BY <2>4, <2>5, <2>6, SubSeqProperties
  <2>8. PICK f \in [0..Len(digits) -> Nat] : ValueSteps(f, digits)
    <3> HIDE DEF digits
    <3> QED
      BY <2>7, ValueFold
  <2>9. ValueOf(digits) \in Nat
    <3>1. Len(digits) \in 0..Len(digits)
      BY <2>7, LenProperties
    <3> HIDE DEF digits
    <3> QED
      BY <2>8, <3>1 DEF ValueSteps
  <2> HIDE DEF digits
  <2> QED
    BY <1>1, <1>3, <2>1, <2>3, <2>9
<1> QED
  BY <1>2, <1>3

----------------------------------------------------------------------------
(* Arrays of arguments *)

\* What ReadArrayOfByteArray keeps while it reads the lengths.
Reading == [ok : BOOLEAN, at : Nat \ {0}, ends : Seq(Nat) \ {<<>>}]
AtStart == [ok |-> TRUE, at |-> 2, ends |-> <<0>>]

LEMMA RestOfBytes ==
    ASSUME NEW bytes \in Seq(Nat), NEW at \in Nat \ {0}, NEW rest, rest = SubSeq(bytes, at, Len(bytes))
    PROVE  /\ rest \in Seq(Nat) /\ Len(rest) = IF at <= Len(bytes) THEN Len(bytes) - at + 1 ELSE 0
           /\ \A i \in 1..Len(rest) : rest[i] = bytes[at + i - 1]
<1>1. Len(bytes) \in Nat /\ \A i \in 1..Len(bytes) : bytes[i] \in Nat
  BY LenProperties, ElementOfSeq
<1>2. at \in Int /\ Len(bytes) \in Int /\ \A i \in at..Len(bytes) : bytes[i] \in Nat
  BY <1>1
<1>3. PICK m : m = Len(bytes)
  OBVIOUS
<1>4. /\ rest \in Seq(Nat)
      /\ Len(rest) = IF at <= m THEN m - at + 1 ELSE 0
      /\ \A i \in 1..(m - at + 1) : rest[i] = bytes[at + i - 1]
  <2>1. at \in Int /\ m \in Int /\ \A i \in at..m : bytes[i] \in Nat
    BY <1>2, <1>3
  <2>2. /\ SubSeq(bytes, at, m) \in Seq(Nat)
        /\ Len(SubSeq(bytes, at, m)) = IF at <= m THEN m - at + 1 ELSE 0
        /\ \A i \in 1..(m - at + 1) : SubSeq(bytes, at, m)[i] = bytes[at + i - 1]
    BY ONLY <2>1, SubSeqProperties
  <2> QED
    BY <1>3, <2>2
<1>5. \A i \in 1..Len(rest) : i \in 1..(m - at + 1)
  BY <1>1, <1>3, <1>4
<1> QED
  BY <1>3, <1>4, <1>5

LEMMA AppendNumber ==
    ASSUME NEW t \in Seq(Nat), NEW e \in Nat
    PROVE  Append(t, e) \in Seq(Nat) /\ Append(t, e) # <<>>
BY AppendProperties

LEMMA ReadLengthType ==
    ASSUME NEW bytes \in Seq(Nat), NEW s \in Reading
    PROVE  ReadLength(bytes, s) \in Reading
<1>1. s.ok \in BOOLEAN /\ s.at \in Nat \ {0} /\ s.ends \in Seq(Nat) /\ s.ends # <<>>
  BY DEF Reading
<1>2. PICK rest : rest = SubSeq(bytes, s.at, Len(bytes))
  OBVIOUS
<1>3. rest \in Seq(Nat)
  BY <1>1, <1>2, RestOfBytes
<1>4. PICK v : v = ReadVarLenInt(rest)
  OBVIOUS
<1>5. v.value \in Nat /\ v.size \in Nat
  BY <1>3, <1>4, VarLenType
<1>6. ReadLength(bytes, s) = IF ~s.ok \/ v.size = 0 THEN [s EXCEPT !.ok = FALSE]
                             ELSE [ok |-> TRUE, at |-> s.at + v.size, ends |-> Append(s.ends, Last(s.ends) + v.value)]
  BY <1>2, <1>4 DEF ReadLength
<1>7. [s EXCEPT !.ok = FALSE] \in Reading
  BY DEF Reading
<1>8. Last(s.ends) \in Nat
  <2>1. Len(s.ends) \in Nat \ {0}
    BY <1>1, EmptySeq
  <2>2. Len(s.ends) \in 1..Len(s.ends)
    BY <2>1
  <2> QED
    BY <1>1, <2>2, ElementOfSeq DEF Last
<1>9. Append(s.ends, Last(s.ends) + v.value) \in Seq(Nat) \ {<<>>}
  <2>1. PICK e : e = Last(s.ends) + v.value
    OBVIOUS
  <2>2. e \in Nat
    BY <1>5, <1>8, <2>1
  <2>3. Append(s.ends, e) \in Seq(Nat) /\ Append(s.ends, e) # <<>>
    <3>1. PICK t : t = s.ends
      OBVIOUS
    <3>2. t \in Seq(Nat)
      BY <1>1, <3>1
    <3>3. Append(t, e) \in Seq(Nat) /\ Append(t, e) # <<>>
      BY ONLY <2>2, <3>2, AppendNumber
    <3> QED
      BY <3>1, <3>3
  <2> QED
    BY <2>1, <2>3
<1>10. s.at + v.size \in Nat \ {0}
  BY <1>1, <1>5
<1>11. [ok |-> TRUE, at |-> s.at + v.size, ends |-> Append(s.ends, Last(s.ends) + v.value)] \in Reading
  <2>1. PICK a, e : a = s.at + v.size /\ e = Append(s.ends, Last(s.ends) + v.value)
    OBVIOUS
  <2>2. a \in Nat \ {0} /\ e \in Seq(Nat) \ {<<>>}
    BY <1>9, <1>10, <2>1
  <2>3. [ok |-> TRUE, at |-> a, ends |-> e] \in Reading
    BY ONLY <2>2 DEF Reading
  <2> QED
    BY <2>1, <2>3
<1> QED
  BY <1>6, <1>7, <1>11

LengthSteps(f, bytes, n) ==
    /\ f[0] = AtStart /\ \A k \in 0..(n - 1) : f[k + 1] = ReadLength(bytes, f[k])
    /\ ReadLengths(bytes, n) = f[n]

LEMMA LengthsFold ==
    ASSUME NEW bytes \in Seq(Nat), NEW n \in Nat
    PROVE  \E f \in [0..n -> Reading] : LengthSteps(f, bytes, n)
<1> DEFINE idx == [i \in 1..n |-> i]
           Sum(g) == [s \in SUBSET (DOMAIN idx) |-> IF s = {} THEN AtStart ELSE ReadLength(bytes, g[s \ {Max(s)}])]
           h == CHOOSE g : g = Sum(g)
<1>1. DOMAIN idx = 1..n
  OBVIOUS
<1>2. ReadLengths(bytes, n) = h[DOMAIN idx]
  BY DEF ReadLengths, FoldLeft, MapThenFoldSet, AtStart
<1>3. AtStart \in Reading
  <2>1. <<0>> \in Seq(Nat) /\ <<0>> # <<>>
    OBVIOUS
  <2> QED
    BY <2>1 DEF AtStart, Reading
<1>4. PICK op : op = [p \in Reading \X (1..n) |-> ReadLength(bytes, p[1])]
  OBVIOUS
<1>5. op \in FoldTo(Reading, n) /\ \A v \in Reading : \A k \in 1..n : op[<<v, k>>] = ReadLength(bytes, v)
  BY <1>4, ReadLengthType DEF FoldTo
<1>6. PICK it \in [SUBSET (1..n) -> Reading] : FoldsAll(it, n, AtStart, op)
  BY <1>3, <1>5, FoldExists
<1>7. ASSUME NEW s \in SUBSET (1..n), s # {} PROVE Max(s) \in 1..n /\ s \ {Max(s)} \in SUBSET (1..n)
  <2>1. PICK m : m = Max(s)
    OBVIOUS
  <2>2. m \in s
    BY <1>7, <2>1, MaxOf
  <2> QED
    BY <2>1, <2>2
<1> HIDE DEF idx
<1>8. it = Sum(it)
  <2>1. ASSUME NEW s \in SUBSET (1..n) PROVE it[s] = IF s = {} THEN AtStart ELSE ReadLength(bytes, it[s \ {Max(s)}])
    <3>1. it[s] = IF s = {} THEN AtStart ELSE op[<<it[s \ {Max(s)}], Max(s)>>]
      BY <1>6 DEF FoldsAll
    <3> QED
      BY <1>5, <1>7, <3>1
  <2> QED
    BY <1>1, <2>1
<1>9. h = Sum(h)
  BY <1>8
<1> HIDE DEF h
<1>10. h[{}] = AtStart
  BY <1>1, <1>9
<1>11. ASSUME NEW s \in SUBSET (1..n), s # {}, h[s \ {Max(s)}] \in Reading PROVE h[s] = op[<<h[s \ {Max(s)}], Max(s)>>]
  <2>1. h[s] = ReadLength(bytes, h[s \ {Max(s)}])
    BY <1>1, <1>9, <1>11
  <2> QED
    BY <1>5, <1>7, <1>11, <2>1
<1>12. PICK f \in [0..n -> Reading] : RunsTo(n, AtStart, op, f, h[1..n])
  <2>1. FoldsIn(Reading, n, AtStart, op, h)
    BY <1>10, <1>11 DEF FoldsIn
  <2> QED
    BY <1>3, <1>5, <2>1, FoldRuns
<1>13. ASSUME NEW k \in 0..(n - 1) PROVE f[k + 1] = ReadLength(bytes, f[k])
  <2>1. f[k] \in Reading /\ k + 1 \in 1..n
    OBVIOUS
  <2> QED
    BY <1>5, <1>12, <2>1 DEF RunsTo
<1>14. LengthSteps(f, bytes, n)
  BY <1>1, <1>2, <1>12, <1>13 DEF LengthSteps, RunsTo
<1> QED
  BY <1>14

\* The digits of the length of an argument.
Digit(args, i) == WriteVarLenInt(Len(args[i]))

\* Where the lengths and the arguments are in what is written.
Layout(args, out, h, d) ==
    /\ h \in [0..Len(args) -> Nat] /\ h[0] = 0
    /\ \A k \in 0..(Len(args) - 1) : h[k + 1] = h[k] + Len(Digit(args, k + 1)) /\ h[k + 1] <= h[Len(args)]
    /\ d \in [0..Len(args) -> Nat] /\ d[0] = 0 /\ Total(args) = d[Len(args)]
    /\ \A k \in 0..(Len(args) - 1) : d[k + 1] = d[k] + Len(args[k + 1]) /\ d[k + 1] <= d[Len(args)]
    /\ out \in Seq(Nat) /\ Len(out) = 1 + h[Len(args)] + d[Len(args)] /\ out[1] = Len(args)
    /\ \A k \in 0..(Len(args) - 1) : \A i \in 1..Len(Digit(args, k + 1)) : out[1 + h[k] + i] = Digit(args, k + 1)[i]
    /\ \A k \in 0..(Len(args) - 1) : \A i \in 1..Len(args[k + 1]) : out[1 + h[Len(args)] + d[k] + i] = args[k + 1][i]

\* Of three parts, where the second and the third are.
LEMMA ThreeParts ==
    ASSUME NEW S, NEW b \in S, NEW s \in Seq(S), NEW t \in Seq(S), NEW out, out = <<b>> \o s \o t
    PROVE  /\ out \in Seq(S) /\ Len(out) = 1 + Len(s) + Len(t) /\ out[1] = b
           /\ \A i \in 1..Len(s) : out[1 + i] = s[i]
           /\ \A i \in 1..Len(t) : out[1 + Len(s) + i] = t[i]
<1>1. PICK r : r = <<b>> \o s
  OBVIOUS
<1>2. r \in Seq(S) /\ Len(r) = 1 + Len(s) /\ r[1] = b /\ \A i \in 1..Len(s) : r[i + 1] = s[i]
  BY <1>1, Behind
<1>3. Len(s) \in Nat /\ Len(t) \in Nat
  BY LenProperties
<1>4. /\ r \o t \in Seq(S) /\ Len(r \o t) = Len(r) + Len(t)
      /\ \A i \in 1..(Len(r) + Len(t)) : (r \o t)[i] = IF i <= Len(r) THEN r[i] ELSE t[i - Len(r)]
  <2>1. r \in Seq(S) /\ t \in Seq(S)
    BY <1>2
  <2> QED
    BY ONLY <2>1, ConcatProperties
<1>5. out = r \o t
  BY <1>1
<1>6. PICK m, n : m = Len(s) /\ n = Len(t)
  OBVIOUS
<1>7. /\ out \in Seq(S) /\ Len(out) = 1 + m + n
      /\ \A i \in 1..(1 + m + n) : out[i] = IF i <= 1 + m THEN r[i] ELSE t[i - (1 + m)]
  BY ONLY <1>2, <1>4, <1>5, <1>6
<1>8. out[1] = b
  <2>1. 1 \in 1..(1 + m + n) /\ 1 <= 1 + m
    BY <1>3, <1>6
  <2> QED
    BY <1>2, <1>7, <2>1
<1>9. ASSUME NEW i \in 1..m PROVE out[1 + i] = s[i]
  <2>1. 1 + i \in 1..(1 + m + n) /\ 1 + i <= 1 + m /\ 1 + i = i + 1
    BY <1>3, <1>6
  <2> QED
    BY <1>2, <1>6, <1>7, <2>1
<1>10. ASSUME NEW i \in 1..n PROVE out[1 + m + i] = t[i]
  <2>1. PICK p, q : p = 1 + m + i /\ q = 1 + m
    OBVIOUS
  <2>2. p \in 1..(1 + m + n) /\ ~(p <= q) /\ p - q = i
    BY <1>3, <1>6, <2>1
  <2>3. out[p] = t[p - q]
    BY <1>7, <2>1, <2>2
  <2> QED
    BY <2>1, <2>2, <2>3
<1> QED
  BY <1>6, <1>7, <1>8, <1>9, <1>10

LEMMA WrittenArray ==
    ASSUME NEW args \in Seq(Bytes)
    PROVE  \E h, d : Layout(args, WriteArrayOfByteArray(args), h, d)
<1> DEFINE c == Len(args)
           H == [i \in DOMAIN args |-> WriteVarLenInt(Len(args[i]))]
<1>1. args \in Seq(Seq(Nat)) /\ c \in Nat /\ DOMAIN args = 1..c /\ \A i \in 1..c : args[i] \in Seq(Nat) /\ Len(args[i]) \in Nat
  <2>1. args \in Seq(Seq(Nat)) /\ c \in Nat /\ DOMAIN args = 1..c
    BY LenProperties DEF Bytes
  <2>2. \A i \in 1..c : args[i] \in Seq(Nat)
    BY <2>1, ElementOfSeq
  <2> QED
    BY <2>1, <2>2, LenProperties
<1>2. H \in Seq(Seq(Nat)) /\ Len(H) = c /\ \A i \in 1..c : H[i] = Digit(args, i) /\ Digit(args, i) \in Seq(Nat)
  <2>1. \A i \in 1..c : WriteVarLenInt(Len(args[i])) \in Seq(Nat)
    BY <1>1, VarLenDigits
  <2>2. PICK g : g = H
    OBVIOUS
  <2>3. g \in [1..c -> Seq(Nat)]
    BY <1>1, <2>1, <2>2
  <2>4. g \in Seq(Seq(Nat))
    <3>1. c \in Nat
      BY <1>1
    <3> QED
      BY ONLY <2>3, <3>1, SeqDef
  <2>5. DOMAIN g = 1..c /\ DOMAIN g = 1..Len(g) /\ Len(g) \in Nat
    BY <2>3, <2>4, LenProperties
  <2>6. Len(g) = c
    BY ONLY <1>1, <2>5
  <2> QED
    BY <1>1, <2>1, <2>2, <2>4, <2>6 DEF Digit
<1> HIDE DEF c, H
<1>3. PICK h \in [0..c -> Nat] : Offsets(h, H)
  BY <1>2, TotalFold
<1>4. PICK d \in [0..c -> Nat] : Offsets(d, args) /\ Total(args) = d[c]
  BY <1>1, TotalFold DEF c
<1>5. PICK heads, data : heads = FlattenSeq(H) /\ data = FlattenSeq(args)
  OBVIOUS
<1>6. Placed(heads, h, H, c)
  BY <1>2, <1>3, <1>5, FlattenPlaces
<1>7. Placed(data, d, args, c)
  BY <1>1, <1>4, <1>5, FlattenPlaces DEF c
<1>8. heads \in Seq(Nat) /\ data \in Seq(Nat)
  BY <1>1, <1>2, <1>5, FlattenType
<1>9. PICK out : out = WriteArrayOfByteArray(args)
  OBVIOUS
<1>10. out = <<c>> \o heads \o data
  BY <1>5, <1>9 DEF WriteArrayOfByteArray, c, H
<1>11. /\ out \in Seq(Nat) /\ Len(out) = 1 + Len(heads) + Len(data) /\ out[1] = c
       /\ \A i \in 1..Len(heads) : out[1 + i] = heads[i]
       /\ \A i \in 1..Len(data) : out[1 + Len(heads) + i] = data[i]
  BY <1>1, <1>8, <1>10, ThreeParts
<1>12. Len(heads) = h[c] /\ Len(data) = d[c] /\ h[c] \in Nat /\ d[c] \in Nat
  BY <1>1, <1>6, <1>7 DEF Placed
<1>13. ASSUME NEW k \in 0..(c - 1)
       PROVE  /\ h[k + 1] = h[k] + Len(Digit(args, k + 1)) /\ h[k + 1] <= h[c]
              /\ \A i \in 1..Len(Digit(args, k + 1)) : out[1 + h[k] + i] = Digit(args, k + 1)[i]
  <2>1. k + 1 \in 1..c /\ k \in 0..c /\ k + 1 \in 0..c
    BY <1>1
  <2>2. PICK w, x, y : w = Digit(args, k + 1) /\ x = h[k] /\ y = h[c]
    OBVIOUS
  <2>3. H[k + 1] = w /\ Len(w) \in Nat /\ x \in Nat /\ y \in Nat
    BY <1>2, <1>12, <2>1, <2>2, LenProperties
  <2>4. h[k + 1] = x + Len(w) /\ h[k + 1] <= y /\ \A i \in 1..Len(w) : heads[x + i] = w[i]
    BY <1>2, <1>3, <1>6, <2>2, <2>3 DEF Offsets, Placed
  <2>5. ASSUME NEW i \in 1..Len(w) PROVE out[1 + x + i] = w[i]
    <3>1. PICK p : p = x + i
      OBVIOUS
    <3>2. p \in 1..y /\ 1 + p = 1 + x + i
      BY <2>3, <2>4, <3>1
    <3>3. out[1 + p] = heads[p] /\ heads[p] = w[i]
      BY <1>11, <1>12, <2>2, <2>4, <3>1, <3>2
    <3> QED
      BY <3>2, <3>3
  <2> QED
    BY <2>2, <2>4, <2>5
<1>14. ASSUME NEW k \in 0..(c - 1)
       PROVE  /\ d[k + 1] = d[k] + Len(args[k + 1]) /\ d[k + 1] <= d[c]
              /\ \A i \in 1..Len(args[k + 1]) : out[1 + h[c] + d[k] + i] = args[k + 1][i]
  <2>1. k + 1 \in 1..c /\ k \in 0..c /\ k + 1 \in 0..c
    BY <1>1
  <2>2. PICK w, x, y, z : w = args[k + 1] /\ x = d[k] /\ y = d[c] /\ z = h[c]
    OBVIOUS
  <2>3. Len(w) \in Nat /\ x \in Nat /\ y \in Nat /\ z \in Nat
    BY <1>1, <1>12, <2>1, <2>2
  <2>4. d[k + 1] = x + Len(w) /\ d[k + 1] <= y /\ \A i \in 1..Len(w) : data[x + i] = w[i]
    BY <1>4, <1>7, <2>2 DEF Offsets, Placed, c
  <2>5. ASSUME NEW i \in 1..Len(w) PROVE out[1 + z + x + i] = w[i]
    <3>1. PICK p : p = x + i
      OBVIOUS
    <3>2. p \in 1..y /\ 1 + z + p = 1 + z + x + i
      BY <2>3, <2>4, <3>1
    <3>3. out[1 + z + p] = data[p] /\ data[p] = w[i]
      <4>1. p \in 1..Len(data) /\ Len(heads) = z
        BY <1>12, <2>2, <3>2
      <4>2. out[1 + z + p] = data[p]
        BY <1>11, <4>1
      <4> QED
        BY <2>4, <3>1, <4>2
    <3> QED
      BY <3>2, <3>3
  <2> QED
    BY <2>2, <2>4, <2>5
<1>15. h[0] = 0 /\ d[0] = 0
  BY <1>3, <1>4 DEF Offsets
<1>16. Layout(args, out, h, d)
  BY <1>4, <1>11, <1>12, <1>13, <1>14, <1>15 DEF Layout, c
<1> QED
  BY <1>9, <1>16

\* The first bytes of what was written.
FirstOf(bytes, out) ==
    /\ bytes \in Seq(Nat) /\ 1 <= Len(bytes) /\ Len(bytes) <= Len(out)
    /\ \A i \in 1..Len(bytes) : bytes[i] = out[i]

\* Where the first k arguments end.
Ends(d, k) == [i \in 1..(k + 1) |-> d[i - 1]]

\* What is known when k lengths are read, or one of them was cut.
LengthsRead(s, bytes, h, d, k) ==
    IF 1 + h[k] <= Len(bytes) THEN s = [ok |-> TRUE, at |-> 2 + h[k], ends |-> Ends(d, k)] ELSE s.ok = FALSE

EndsOf(n, d, j, e) == n \in Nat /\ d \in [0..n -> Nat] /\ j \in 0..n /\ e = Ends(d, j)
HasEnds(d, j, e) == e \in Seq(Nat) /\ Len(e) = j + 1 /\ Last(e) = d[j] /\ \A i \in 1..(j + 1) : e[i] = d[i - 1]

LEMMA EndsShape ==
    ASSUME NEW n, NEW d, NEW j, NEW e, EndsOf(n, d, j, e)
    PROVE  HasEnds(d, j, e)
<1> USE DEF EndsOf, HasEnds
<1>1. \A i \in 1..(j + 1) : i - 1 \in 0..n /\ d[i - 1] \in Nat
  OBVIOUS
<1>2. e \in [1..(j + 1) -> Nat] /\ \A i \in 1..(j + 1) : e[i] = d[i - 1]
  BY <1>1 DEF Ends
<1>3. j + 1 \in Nat /\ j + 1 \in 1..(j + 1) /\ (j + 1) - 1 = j
  OBVIOUS
<1>4. e \in Seq(Nat)
  BY <1>2, <1>3, SeqDef
<1>5. DOMAIN e = 1..(j + 1) /\ DOMAIN e = 1..Len(e) /\ Len(e) \in Nat
  BY <1>2, <1>4, LenProperties
<1>6. Len(e) = j + 1
  BY ONLY <1>3, <1>5
<1>7. Last(e) = d[j]
  BY <1>2, <1>3, <1>6 DEF Last
<1> QED
  BY <1>2, <1>4, <1>6, <1>7

LEMMA EndsStep ==
    ASSUME NEW n \in Nat, NEW d \in [0..n -> Nat], NEW k \in 0..(n - 1)
    PROVE  /\ Ends(d, k) \in Seq(Nat) /\ Last(Ends(d, k)) = d[k]
           /\ Append(Ends(d, k), d[k + 1]) = Ends(d, k + 1)
<1>1. PICK a, b : a = Ends(d, k) /\ b = Ends(d, k + 1)
  OBVIOUS
<1>3. k \in Nat /\ k \in 0..n /\ k + 1 \in 0..n /\ d[k + 1] \in Nat
  OBVIOUS
<1>4. a \in Seq(Nat) /\ Len(a) = k + 1 /\ Last(a) = d[k] /\ \A i \in 1..(k + 1) : a[i] = d[i - 1]
  <2>1. EndsOf(n, d, k, a)
    BY <1>1, <1>3 DEF EndsOf
  <2>2. HasEnds(d, k, a)
    BY <2>1, EndsShape
  <2> QED
    BY ONLY <2>2 DEF HasEnds
<1>5. b \in Seq(Nat) /\ Len(b) = k + 2 /\ \A i \in 1..(k + 2) : b[i] = d[i - 1]
  <2>1. b \in Seq(Nat) /\ Len(b) = (k + 1) + 1 /\ \A i \in 1..((k + 1) + 1) : b[i] = d[i - 1]
    <3>1. EndsOf(n, d, k + 1, b)
      BY <1>1, <1>3 DEF EndsOf
    <3>2. HasEnds(d, k + 1, b)
      BY <3>1, EndsShape
    <3> QED
      BY ONLY <3>2 DEF HasEnds
  <2>2. (k + 1) + 1 = k + 2
    BY <1>3
  <2> QED
    BY <2>1, <2>2
<1>7. PICK c, v : v = d[k + 1] /\ c = Append(a, v)
  OBVIOUS
<1>8. c \in Seq(Nat) /\ Len(c) = k + 2 /\ c[k + 2] = v /\ \A i \in 1..(k + 1) : c[i] = a[i]
  <2>1. v \in Nat
    BY <1>3, <1>7
  <2>2. /\ Append(a, v) \in Seq(Nat) /\ Len(Append(a, v)) = Len(a) + 1
        /\ \A i \in 1..Len(a) : Append(a, v)[i] = a[i]
        /\ Append(a, v)[Len(a) + 1] = v
    BY <1>4, <2>1, AppendProperties
  <2>3. Len(a) + 1 = k + 2
    BY <1>3, <1>4
  <2> QED
    BY ONLY <1>4, <1>7, <2>2, <2>3
<1>9. \A i \in 1..(k + 2) : c[i] = b[i]
  <2> SUFFICES ASSUME NEW i \in 1..(k + 2) PROVE c[i] = b[i]
    OBVIOUS
  <2>1. CASE i = k + 2
    <3>1. i - 1 = k + 1
      BY <1>3, <2>1
    <3> QED
      BY <1>5, <1>7, <1>8, <2>1, <3>1
  <2>2. CASE i # k + 2
    <3>1. i \in 1..(k + 1)
      BY <1>3, <2>2
    <3> QED
      BY <1>4, <1>5, <1>8, <3>1
  <2> QED
    BY <2>1, <2>2
<1>10. c = b
  <2>1. Len(c) = Len(b) /\ \A i \in 1..Len(c) : c[i] = b[i]
    BY <1>5, <1>8, <1>9
  <2> QED
    BY <1>5, <1>8, <2>1, SeqEqual
<1> QED
  BY <1>1, <1>4, <1>7, <1>10

LEMMA OneLength ==
    ASSUME NEW args \in Seq(Bytes), \A i \in 1..Len(args) : Short(args[i]),
           NEW out, NEW h, NEW d, Layout(args, out, h, d), NEW bytes, FirstOf(bytes, out),
           NEW k \in 0..(Len(args) - 1), NEW s \in Reading, LengthsRead(s, bytes, h, d, k)
    PROVE  LengthsRead(ReadLength(bytes, s), bytes, h, d, k + 1)
<1>1. PICK c, m, w, x, v : c = Len(args) /\ m = Len(bytes) /\ w = Digit(args, k + 1) /\ x = h[k] /\ v = Len(args[k + 1])
  OBVIOUS
<1>2. c \in Nat /\ k \in 0..(c - 1) /\ k \in 0..c /\ k + 1 \in 0..c /\ k + 1 \in 1..c
  BY <1>1, LenProperties
<1>3. v \in Nat /\ v < Power[Digits] /\ w = WriteVarLenInt(v)
  <2>1. args[k + 1] \in Bytes /\ Short(args[k + 1])
    BY <1>1, <1>2, ElementOfSeq
  <2> QED
    BY <1>1, <2>1, LenProperties DEF Short, Digit, Bytes
<1>4. w \in Seq(Nat) /\ Len(w) \in Nat \ {0}
  BY <1>3, VarLenDigits
<1>5. /\ x \in Nat /\ h[k + 1] = x + Len(w) /\ h[k + 1] \in Nat
      /\ \A i \in 1..Len(w) : out[1 + x + i] = w[i]
  BY <1>1, <1>2 DEF Layout
<1>6. d \in [0..c -> Nat] /\ d[k + 1] = d[k] + v
  BY <1>1 DEF Layout
<1>7. bytes \in Seq(Nat) /\ m \in Nat /\ 1 <= m /\ \A i \in 1..m : bytes[i] = out[i]
  BY <1>1, LenProperties DEF FirstOf
<1>8. CASE ~(1 + x <= m)
  <2>1. s.ok = FALSE
    BY <1>1, <1>8 DEF LengthsRead
  <2>2. ReadLength(bytes, s) = [s EXCEPT !.ok = FALSE]
    BY <2>1 DEF ReadLength
  <2>3. ReadLength(bytes, s).ok = FALSE
    BY <2>2 DEF Reading
  <2>4. ~(1 + h[k + 1] <= m)
    BY <1>4, <1>5, <1>7, <1>8
  <2> QED
    BY <1>1, <2>3, <2>4 DEF LengthsRead
<1>9. CASE 1 + x <= m
  <2>1. s = [ok |-> TRUE, at |-> 2 + x, ends |-> Ends(d, k)]
    BY <1>1, <1>9 DEF LengthsRead
  <2>2. PICK rest, at : at = 2 + x /\ rest = SubSeq(bytes, at, Len(bytes))
    OBVIOUS
  <2>3. s.ok = TRUE /\ s.at = at /\ s.ends = Ends(d, k)
    BY <2>1, <2>2
  <2>4. at \in Nat \ {0}
    BY <1>5, <2>2
  <2>5. /\ rest \in Seq(Nat) /\ Len(rest) = IF at <= m THEN m - at + 1 ELSE 0
        /\ \A i \in 1..Len(rest) : rest[i] = bytes[at + i - 1]
    <3>1. bytes \in Seq(Nat) /\ m = Len(bytes)
      BY <1>1, <1>7
    <3>2. rest = SubSeq(bytes, at, Len(bytes))
      BY <2>2
    <3>3. /\ rest \in Seq(Nat) /\ Len(rest) = IF at <= Len(bytes) THEN Len(bytes) - at + 1 ELSE 0
          /\ \A i \in 1..Len(rest) : rest[i] = bytes[at + i - 1]
      BY ONLY <2>4, <3>1, <3>2, RestOfBytes
    <3> QED
      BY <3>1, <3>3
  <2>6. Len(rest) = m - 1 - x
    BY <1>5, <1>7, <1>9, <2>2, <2>5
  <2>7. ASSUME NEW i \in 1..Len(rest), i \in 1..Len(w) PROVE rest[i] = w[i]
    <3>1. PICK p : p = 1 + x + i
      OBVIOUS
    <3>2. p \in 1..m /\ at + i - 1 = p
      BY <1>5, <1>7, <2>2, <2>6, <3>1
    <3>3. rest[i] = bytes[p] /\ bytes[p] = out[p]
      BY <1>7, <2>5, <3>2
    <3>4. out[p] = w[i]
      BY <1>5, <2>7, <3>1
    <3> QED
      BY <3>3, <3>4
  <2>8. PICK r : r = ReadVarLenInt(rest)
    OBVIOUS
  <2>9. ReadLength(bytes, s) = IF r.size = 0 THEN [s EXCEPT !.ok = FALSE]
                               ELSE [ok |-> TRUE, at |-> at + r.size, ends |-> Append(Ends(d, k), Last(Ends(d, k)) + r.value)]
    BY <2>2, <2>3, <2>8 DEF ReadLength
  <2>10. CASE Len(w) <= Len(rest)
    <3>1. r = [value |-> v, size |-> Len(w)]
      <4>1. \A i \in 1..Len(w) : rest[i] = w[i]
        <5>1. \A i \in 1..Len(w) : i \in 1..Len(rest)
          BY <1>4, <1>7, <2>6, <2>10, <1>5
        <5> QED
          BY <2>7, <5>1
      <4> QED
        BY <1>3, <2>5, <2>8, <2>10, <4>1, VarLenRead
    <3>2. Last(Ends(d, k)) = d[k] /\ Append(Ends(d, k), d[k + 1]) = Ends(d, k + 1)
      BY <1>2, <1>6, EndsStep
    <3>3. r.size = Len(w) /\ r.size # 0 /\ r.value = v
      BY <1>4, <3>1
    <3>4. ReadLength(bytes, s) = [ok |-> TRUE, at |-> at + Len(w), ends |-> Ends(d, k + 1)]
      BY <1>6, <2>9, <3>2, <3>3
    <3>5. at + Len(w) = 2 + h[k + 1] /\ 1 + h[k + 1] <= m
      BY <1>4, <1>5, <1>7, <2>2, <2>6, <2>10
    <3> QED
      BY <1>1, <3>4, <3>5 DEF LengthsRead
  <2>11. CASE ~(Len(w) <= Len(rest))
    <3>0. Len(rest) \in Nat /\ Len(rest) < Len(w)
      BY <1>4, <2>5, <2>11, LenProperties
    <3>1. r.size = 0
      <4>1. \A i \in 1..Len(rest) : rest[i] = w[i]
        <5>1. \A i \in 1..Len(rest) : i \in 1..Len(w)
          BY <1>4, <3>0
        <5> QED
          BY <2>7, <5>1
      <4> QED
        BY <1>3, <2>5, <2>8, <3>0, <4>1, VarLenCut
    <3>2. ReadLength(bytes, s) = [s EXCEPT !.ok = FALSE]
      BY <2>9, <3>1
    <3>3. ReadLength(bytes, s).ok = FALSE
      BY <3>2 DEF Reading
    <3>4. ~(1 + h[k + 1] <= m)
      BY <1>4, <1>5, <1>7, <2>6, <3>0
    <3> QED
      BY <1>1, <3>3, <3>4 DEF LengthsRead
  <2> QED
    BY <2>10, <2>11
<1> QED
  BY <1>8, <1>9

LEMMA AllLengths ==
    ASSUME NEW args \in Seq(Bytes), \A i \in 1..Len(args) : Short(args[i]),
           NEW out, NEW h, NEW d, Layout(args, out, h, d), NEW bytes, FirstOf(bytes, out)
    PROVE  LengthsRead(ReadLengths(bytes, Len(args)), bytes, h, d, Len(args))
<1>1. PICK c : c = Len(args)
  OBVIOUS
<1>2. c \in Nat /\ bytes \in Seq(Nat)
  BY <1>1, LenProperties DEF FirstOf
<1>3. PICK f \in [0..c -> Reading] : LengthSteps(f, bytes, c)
  BY <1>2, LengthsFold
<1>4. f[0] = AtStart /\ (\A k \in 0..(c - 1) : f[k + 1] = ReadLength(bytes, f[k])) /\ ReadLengths(bytes, c) = f[c]
  BY <1>3 DEF LengthSteps
<1> DEFINE T == {k \in Nat : k <= c => LengthsRead(f[k], bytes, h, d, k)}
<1>5. 0 \in T
  <2>1. h[0] = 0 /\ d[0] = 0 /\ 1 <= Len(bytes)
    BY DEF Layout, FirstOf
  <2>2. Ends(d, 0) = <<0>>
    <3>1. Ends(d, 0) = [i \in 1..1 |-> d[i - 1]]
      BY DEF Ends
    <3>2. \A i \in 1..1 : d[i - 1] = 0
      BY <2>1
    <3>3. [i \in 1..1 |-> d[i - 1]] = [i \in 1..1 |-> 0]
      BY <3>2
    <3>4. [i \in 1..1 |-> 0] = <<0>>
      OBVIOUS
    <3> QED
      BY <3>1, <3>3, <3>4
  <2>3. 1 + h[0] <= Len(bytes) /\ 2 + h[0] = 2
    BY <2>1
  <2> QED
    BY <1>4, <2>2, <2>3 DEF LengthsRead, AtStart
<1>6. ASSUME NEW k \in Nat, k \in T PROVE k + 1 \in T
  <2> SUFFICES ASSUME k + 1 <= c PROVE LengthsRead(f[k + 1], bytes, h, d, k + 1)
    OBVIOUS
  <2>1. k \in 0..(c - 1) /\ k \in 0..c /\ LengthsRead(f[k], bytes, h, d, k)
    BY <1>2, <1>6
  <2> HIDE DEF T
  <2>2. f[k] \in Reading
    BY <2>1
  <2>3. LengthsRead(ReadLength(bytes, f[k]), bytes, h, d, k + 1)
    BY <1>1, <2>1, <2>2, OneLength
  <2> QED
    BY <1>4, <2>1, <2>3
<1>7. c \in T
  <2> HIDE DEF T
  <2> QED
    BY <1>2, <1>5, <1>6, Induction
<1> QED
  BY <1>1, <1>2, <1>4, <1>7

\* An array of arguments is read as it was written, if all of it arrived.
LEMMA ArrayRead ==
    ASSUME NEW args \in Seq(Bytes), \A i \in 1..Len(args) : Short(args[i]), Len(args) < MaxArgs,
           NEW bytes, FirstOf(bytes, WriteArrayOfByteArray(args))
    PROVE  ReadArrayOfByteArray(bytes) =
              IF Len(bytes) = Len(WriteArrayOfByteArray(args)) /\ Total(args) < MaxTotal THEN [ok |-> TRUE, args |-> args]
              ELSE [ok |-> FALSE]
<1>1. PICK out : out = WriteArrayOfByteArray(args)
  OBVIOUS
<1>2. PICK h, d : Layout(args, out, h, d)
  BY <1>1, WrittenArray
<1>3. PICK c, m, x, total : c = Len(args) /\ m = Len(bytes) /\ x = h[Len(args)] /\ total = d[Len(args)]
  OBVIOUS
<1>4. c \in Nat /\ c \in 0..c /\ x \in Nat /\ total \in Nat /\ Total(args) = total /\ Len(out) = 1 + x + total /\ out[1] = c
  <2>1. c \in Nat /\ c \in 0..c
    BY <1>3, LenProperties
  <2> QED
    BY <1>2, <1>3, <2>1 DEF Layout
<1>5. bytes \in Seq(Nat) /\ m \in Nat /\ 1 <= m /\ m <= 1 + x + total /\ \A i \in 1..m : bytes[i] = out[i]
  BY <1>1, <1>3, <1>4, LenProperties DEF FirstOf
<1>6. bytes # <<>> /\ bytes[1] = c
  <2>1. 1 \in 1..m
    BY <1>5
  <2> QED
    BY <1>3, <1>4, <1>5, <2>1, EmptySeq
<1>7. PICK lengths : lengths = ReadLengths(bytes, c)
  OBVIOUS
<1>8. IF 1 + x <= m THEN lengths = [ok |-> TRUE, at |-> 2 + x, ends |-> Ends(d, c)] ELSE lengths.ok = FALSE
  <2>1. LengthsRead(ReadLengths(bytes, Len(args)), bytes, h, d, Len(args))
    BY <1>1, <1>2, AllLengths
  <2> QED
    BY <1>3, <1>7, <2>1 DEF LengthsRead
<1>9. PICK rest : rest = ReadFull(SubSeq(bytes, lengths.at, Len(bytes)), Last(lengths.ends))
  OBVIOUS
<1>10. ReadArrayOfByteArray(bytes) =
         IF c >= MaxArgs \/ ~lengths.ok \/ Last(lengths.ends) >= MaxTotal \/ Len(rest) < Last(lengths.ends) THEN [ok |-> FALSE]
         ELSE [ok |-> TRUE, args |-> [i \in 1..c |-> SubSeq(rest, lengths.ends[i] + 1, lengths.ends[i + 1])]]
  BY <1>6, <1>7, <1>9 DEF ReadArrayOfByteArray
<1>11. CASE ~(1 + x <= m)
  <2>1. ~lengths.ok /\ m # 1 + x + total
    BY <1>4, <1>5, <1>8, <1>11
  <2> QED
    BY <1>1, <1>3, <1>4, <1>10, <2>1
<1>12. CASE 1 + x <= m
  <2>1. PICK ends, at : ends = Ends(d, c) /\ at = 2 + x
    OBVIOUS
  <2>2. lengths.ok = TRUE /\ lengths.at = at /\ lengths.ends = ends
    BY <1>8, <1>12, <2>1
  <2>3. d \in [0..c -> Nat]
    BY <1>2, <1>3 DEF Layout
  <2>4. ends \in Seq(Nat) /\ Last(ends) = total /\ \A i \in 1..(c + 1) : ends[i] = d[i - 1]
    <3>1. EndsOf(c, d, c, ends)
      BY <1>4, <2>1, <2>3 DEF EndsOf
    <3> QED
      BY <1>3, <3>1, EndsShape DEF HasEnds
  <2>5. PICK behind : behind = SubSeq(bytes, at, Len(bytes))
    OBVIOUS
  <2>6. behind \in Seq(Nat) /\ Len(behind) = m - 1 - x /\ \A i \in 1..Len(behind) : behind[i] = bytes[at + i - 1]
    <3>1. at \in Nat \ {0} /\ bytes \in Seq(Nat)
      BY <1>4, <1>5, <2>1
    <3>2. /\ behind \in Seq(Nat) /\ Len(behind) = IF at <= Len(bytes) THEN Len(bytes) - at + 1 ELSE 0
          /\ \A i \in 1..Len(behind) : behind[i] = bytes[at + i - 1]
      BY ONLY <2>5, <3>1, RestOfBytes
    <3>3. m - 1 - x = IF at <= m THEN m - at + 1 ELSE 0
      BY <1>4, <1>5, <1>12, <2>1
    <3> QED
      BY <1>3, <3>2, <3>3
  <2>7. rest = IF Len(behind) >= total THEN behind ELSE <<>>
    BY <1>9, <2>2, <2>4, <2>5 DEF ReadFull
  <2>8. CASE m # 1 + x + total
    <3>1. ~(Len(behind) >= total) /\ total > 0
      BY <1>4, <1>5, <1>12, <2>6, <2>8
    <3>2. rest = <<>> /\ Len(rest) = 0
      BY <2>7, <3>1, EmptySeq
    <3>3. Len(rest) < Last(lengths.ends)
      BY <2>2, <2>4, <3>1, <3>2
    <3> QED
      BY <1>1, <1>3, <1>4, <1>10, <2>8, <3>3
  <2>9. CASE m = 1 + x + total
    <3>1. Len(behind) = total /\ rest = behind
      BY <1>4, <2>6, <2>7, <2>9
    <3>2. ~(Len(rest) < Last(lengths.ends)) /\ ~(c >= MaxArgs) /\ (Last(lengths.ends) >= MaxTotal <=> ~(Total(args) < MaxTotal))
      BY <1>3, <1>4, <2>2, <2>4, <3>1, PacketsAssumption
    <3>3. PICK cut : cut = [i \in 1..c |-> SubSeq(rest, lengths.ends[i] + 1, lengths.ends[i + 1])]
      OBVIOUS
    <3>4. ASSUME NEW i \in 1..c PROVE cut[i] = args[i]
      <4>1. PICK k : k = i - 1
        OBVIOUS
      <4>2. k \in 0..(c - 1) /\ k + 1 = i /\ k \in 0..c /\ i \in 0..c /\ i \in 1..(c + 1) /\ i + 1 \in 1..(c + 1) /\ i + 1 - 1 = i
        BY <1>4, <4>1
      <4>3. PICK a, b, e, n : a = args[i] /\ b = d[k] /\ e = d[i] /\ n = Len(args[i])
        OBVIOUS
      <4>4. a \in Seq(Nat) /\ n \in Nat /\ b \in Nat /\ e \in Nat
        <5>1. a \in Bytes
          BY <1>3, <4>3, ElementOfSeq
        <5> QED
          BY <2>3, <4>2, <4>3, <5>1, LenProperties DEF Bytes
      <4>5. e = b + n /\ e <= total /\ \A j \in 1..n : out[1 + x + b + j] = a[j]
        BY <1>2, <1>3, <4>2, <4>3 DEF Layout
      <4>6. lengths.ends[i] = b /\ lengths.ends[i + 1] = e
        BY <2>2, <2>4, <4>1, <4>2, <4>3
      <4>7. PICK s : s = SubSeq(rest, b + 1, e)
        OBVIOUS
      <4>8. ASSUME NEW j \in 1..n PROVE b + j \in 1..Len(rest) /\ rest[b + j] = a[j]
        <5>1. PICK p, q : p = b + j /\ q = 1 + x + b + j
          OBVIOUS
        <5>2. p \in 1..total /\ at + p - 1 = q /\ q \in 1..m
          BY <1>4, <2>1, <2>9, <4>4, <4>5, <5>1
        <5>3. rest[p] = bytes[q] /\ bytes[q] = out[q]
          BY <1>5, <2>6, <3>1, <5>2
        <5>4. out[q] = a[j]
          BY <4>5, <5>1
        <5> QED
          BY <3>1, <5>1, <5>2, <5>3, <5>4
      <4>9. s \in Seq(Nat) /\ Len(s) = n /\ \A j \in 1..n : s[j] = rest[b + j]
        <5>1. b + 1 \in Int /\ e \in Int
          BY <4>4
        <5>2. \A j \in (b + 1)..e : rest[j] \in Nat
          <6>1. \A j \in (b + 1)..e : j \in 1..Len(rest)
            BY <3>1, <4>4, <4>5
          <6> QED
            BY <2>6, <3>1, <6>1, ElementOfSeq
        <5>3. /\ SubSeq(rest, b + 1, e) \in Seq(Nat)
              /\ Len(SubSeq(rest, b + 1, e)) = IF b + 1 <= e THEN e - (b + 1) + 1 ELSE 0
              /\ \A j \in 1..(e - (b + 1) + 1) : SubSeq(rest, b + 1, e)[j] = rest[(b + 1) + j - 1]
          BY <5>1, <5>2, SubSeqProperties
        <5>4. e - (b + 1) + 1 = n /\ (IF b + 1 <= e THEN n ELSE 0) = n /\ \A j \in 1..n : (b + 1) + j - 1 = b + j
          BY <4>4, <4>5
        <5> QED
          BY <4>7, <5>3, <5>4
      <4>10. s = a
        BY <4>3, <4>4, <4>8, <4>9, SeqEqual
      <4> QED
        BY <3>3, <4>3, <4>6, <4>7, <4>10
    <3>5. cut = args
      <4>1. DOMAIN cut = 1..c /\ cut = [i \in 1..c |-> cut[i]]
        BY <3>3
      <4>2. args = [i \in 1..c |-> args[i]]
        BY <1>3, LenProperties
      <4> QED
        BY <3>4, <4>1, <4>2
    <3> QED
      BY <1>1, <1>3, <1>4, <1>10, <2>2, <2>9, <3>2, <3>3, <3>5
  <2> QED
    BY <2>8, <2>9
<1> QED
  BY <1>11, <1>12

LEMMA NoArray == ReadArrayOfByteArray(<<>>) = [ok |-> FALSE]
BY DEF ReadArrayOfByteArray

----------------------------------------------------------------------------
(* Options and packets *)

Option == [key : Bytes \ {<<>>}, value : Bytes]

\* A sequence in parts of one element, or of two.
InOnes(ones, s) == ones = [i \in 1..Len(s) |-> <<s[i]>>]
InPairs(pairs, n, a, b) == pairs = [i \in 1..n |-> <<a[i], b[i]>>]
Rows(S, n, a, b) == n \in Nat /\ a \in [1..n -> S] /\ b \in [1..n -> S]
InTurn(S, n, a, b, flat) ==
    flat \in Seq(S) /\ Len(flat) = 2 * n /\ \A i \in 1..n : flat[2 * i - 1] = a[i] /\ flat[2 * i] = b[i]

LEMMA OneByOne ==
    ASSUME NEW S, NEW s \in Seq(S), NEW ones, InOnes(ones, s)
    PROVE  FlattenSeq(ones) = s
<1>1. PICK n, flat : n = Len(s) /\ flat = FlattenSeq(ones)
  OBVIOUS
<1>2. n \in Nat /\ \A i \in 1..n : s[i] \in S
  BY <1>1, LenProperties, ElementOfSeq
<1>3. ones \in Seq(Seq(S)) /\ Len(ones) = n /\ \A i \in 1..n : ones[i] = <<s[i]>> /\ Len(ones[i]) = 1
  <2>1. \A i \in 1..n : <<s[i]>> \in Seq(S) /\ Len(<<s[i]>>) = 1
    BY <1>2
  <2>2. ones \in [1..n -> Seq(S)]
    BY <1>1, <2>1 DEF InOnes
  <2>3. ones \in Seq(Seq(S))
    BY <1>2, <2>2, SeqDef
  <2>4. Len(ones) \in Nat /\ 1..Len(ones) = 1..n
    BY <2>2, <2>3, LenProperties
  <2>5. Len(ones) = n
    BY ONLY <1>2, <2>4
  <2> QED
    BY <1>1, <2>1, <2>3, <2>5 DEF InOnes
<1>4. PICK f : f = [k \in 0..n |-> k]
  OBVIOUS
<1>5. f \in [0..Len(ones) -> Nat] /\ Offsets(f, ones)
  <2>1. f \in [0..n -> Nat] /\ f[0] = 0
    BY <1>2, <1>4
  <2>2. ASSUME NEW k \in 0..(n - 1) PROVE f[k + 1] = f[k] + Len(ones[k + 1])
    <3>1. k \in 0..n /\ k + 1 \in 0..n /\ k + 1 \in 1..n
      BY <1>2
    <3> QED
      BY <1>3, <1>4, <3>1
  <2> QED
    BY <1>3, <2>1, <2>2 DEF Offsets
<1>6. Placed(flat, f, ones, n)
  BY <1>1, <1>3, <1>5, FlattenPlaces
<1>7. flat \in Seq(S)
  BY <1>1, <1>3, FlattenType
<1>8. Len(flat) = n
  BY <1>2, <1>4, <1>6 DEF Placed
<1>9. ASSUME NEW i \in 1..n PROVE flat[i] = s[i]
  <2>1. PICK k : k = i - 1
    OBVIOUS
  <2>2. k \in 0..(n - 1) /\ k \in 0..n /\ k + 1 = i
    BY <1>2, <2>1
  <2>5. 1 \in 1..Len(ones[k + 1])
    <3>1. Len(ones[k + 1]) = 1
      BY <1>3, <2>2
    <3> QED
      BY ONLY <3>1
  <2>3. flat[f[k] + 1] = ones[k + 1][1]
    BY <1>6, <2>2, <2>5 DEF Placed
  <2>4. f[k] + 1 = i /\ ones[i][1] = s[i]
    BY <1>3, <1>4, <2>2
  <2> QED
    BY <2>2, <2>3, <2>4
<1> QED
  BY <1>1, <1>7, <1>8, <1>9, SeqEqual

LEMMA TwoByTwo ==
    ASSUME NEW S, NEW n, NEW a, NEW b, Rows(S, n, a, b), NEW pairs, InPairs(pairs, n, a, b)
    PROVE  InTurn(S, n, a, b, FlattenSeq(pairs))
<1>0. n \in Nat /\ a \in [1..n -> S] /\ b \in [1..n -> S]
  BY DEF Rows
<1>1. PICK flat : flat = FlattenSeq(pairs)
  OBVIOUS
<1>3. pairs \in Seq(Seq(S)) /\ Len(pairs) = n /\ \A i \in 1..n : pairs[i] = <<a[i], b[i]>> /\ Len(pairs[i]) = 2
  <2>1. \A i \in 1..n : <<a[i], b[i]>> \in Seq(S) /\ Len(<<a[i], b[i]>>) = 2
    BY <1>0
  <2>2. pairs \in [1..n -> Seq(S)]
    BY <1>0, <2>1 DEF InPairs
  <2>3. pairs \in Seq(Seq(S))
    BY <1>0, <2>2, SeqDef
  <2>4. Len(pairs) \in Nat /\ 1..Len(pairs) = 1..n
    BY <2>2, <2>3, LenProperties
  <2>5. Len(pairs) = n
    BY ONLY <1>0, <2>4
  <2> QED
    BY <2>1, <2>3, <2>5 DEF InPairs
<1>4. PICK f : f = [k \in 0..n |-> 2 * k]
  OBVIOUS
<1>5. f \in [0..Len(pairs) -> Nat] /\ Offsets(f, pairs)
  <2>1. f \in [0..n -> Nat] /\ f[0] = 0
    BY <1>0, <1>4
  <2>2. ASSUME NEW k \in 0..(n - 1) PROVE f[k + 1] = f[k] + Len(pairs[k + 1])
    <3>1. k \in 0..n /\ k + 1 \in 0..n /\ k + 1 \in 1..n
      BY <1>0
    <3>2. f[k + 1] = 2 * (k + 1) /\ f[k] = 2 * k /\ Len(pairs[k + 1]) = 2
      BY <1>3, <1>4, <3>1
    <3>3. k \in Int
      BY <1>0
    <3> QED
      BY ONLY <3>2, <3>3
  <2> QED
    BY <1>3, <2>1, <2>2 DEF Offsets
<1>6. Placed(flat, f, pairs, n)
  BY <1>1, <1>3, <1>5, FlattenPlaces
<1>7. flat \in Seq(S)
  BY <1>1, <1>3, FlattenType
<1>8. Len(flat) = 2 * n
  BY <1>0, <1>4, <1>6 DEF Placed
<1>9. ASSUME NEW i \in 1..n PROVE flat[2 * i - 1] = a[i] /\ flat[2 * i] = b[i]
  <2>1. PICK k : k = i - 1
    OBVIOUS
  <2>2. k \in 0..(n - 1) /\ k \in 0..n /\ k + 1 = i
    BY <1>0, <2>1
  <2>3. 1 \in 1..Len(pairs[k + 1]) /\ 2 \in 1..Len(pairs[k + 1])
    <3>1. Len(pairs[k + 1]) = 2
      BY <1>3, <2>2
    <3> QED
      BY ONLY <3>1
  <2>4. flat[f[k] + 1] = pairs[k + 1][1] /\ flat[f[k] + 2] = pairs[k + 1][2]
    BY <1>6, <2>2, <2>3 DEF Placed
  <2>5. f[k] + 1 = 2 * i - 1 /\ f[k] + 2 = 2 * i
    BY <1>0, <1>4, <2>2
  <2>6. pairs[k + 1] = <<a[i], b[i]>>
    BY <1>0, <1>3, <2>2
  <2> QED
    BY <2>4, <2>5, <2>6
<1> QED
  BY <1>1, <1>7, <1>8, <1>9 DEF InTurn

\* Where a key and its value are among the arguments.
LEMMA OptionsPacked ==
    ASSUME NEW p, p.options \in Seq(Option), NEW i \in 1..Len(p.options)
    PROVE  /\ 2 * i - 1 \in 1..Len(PackOptions(p)) /\ 2 * i \in 1..Len(PackOptions(p))
           /\ PackOptions(p)[2 * i - 1] = p.options[i].key /\ PackOptions(p)[2 * i] = p.options[i].value
<1>1. PICK o, n : o = p.options /\ n = Len(p.options)
  OBVIOUS
<1>2. n \in Nat /\ DOMAIN o = 1..n /\ \A j \in 1..n : o[j] \in Option
  BY <1>1, LenProperties, ElementOfSeq
<1>3. PICK a, b : a = [j \in 1..n |-> o[j].key] /\ b = [j \in 1..n |-> o[j].value]
  OBVIOUS
<1>4. Rows(Bytes, n, a, b)
  BY <1>2, <1>3 DEF Option, Rows
<1>5. PICK pairs : pairs = [j \in DOMAIN o |-> <<o[j].key, o[j].value>>]
  OBVIOUS
<1>6. InPairs(pairs, n, a, b)
  BY <1>2, <1>3, <1>5 DEF InPairs
<1>7. PICK args : args = FlattenSeq(pairs)
  OBVIOUS
<1>8. args = PackOptions(p)
  BY <1>1, <1>5, <1>7 DEF PackOptions
<1>9. InTurn(Bytes, n, a, b, args)
  BY <1>4, <1>6, <1>7, TwoByTwo
<1>10. Len(args) = 2 * n /\ args[2 * i - 1] = o[i].key /\ args[2 * i] = o[i].value
  BY <1>1, <1>3, <1>9 DEF InTurn
<1>11. 2 * i - 1 \in 1..(2 * n) /\ 2 * i \in 1..(2 * n)
  BY <1>1, <1>2
<1> QED
  BY <1>1, <1>8, <1>10, <1>11

\* The options are read as they were packed.
LEMMA OptionsRead ==
    ASSUME NEW p, p.options \in Seq(Option)
    PROVE  PackOptions(p) \in Seq(Bytes) /\ UnpackOptions(PackOptions(p)) = p.options
<1>1. PICK o, n : o = p.options /\ n = Len(p.options)
  OBVIOUS
<1>2. n \in Nat /\ DOMAIN o = 1..n /\ \A i \in 1..n : o[i] \in Option
  BY <1>1, LenProperties, ElementOfSeq
<1>3. PICK a, b : a = [i \in 1..n |-> o[i].key] /\ b = [i \in 1..n |-> o[i].value]
  OBVIOUS
<1>4. a \in [1..n -> Bytes] /\ b \in [1..n -> Bytes] /\ \A i \in 1..n : a[i] # <<>>
  BY <1>2, <1>3 DEF Option
<1>5. PICK pairs : pairs = [i \in DOMAIN o |-> <<o[i].key, o[i].value>>]
  OBVIOUS
<1>6. InPairs(pairs, n, a, b)
  BY <1>2, <1>3, <1>5 DEF InPairs
<1>7. PICK args : args = FlattenSeq(pairs)
  OBVIOUS
<1>8. args = PackOptions(p)
  BY <1>1, <1>5, <1>7 DEF PackOptions
<1>9. args \in Seq(Bytes) /\ Len(args) = 2 * n /\ \A i \in 1..n : args[2 * i - 1] = a[i] /\ args[2 * i] = b[i]
  <2>1. Rows(Bytes, n, a, b)
    BY <1>2, <1>4 DEF Rows
  <2>2. InTurn(Bytes, n, a, b, args)
    BY <1>6, <1>7, <2>1, TwoByTwo
  <2> QED
    BY ONLY <2>2 DEF InTurn
<1>10. Len(args) \div 2 = n
  BY <1>2, <1>9
<1>11. ASSUME NEW i \in 1..n
       PROVE  (IF args[2 * i - 1] = <<>> THEN <<>> ELSE <<[key |-> args[2 * i - 1], value |-> args[2 * i]]>>) = <<o[i]>>
  <2>1. args[2 * i - 1] # <<>> /\ args[2 * i - 1] = o[i].key /\ args[2 * i] = o[i].value
    BY <1>3, <1>4, <1>9
  <2>2. o[i] = [key |-> o[i].key, value |-> o[i].value]
    BY <1>2 DEF Option
  <2> QED
    BY <2>1, <2>2
<1>12. [i \in 1..(Len(args) \div 2) |-> IF args[2 * i - 1] = <<>> THEN <<>> ELSE <<[key |-> args[2 * i - 1], value |-> args[2 * i]]>>]
         = [i \in 1..n |-> <<o[i]>>]
  BY <1>10, <1>11
<1>13. UnpackOptions(args) = FlattenSeq([i \in 1..n |-> <<o[i]>>])
  BY <1>12 DEF UnpackOptions
<1>14. FlattenSeq([i \in 1..n |-> <<o[i]>>]) = o
  <2>1. PICK ones : ones = [i \in 1..n |-> <<o[i]>>]
    OBVIOUS
  <2>2. InOnes(ones, o) /\ o \in Seq(Option)
    BY <1>1, <2>1 DEF InOnes
  <2> QED
    BY <2>1, <2>2, OneByOne
<1> QED
  BY <1>1, <1>8, <1>9, <1>13, <1>14

LEMMA NoOptions == UnpackOptions(<<>>) = <<>>
<1>1. PICK p : p = [options |-> <<>>]
  OBVIOUS
<1>2. p.options = <<>> /\ p.options \in Seq(Option)
  BY <1>1, EmptySeq
<1>3. PackOptions(p) = <<>>
  <2>1. [i \in DOMAIN p.options |-> <<p.options[i].key, p.options[i].value>>] = <<>>
    BY <1>2
  <2> QED
    BY <2>1, FlattenEmpty DEF PackOptions
<1> QED
  BY <1>2, <1>3, OptionsRead

LEMMA CommandByte ==
    /\ \A cmd \in Range(Commands) : CmdByte(cmd) \in Nat /\ CmdByte(cmd) # 0 /\ ByteCmd(CmdByte(cmd)) = cmd /\ cmd # ""
    /\ ByteCmd(0) = "" /\ "" \notin Range(Commands)
<1>1. Range(Commands) = {Commands[i] : i \in 1..7} /\ DOMAIN Commands = 1..7 /\ Len(Commands) = 7
  BY DEF Commands, Range
<1>2. \A i \in 1..7 : Commands[i] # "" /\ \A j \in 1..7 : Commands[i] = Commands[j] => i = j
  <2>1. /\ Commands[1] = "P" /\ Commands[2] = "L" /\ Commands[3] = "S" /\ Commands[4] = "U" /\ Commands[5] = "C"
        /\ Commands[6] = "D" /\ Commands[7] = "H"
    BY DEF Commands
  <2>2. \A i \in 1..7 : i \in {1, 2, 3, 4, 5, 6, 7}
    OBVIOUS
  <2> QED
    BY <2>1, <2>2
<1>3. ASSUME NEW i \in 1..7 PROVE CmdByte(Commands[i]) = 200 + i
  <2>1. PICK I : I = {j \in 1..Len(Commands) : Commands[j] = Commands[i]}
    OBVIOUS
  <2>2. I = {i}
    BY <1>1, <1>2, <2>1
  <2>3. Min({i}) = i
    BY DEF Min
  <2>4. CmdByte(Commands[i]) = 200 + IF I # {} THEN Min(I) ELSE 0
    BY <1>2, <2>1 DEF CmdByte, SelectInSeq
  <2> QED
    BY <2>2, <2>3, <2>4
<1>4. ASSUME NEW i \in 1..7 PROVE ByteCmd(200 + i) = Commands[i]
  <2>1. PICK b : b = 200 + i
    OBVIOUS
  <2>2. b - 200 = i /\ i \in DOMAIN Commands
    BY <1>1, <2>1
  <2>3. ByteCmd(b) = Commands[i]
    BY <2>2 DEF ByteCmd
  <2> QED
    BY <2>1, <2>3
<1>5. ByteCmd(0) = ""
  <2>1. ~(0 - 200 \in 1..7)
    OBVIOUS
  <2> QED
    BY <1>1, <2>1 DEF ByteCmd
<1>6. ASSUME NEW i \in 1..7 PROVE CmdByte(Commands[i]) \in Nat /\ CmdByte(Commands[i]) # 0 /\ ByteCmd(CmdByte(Commands[i])) = Commands[i]
  BY <1>3, <1>4
<1>7. ASSUME NEW cmd \in Range(Commands)
      PROVE  CmdByte(cmd) \in Nat /\ CmdByte(cmd) # 0 /\ ByteCmd(CmdByte(cmd)) = cmd /\ cmd # ""
  <2>1. PICK i \in 1..7 : cmd = Commands[i]
    BY <1>1
  <2> QED
    BY <1>2, <1>6, <2>1
<1>8. "" \notin Range(Commands)
  BY <1>1, <1>2
<1> QED
  BY <1>5, <1>7, <1>8

LEMMA PacketShape ==
    ASSUME NEW p, Packet(p)
    PROVE  /\ p = [cmd |-> p.cmd, address |-> p.address, source |-> p.source, payload |-> p.payload, options |-> p.options]
           /\ p.cmd \in Range(Commands) /\ p.payload \in Bytes /\ p.options \in Seq(Option)
           /\ \A f \in FieldNames : FieldBytes(p, f) \in Bytes
           /\ \A f \in {"address", "source"} : FromBytes(FieldBytes(p, f)) = p[f]
<1>1. p \in [cmd : Range(Commands), address : [type : Nat, bytes : Bytes], source : [type : Nat, bytes : Bytes],
              payload : Bytes, options : Seq([key : Bytes \ {<<>>}, value : Bytes])]
  BY DEF Packet
<1>2. /\ p = [cmd |-> p.cmd, address |-> p.address, source |-> p.source, payload |-> p.payload, options |-> p.options]
      /\ p.cmd \in Range(Commands) /\ p.payload \in Bytes /\ p.options \in Seq(Option)
  BY <1>1 DEF Option
<1>3. \A f \in {"address", "source"} : Sound(p[f])
  BY DEF Packet
<1>4. ASSUME NEW f \in {"address", "source"} PROVE ToBytes(p[f]) \in Bytes /\ FromBytes(ToBytes(p[f])) = p[f] /\ FieldBytes(p, f) = ToBytes(p[f])
  <2>1. Sound(p[f])
    BY <1>3
  <2>2. f # "payload"
    OBVIOUS
  <2> QED
    BY <2>1, <2>2, SoundShape, AddressRead DEF FieldBytes
<1>5. FieldBytes(p, "payload") = p.payload
  BY DEF FieldBytes
<1> QED
  BY <1>2, <1>4, <1>5 DEF FieldNames

LEMMA PartsOfPacket ==
    ASSUME NEW p, Packet(p)
    PROVE  Parts(p) \subseteq Bytes
<1>1. \A f \in FieldNames : FieldBytes(p, f) \in Bytes
  BY PacketShape
<1>2. \A i \in DOMAIN p.options : p.options[i].key \in Bytes /\ p.options[i].value \in Bytes
  <2>1. p.options \in Seq(Option)
    BY PacketShape
  <2>2. \A i \in DOMAIN p.options : p.options[i] \in Option
    BY <2>1, LenProperties, ElementOfSeq
  <2> QED
    BY <2>2 DEF Option
<1> QED
  BY <1>1, <1>2 DEF Parts

LEMMA WiderSeq ==
    ASSUME NEW S, NEW T, S \subseteq T, NEW s \in Seq(S)
    PROVE  s \in Seq(T)
<1>1. Len(s) \in Nat /\ s \in [1..Len(s) -> S]
  BY LenProperties
<1>2. s \in [1..Len(s) -> T]
  BY <1>1
<1> QED
  BY <1>1, <1>2, SeqDef

\* The arguments of a packet, and of its first fields, can be written.
CanWrite(args) == args \in Seq(Bytes) /\ \A i \in 1..Len(args) : Short(args[i])

LEMMA PacketArgs ==
    ASSUME NEW p, Packet(p)
    PROVE  /\ CanWrite(ArgsOf(p)) /\ Len(ArgsOf(p)) = Len(Fields(p.cmd)) + Len(PackOptions(p))
           /\ \A i \in 1..Len(Fields(p.cmd)) : ArgsOf(p)[i] = FieldBytes(p, Fields(p.cmd)[i])
           /\ SubSeq(ArgsOf(p), Len(Fields(p.cmd)) + 1, Len(ArgsOf(p))) = PackOptions(p)
           /\ CanWrite(PackOptions(p))
<1>1. PICK n, h, o, t : n = Len(Fields(p.cmd)) /\ h = FirstArgs(p, n) /\ o = PackOptions(p) /\ t = ArgsOf(p)
  OBVIOUS
<1>2. Packable(p) /\ n \in Nat
  BY <1>1, PacketPackable, FieldsShape DEF Packable
<1>3. h \in Seq(Bytes) /\ Len(h) = n /\ o \in Seq(Bytes) /\ t = h \o o
  <2>1. n \in 0..Len(Fields(p.cmd))
    BY <1>1, <1>2
  <2>2. h \in Seq(Parts(p)) /\ Len(h) = n
    BY <1>1, <1>2, <2>1, FirstArgsShape
  <2>3. h \in Seq(Bytes)
    BY <2>2, PartsOfPacket, WiderSeq
  <2>4. p.options \in Seq(Option)
    BY PacketShape
  <2>5. o \in Seq(Bytes)
    BY <1>1, <2>4, OptionsRead
  <2>6. t = h \o o
    BY <1>1, <1>2, ArgsOfShape
  <2> QED
    BY <2>2, <2>3, <2>5, <2>6
<1>4. /\ t \in Seq(Bytes) /\ Len(t) = n + Len(o) /\ Len(o) \in Nat
      /\ \A i \in 1..(n + Len(o)) : t[i] = IF i <= n THEN h[i] ELSE o[i - n]
  <2>1. /\ h \o o \in Seq(Bytes) /\ Len(h \o o) = Len(h) + Len(o) /\ Len(o) \in Nat
        /\ \A i \in 1..(Len(h) + Len(o)) : (h \o o)[i] = IF i <= Len(h) THEN h[i] ELSE o[i - Len(h)]
    BY <1>3, ConcatProperties, LenProperties
  <2> QED
    BY ONLY <1>3, <2>1
<1>5. \A i \in 1..n : t[i] = FieldBytes(p, Fields(p.cmd)[i])
  <2>1. \A i \in 1..n : h[i] = FieldBytes(p, Fields(p.cmd)[i])
    BY <1>1 DEF FirstArgs
  <2> QED
    BY <1>2, <1>4, <2>1
<1>6. \A i \in 1..Len(t) : Short(t[i])
  <2>1. \A arg \in Range(t) : Short(arg)
    BY <1>1 DEF Packet
  <2>2. \A i \in 1..Len(t) : t[i] \in Range(t)
    BY <1>4, LenProperties DEF Range
  <2> QED
    BY <2>1, <2>2
<1>7. SubSeq(t, n + 1, Len(t)) = o
  <2>1. PICK m, e, s : m = Len(o) /\ e = Len(t) /\ s = SubSeq(t, n + 1, e)
    OBVIOUS
  <2>2. m \in Nat /\ e = n + m /\ n + 1 \in Int /\ e \in Int
    BY <1>2, <1>4, <2>1
  <2>3. \A j \in (n + 1)..e : t[j] \in Bytes
    <3>1. \A j \in (n + 1)..e : j \in 1..Len(t)
      BY <1>2, <2>1, <2>2
    <3> QED
      BY <1>4, <3>1, ElementOfSeq
  <2>4. /\ s \in Seq(Bytes) /\ Len(s) = IF n + 1 <= e THEN e - (n + 1) + 1 ELSE 0
        /\ \A j \in 1..(e - (n + 1) + 1) : s[j] = t[(n + 1) + j - 1]
    <3>1. /\ SubSeq(t, n + 1, e) \in Seq(Bytes)
          /\ Len(SubSeq(t, n + 1, e)) = IF n + 1 <= e THEN e - (n + 1) + 1 ELSE 0
          /\ \A j \in 1..(e - (n + 1) + 1) : SubSeq(t, n + 1, e)[j] = t[(n + 1) + j - 1]
      BY <2>2, <2>3, SubSeqProperties
    <3> QED
      BY <2>1, <3>1
  <2>5. Len(s) = m
    BY <1>2, <2>2, <2>4
  <2>6. ASSUME NEW j \in 1..m PROVE s[j] = o[j]
    <3>1. PICK k : k = n + j
      OBVIOUS
    <3>2. k \in 1..(n + Len(o)) /\ ~(k <= n) /\ k - n = j /\ (n + 1) + j - 1 = k /\ j \in 1..(e - (n + 1) + 1)
      BY <1>2, <2>1, <2>2, <3>1
    <3> QED
      BY <1>4, <2>4, <3>2
  <2>7. s = o
    BY <1>3, <2>1, <2>4, <2>5, <2>6, SeqEqual
  <2> QED
    BY <2>1, <2>7
<1>8. ASSUME NEW j \in 1..Len(o) PROVE Short(o[j])
  <2>1. PICK k : k = n + j
    OBVIOUS
  <2>2. k \in 1..Len(t) /\ ~(k <= n) /\ k - n = j
    BY <1>2, <1>4, <2>1
  <2>3. t[k] = o[j]
    BY <1>4, <2>2
  <2> QED
    BY <1>6, <2>2, <2>3
<1> QED
  BY <1>1, <1>3, <1>4, <1>5, <1>6, <1>7, <1>8 DEF CanWrite

LEMMA FirstArgsWritten ==
    ASSUME NEW p, Packet(p), NEW k \in 0..Len(Fields(p.cmd))
    PROVE  CanWrite(FirstArgs(p, k)) /\ Len(FirstArgs(p, k)) = k /\ \A i \in 1..k : FirstArgs(p, k)[i] = FieldBytes(p, Fields(p.cmd)[i])
<1>1. PICK s : s = FirstArgs(p, k)
  OBVIOUS
<1>2. Packable(p)
  BY PacketPackable
<1>3. s \in Seq(Parts(p)) /\ Len(s) = k
  BY <1>1, <1>2, FirstArgsShape
<1>4. s \in Seq(Bytes)
  BY <1>3, PartsOfPacket, WiderSeq
<1>5. \A i \in 1..k : s[i] = FieldBytes(p, Fields(p.cmd)[i])
  BY <1>1 DEF FirstArgs
<1>6. ASSUME NEW i \in 1..k PROVE Short(s[i])
  <2>1. PICK n, t : n = Len(Fields(p.cmd)) /\ t = ArgsOf(p)
    OBVIOUS
  <2>2. n \in Nat /\ i \in 1..n
    BY <1>2, <2>1, FieldsShape DEF Packable
  <2>3. Len(t) = n + Len(PackOptions(p)) /\ Len(PackOptions(p)) \in Nat /\ Short(t[i]) /\ t[i] = s[i]
    <3>1. /\ CanWrite(t) /\ Len(t) = n + Len(PackOptions(p))
          /\ \A l \in 1..n : t[l] = FieldBytes(p, Fields(p.cmd)[l])
      BY <2>1, PacketArgs
    <3>2. Len(PackOptions(p)) \in Nat
      BY <1>2, PackOptionsShape, LenProperties
    <3>3. i \in 1..Len(t)
      BY <2>2, <3>1, <3>2
    <3> QED
      BY <1>5, <2>2, <3>1, <3>2, <3>3 DEF CanWrite
  <2> QED
    BY <2>3
<1> QED
  BY <1>1, <1>3, <1>4, <1>5, <1>6 DEF CanWrite

With(p, options) == [cmd |-> p.cmd, address |-> p.address, source |-> p.source, payload |-> p.payload, options |-> options]

\* Arguments that begin with the fields of a packet are filled into that packet,
\* with the options behind them.
LEMMA Filled ==
    ASSUME NEW p, Packet(p), NEW args, Len(args) >= Len(Fields(p.cmd)),
           \A i \in 1..Len(Fields(p.cmd)) : args[i] = FieldBytes(p, Fields(p.cmd)[i])
    PROVE  FillPacket([cmd |-> p.cmd, args |-> args]) = With(p, UnpackOptions(SubSeq(args, Len(Fields(p.cmd)) + 1, Len(args))))
<1>1. PICK cmd, fields, n : cmd = p.cmd /\ fields = Fields(p.cmd) /\ n = Len(Fields(p.cmd))
  OBVIOUS
<1>2. cmd \in Range(Commands) /\ n \in Nat /\ DOMAIN fields = 1..n
  BY <1>1, PacketShape, FieldsShape
<1>3. PICK arg : arg = [f \in FieldNames |-> args[CHOOSE i \in DOMAIN fields : fields[i] = f]]
  OBVIOUS
<1>4. ASSUME NEW f \in FieldNames, f \in Range(fields) PROVE arg[f] = FieldBytes(p, f)
  <2>1. PICK i : i = CHOOSE j \in DOMAIN fields : fields[j] = f
    OBVIOUS
  <2>2. \E j \in DOMAIN fields : fields[j] = f
    BY <1>4 DEF Range
  <2>3. i \in DOMAIN fields /\ fields[i] = f
    BY <2>1, <2>2
  <2> QED
    BY <1>1, <1>2, <1>3, <2>1, <2>3
<1>5. ASSUME NEW f \in {"address", "source"}
      PROVE  (IF f \in Range(fields) THEN FromBytes(arg[f]) ELSE FromBytes(<<>>)) = p[f]
  <2>1. FromBytes(FieldBytes(p, f)) = p[f] /\ f \in FieldNames
    BY PacketShape DEF FieldNames
  <2>2. f \notin Range(fields) => p[f] = FromBytes(<<>>)
    BY <1>1 DEF Packet
  <2> QED
    BY <1>4, <2>1, <2>2
<1>6. (IF "payload" \in Range(fields) THEN arg["payload"] ELSE <<>>) = p.payload
  <2>1. "payload" \notin Range(fields) => p.payload = <<>>
    BY <1>1 DEF Packet
  <2>2. FieldBytes(p, "payload") = p.payload
    BY DEF FieldBytes
  <2>3. "payload" \in FieldNames
    BY DEF FieldNames
  <2> QED
    BY <1>4, <2>1, <2>2, <2>3
<1>7. PICK options : options = UnpackOptions(SubSeq(args, n + 1, Len(args)))
  OBVIOUS
<1>8. PICK u : u = [cmd |-> cmd, args |-> args]
  OBVIOUS
<1>9. u.cmd = cmd /\ u.args = args
  BY <1>8
<1>10. ~(Len(args) < n)
  <2>1. Len(args) >= n
    BY <1>1
  <2> QED
    BY <2>1, <1>2 
<1>11. FillPacket(u) = [cmd |-> cmd,
             address |-> IF "address" \in Range(fields) THEN FromBytes(arg["address"]) ELSE FromBytes(<<>>),
             source |-> IF "source" \in Range(fields) THEN FromBytes(arg["source"]) ELSE FromBytes(<<>>),
             payload |-> IF "payload" \in Range(fields) THEN arg["payload"] ELSE <<>>,
             options |-> options]
  <2>1. "address" \in FieldNames /\ "source" \in FieldNames /\ "payload" \in FieldNames
    BY DEF FieldNames
  <2>2. /\ arg["address"] = args[CHOOSE i \in DOMAIN fields : fields[i] = "address"]
        /\ arg["source"] = args[CHOOSE i \in DOMAIN fields : fields[i] = "source"]
        /\ arg["payload"] = args[CHOOSE i \in DOMAIN fields : fields[i] = "payload"]
    BY <1>3, <2>1
  <2>3. Fields(u.cmd) = fields /\ Len(Fields(u.cmd)) = n /\ u.cmd \in Range(Commands) /\ ~(Len(u.args) < Len(Fields(u.cmd)))
    BY <1>1, <1>2, <1>9, <1>10
  <2> QED
    BY <1>7, <1>9, <2>2, <2>3 DEF FillPacket
<1>12. (IF "address" \in Range(fields) THEN FromBytes(arg["address"]) ELSE FromBytes(<<>>)) = p.address
  BY <1>5
<1>13. (IF "source" \in Range(fields) THEN FromBytes(arg["source"]) ELSE FromBytes(<<>>)) = p.source
  BY <1>5
<1> QED
  BY <1>1, <1>6, <1>7, <1>8, <1>11, <1>12, <1>13 DEF With

LEMMA WholeFilled ==
    ASSUME NEW p, Packet(p)
    PROVE  FillPacket([cmd |-> p.cmd, args |-> ArgsOf(p)]) = p
<1>1. PICK n, t : n = Len(Fields(p.cmd)) /\ t = ArgsOf(p)
  OBVIOUS
<1>2. n \in Nat /\ p.options \in Seq(Option) /\ p = With(p, p.options)
  BY <1>1, PacketShape, FieldsShape DEF With
<1>3. /\ Len(t) = n + Len(PackOptions(p)) /\ SubSeq(t, n + 1, Len(t)) = PackOptions(p)
      /\ \A i \in 1..n : t[i] = FieldBytes(p, Fields(p.cmd)[i])
  BY <1>1, PacketArgs
<1>4. PackOptions(p) \in Seq(Bytes) /\ UnpackOptions(PackOptions(p)) = p.options
  BY <1>2, OptionsRead
<1>5. Len(t) >= n
  BY <1>2, <1>3, <1>4, LenProperties
<1>6. FillPacket([cmd |-> p.cmd, args |-> t]) = With(p, UnpackOptions(SubSeq(t, n + 1, Len(t))))
  BY <1>1, <1>3, <1>5, Filled
<1> QED
  BY <1>1, <1>2, <1>3, <1>4, <1>6

\* The options may be missing, a field may not.
LEMMA PartFilled ==
    ASSUME NEW p, Packet(p), NEW k \in 0..Len(Fields(p.cmd))
    PROVE  FillPacket([cmd |-> p.cmd, args |-> FirstArgs(p, k)]) \in {NoPacket, With(p, <<>>)}
<1>1. PICK n, t : n = Len(Fields(p.cmd)) /\ t = FirstArgs(p, k)
  OBVIOUS
<1>2. n \in Nat /\ k \in 0..n
  BY <1>1, PacketShape, FieldsShape
<1>3. t \in Seq(Bytes) /\ Len(t) = k /\ \A i \in 1..k : t[i] = FieldBytes(p, Fields(p.cmd)[i])
  BY <1>1, FirstArgsWritten DEF CanWrite
<1>4. CASE k = n
  <2>1. SubSeq(t, n + 1, Len(t)) = <<>>
    <3>1. Len(t) = n /\ n + 1 > n
      BY <1>2, <1>3, <1>4
    <3>2. SubSeq(t, n + 1, n) = <<>>
      BY <1>2, <1>3, SubSeqEmpty
    <3> QED
      BY <3>1, <3>2
  <2>2. Len(t) >= Len(Fields(p.cmd)) /\ \A i \in 1..Len(Fields(p.cmd)) : t[i] = FieldBytes(p, Fields(p.cmd)[i])
    BY <1>1, <1>2, <1>3, <1>4
  <2>3. FillPacket([cmd |-> p.cmd, args |-> t]) = With(p, UnpackOptions(SubSeq(t, n + 1, Len(t))))
    BY <1>1, <2>2, Filled
  <2> QED
    BY <1>1, <2>1, <2>3, NoOptions
<1>5. CASE k # n
  <2>1. Len(t) < n
    BY <1>2, <1>3, <1>5
  <2>2. PICK u : u = [cmd |-> p.cmd, args |-> t]
    OBVIOUS
  <2>3. u.cmd = p.cmd /\ u.args = t
    BY <2>2
  <2>4. Len(u.args) < Len(Fields(u.cmd))
    BY <1>1, <2>1, <2>3
  <2>5. FillPacket(u) = NoPacket
    BY <2>4 DEF FillPacket
  <2> QED
    BY <1>1, <2>2, <2>5
<1> QED
  BY <1>4, <1>5

LEMMA NoneFilled ==
    ASSUME NEW args
    PROVE  FillPacket([cmd |-> "", args |-> args]) = NoPacket
<1>1. "" \notin Range(Commands)
  BY CommandByte
<1> QED
  BY <1>1 DEF FillPacket

----------------------------------------------------------------------------
(* What arrives *)

\* What arrives of bytes when the connection breaks.
PartOf(bytes, all) == \E n \in 0..(Len(all) - 1) : bytes = SubSeq(all, 1, n)

LEMMA ArrayShape ==
    ASSUME NEW args, CanWrite(args)
    PROVE  WriteArrayOfByteArray(args) \in Seq(Nat) /\ FirstOf(WriteArrayOfByteArray(args), WriteArrayOfByteArray(args))
<1>1. args \in Seq(Bytes) /\ \A i \in 1..Len(args) : Short(args[i])
  BY DEF CanWrite
<1>2. PICK out : out = WriteArrayOfByteArray(args)
  OBVIOUS
<1>3. PICK h, d : Layout(args, out, h, d)
  BY <1>1, <1>2, WrittenArray
<1>4. PICK c, x, y : c = Len(args) /\ x = h[Len(args)] /\ y = d[Len(args)]
  OBVIOUS
<1>5. c \in Nat /\ c \in 0..c
  BY <1>1, <1>4, LenProperties
<1>6. out \in Seq(Nat) /\ Len(out) = 1 + x + y /\ x \in Nat /\ y \in Nat
  BY <1>3, <1>4, <1>5 DEF Layout
<1>7. 1 <= Len(out) /\ Len(out) <= Len(out)
  BY <1>6
<1> QED
  BY <1>2, <1>6, <1>7 DEF FirstOf

LEMMA Wired ==
    ASSUME NEW args, CanWrite(args), NEW b \in Nat
    PROVE  OnWire(b, args) \in Seq(Nat) /\ OnWire(b, args) # <<>> /\ OnWire(b, args)[1] = b /\ Len(OnWire(b, args)) \in Nat
<1>1. CASE Len(args) >= MaxArgs
  <2>1. OnWire(b, args) = <<b>>
    BY <1>1 DEF OnWire
  <2> QED
    BY <2>1, LenProperties
<1>2. CASE ~(Len(args) >= MaxArgs)
  <2>1. PICK out : out = WriteArrayOfByteArray(args)
    OBVIOUS
  <2>2. OnWire(b, args) = <<b>> \o out
    BY <1>2, <2>1 DEF OnWire
  <2>3. out \in Seq(Nat)
    BY <2>1, ArrayShape
  <2>4. <<b>> \o out \in Seq(Nat) /\ <<b>> \o out # <<>> /\ (<<b>> \o out)[1] = b
    BY <2>3, Behind
  <2> QED
    BY <2>2, <2>4, LenProperties
<1> QED
  BY <1>1, <1>2

\* What arrives is read as it was written.
LEMMA WireRead ==
    ASSUME NEW args, CanWrite(args), NEW b \in Nat
    PROVE  ReadPacket(OnWire(b, args)) =
              IF Len(args) < MaxArgs /\ Total(args) < MaxTotal THEN FillPacket([cmd |-> ByteCmd(b), args |-> args]) ELSE NoPacket
<1>1. args \in Seq(Bytes) /\ (\A i \in 1..Len(args) : Short(args[i])) /\ Len(args) \in Nat /\ MaxArgs \in Nat
  BY LenProperties, PacketsAssumption DEF CanWrite
<1>2. CASE Len(args) >= MaxArgs
  <2>1. OnWire(b, args) = <<b>> /\ ~(Len(args) < MaxArgs)
    BY <1>1, <1>2 DEF OnWire
  <2>2. Tail(<<b>>) = <<>>
    OBVIOUS
  <2>3. ReadPacket(<<b>>) = NoPacket
    BY <2>2, NoArray DEF ReadPacket
  <2> QED
    BY <2>1, <2>3
<1>3. CASE ~(Len(args) >= MaxArgs)
  <2>1. PICK out, w : out = WriteArrayOfByteArray(args) /\ w = OnWire(b, args)
    OBVIOUS
  <2>2. w = <<b>> \o out /\ Len(args) < MaxArgs
    BY <1>1, <1>3, <2>1 DEF OnWire
  <2>3. out \in Seq(Nat) /\ FirstOf(out, WriteArrayOfByteArray(args)) /\ Len(out) = Len(WriteArrayOfByteArray(args))
    BY <2>1, ArrayShape
  <2>4. w # <<>> /\ w[1] = b /\ Tail(w) = out
    BY <2>2, <2>3, Behind
  <2>5. ReadArrayOfByteArray(out) = IF Total(args) < MaxTotal THEN [ok |-> TRUE, args |-> args] ELSE [ok |-> FALSE]
    BY <1>1, <2>2, <2>3, ArrayRead
  <2>6. PICK array : array = ReadArrayOfByteArray(out)
    OBVIOUS
  <2>7. ReadPacket(w) = IF ~array.ok THEN NoPacket ELSE FillPacket([cmd |-> ByteCmd(b), args |-> array.args])
    BY <2>4, <2>6 DEF ReadPacket
  <2>8. CASE Total(args) < MaxTotal
    <3>1. array.ok = TRUE /\ array.args = args
      BY <2>5, <2>6, <2>8
    <3> QED
      BY <2>1, <2>2, <2>7, <2>8, <3>1
  <2>9. CASE ~(Total(args) < MaxTotal)
    <3>1. array.ok = FALSE
      BY <2>5, <2>6, <2>9
    <3> QED
      BY <2>1, <2>7, <2>9, <3>1
  <2> QED
    BY <2>8, <2>9
<1> QED
  BY <1>2, <1>3

\* A part of it is not taken for a packet.
LEMMA PartRead ==
    ASSUME NEW args, CanWrite(args), NEW b \in Nat, NEW bytes, PartOf(bytes, OnWire(b, args))
    PROVE  ReadPacket(bytes) = NoPacket
<1>1. args \in Seq(Bytes) /\ (\A i \in 1..Len(args) : Short(args[i])) /\ Len(args) \in Nat /\ MaxArgs \in Nat
  BY LenProperties, PacketsAssumption DEF CanWrite
<1>2. PICK w : w = OnWire(b, args)
  OBVIOUS
<1>3. w \in Seq(Nat) /\ w # <<>> /\ w[1] = b /\ Len(w) \in Nat
  BY <1>2, Wired
<1>4. PICK n \in 0..(Len(w) - 1) : bytes = SubSeq(w, 1, n)
  BY <1>2 DEF PartOf
<1>5. n \in Nat /\ n < Len(w)
  BY <1>3, <1>4
<1>6. bytes \in Seq(Nat) /\ Len(bytes) = n /\ \A i \in 1..n : bytes[i] = w[i]
  <2>1. \A i \in 1..n : w[i] \in Nat
    <3>1. \A i \in 1..n : i \in 1..Len(w)
      BY <1>3, <1>5
    <3> QED
      BY <1>3, <3>1, ElementOfSeq
  <2>2. 1 \in Int /\ n \in Int
    BY <1>5
  <2>3. /\ SubSeq(w, 1, n) \in Seq(Nat)
        /\ Len(SubSeq(w, 1, n)) = IF 1 <= n THEN n - 1 + 1 ELSE 0
        /\ \A i \in 1..(n - 1 + 1) : SubSeq(w, 1, n)[i] = w[1 + i - 1]
    BY <2>1, <2>2, SubSeqProperties
  <2>4. n - 1 + 1 = n /\ (IF 1 <= n THEN n ELSE 0) = n /\ \A i \in 1..n : 1 + i - 1 = i
    BY <1>5
  <2> QED
    BY <1>4, <2>3, <2>4
<1>7. CASE n = 0
  <2>1. bytes = <<>>
    BY <1>6, <1>7, EmptySeq
  <2> QED
    BY <2>1 DEF ReadPacket
<1>8. CASE n # 0
  <2>1. PICK rest : rest = Tail(bytes)
    OBVIOUS
  <2>2. bytes # <<>>
    BY <1>6, <1>8, EmptySeq
  <2>3. rest \in Seq(Nat) /\ Len(rest) = n - 1 /\ \A i \in 1..(n - 1) : rest[i] = w[i + 1]
    <3>1. rest \in Seq(Nat) /\ Len(rest) = n - 1 /\ \A i \in 1..Len(rest) : rest[i] = bytes[i + 1]
      BY <1>6, <2>1, <2>2, HeadTailProperties
    <3>2. \A i \in 1..(n - 1) : i + 1 \in 1..n
      BY <1>5
    <3> QED
      BY <1>6, <3>1, <3>2
  <2>4. ReadArrayOfByteArray(rest).ok = FALSE
    <3>1. CASE n = 1
      <4>1. rest = <<>>
        BY <2>3, <3>1, EmptySeq
      <4> QED
        BY <4>1, NoArray
    <3>2. CASE n # 1
      <4>1. PICK out : out = WriteArrayOfByteArray(args)
        OBVIOUS
      <4>2. w = <<b>> \o out /\ Len(args) < MaxArgs
        <5>1. w = <<b>> => n < 1
          BY <1>5
        <5>2. ~(Len(args) >= MaxArgs)
          BY <1>2, <1>5, <1>8, <5>1 DEF OnWire
        <5> QED
          BY <1>1, <1>2, <4>1, <5>2 DEF OnWire
      <4>3. out \in Seq(Nat) /\ Len(out) \in Nat
        BY <4>1, ArrayShape, LenProperties
      <4>4. Len(w) = 1 + Len(out) /\ \A i \in 1..Len(out) : w[i + 1] = out[i]
        BY <4>2, <4>3, Behind
      <4>5. 1 <= Len(rest) /\ Len(rest) < Len(out) /\ \A i \in 1..Len(rest) : i \in 1..Len(out)
        BY <1>5, <1>8, <2>3, <3>2, <4>3, <4>4
      <4>6. FirstOf(rest, WriteArrayOfByteArray(args))
        <5>1. ASSUME NEW i \in 1..Len(rest) PROVE rest[i] = out[i]
          <6>1. i \in 1..(n - 1) /\ i \in 1..Len(out)
            BY <2>3, <4>5
          <6> QED
            BY <2>3, <4>4, <6>1
        <5> QED
          BY <2>3, <4>1, <4>5, <5>1 DEF FirstOf
      <4>7. Len(rest) # Len(WriteArrayOfByteArray(args))
        BY <2>3, <4>1, <4>3, <4>5, LenProperties
      <4>8. ReadArrayOfByteArray(rest) = [ok |-> FALSE]
        BY <1>1, <4>2, <4>6, <4>7, ArrayRead
      <4> QED
        BY <4>8
    <3> QED
      BY <3>1, <3>2
  <2> QED
    BY <2>1, <2>2, <2>4 DEF ReadPacket
<1> QED
  BY <1>7, <1>8

\* What a reader makes of a universal of a packet: the packet with all of its
\* options or none of them, or nothing.
LEMMA StageRead ==
    ASSUME NEW p, Packet(p), NEW args, args = ArgsOf(p) \/ \E k \in 0..Len(Fields(p.cmd)) : args = FirstArgs(p, k),
           NEW b, b \in {0, CmdByte(p.cmd)}
    PROVE  /\ b \in Nat /\ CanWrite(args)
           /\ ReadPacket(OnWire(b, args)) \in {NoPacket, p, With(p, <<>>)}
<1>1. b \in Nat /\ (ByteCmd(b) = "" \/ ByteCmd(b) = p.cmd)
  <2>1. p.cmd \in Range(Commands)
    BY PacketShape
  <2>2. CmdByte(p.cmd) \in Nat /\ ByteCmd(CmdByte(p.cmd)) = p.cmd /\ ByteCmd(0) = ""
    BY <2>1, CommandByte
  <2>3. CASE b = 0
    BY <2>2, <2>3
  <2>4. CASE b = CmdByte(p.cmd)
    <3>1. ByteCmd(b) = ByteCmd(CmdByte(p.cmd))
      BY ONLY <2>4
    <3> QED
      BY <2>2, <2>4, <3>1
  <2> QED
    BY <2>3, <2>4
<1>2. CanWrite(args) /\ FillPacket([cmd |-> p.cmd, args |-> args]) \in {NoPacket, p, With(p, <<>>)}
  <2>1. CASE args = ArgsOf(p)
    BY <2>1, PacketArgs, WholeFilled
  <2>2. ASSUME NEW k \in 0..Len(Fields(p.cmd)), args = FirstArgs(p, k)
        PROVE  CanWrite(args) /\ FillPacket([cmd |-> p.cmd, args |-> args]) \in {NoPacket, p, With(p, <<>>)}
    BY <2>2, FirstArgsWritten, PartFilled
  <2> QED
    BY <2>1, <2>2
<1>3. FillPacket([cmd |-> ByteCmd(b), args |-> args]) \in {NoPacket, p, With(p, <<>>)}
  BY <1>1, <1>2, NoneFilled
<1>4. ReadPacket(OnWire(b, args)) \in {NoPacket, FillPacket([cmd |-> ByteCmd(b), args |-> args])}
  BY <1>1, <1>2, WireRead
<1> QED
  BY <1>1, <1>2, <1>3, <1>4

\* A packet that fits is read back as it was, and one that does not is not read.
THEOREM RoundTrip ==
    ASSUME NEW p, Packet(p)
    PROVE  ReadPacket(OnWire(CmdByte(p.cmd), ArgsOf(p))) = IF Fits(p) THEN p ELSE NoPacket
<1>1. CmdByte(p.cmd) \in Nat /\ ByteCmd(CmdByte(p.cmd)) = p.cmd
  BY PacketShape, CommandByte
<1>2. CanWrite(ArgsOf(p)) /\ FillPacket([cmd |-> p.cmd, args |-> ArgsOf(p)]) = p
  BY PacketArgs, WholeFilled
<1> QED
  BY <1>1, <1>2, WireRead DEF Fits

LEMMA BracketedShape ==
    ASSUME NEW s \in Scripts, NEW i \in DOMAIN s, s[i].type = "publish"
    PROVE  /\ s[i] \in Controls /\ s[i].props \in Seq([key : Bytes, value : Bytes]) /\ Len(s[i].props) \in Nat
           /\ DOMAIN Bracketed(s[i].props) = 1..Len(s[i].props) /\ DOMAIN s[i].props = 1..Len(s[i].props)
           /\ \A j \in 1..Len(s[i].props) :
                 /\ Bracketed(s[i].props)[j] \in Option /\ Short(Bracketed(s[i].props)[j].key) /\ Short(Bracketed(s[i].props)[j].value)
                 /\ Bracketed(s[i].props)[j].key = s[i].props[j].key
<1>1. PICK c, props, n : c = s[i] /\ props = s[i].props /\ n = Len(s[i].props)
  OBVIOUS
<1>2. s[i] \in Controls
  BY ScriptsAssumption, LenProperties, ElementOfSeq
<1>3. props \in Seq([key : Bytes, value : Bytes])
  BY <1>1, <1>2 DEF Controls
<1>4. n \in Nat /\ DOMAIN props = 1..n
  BY <1>1, <1>3, LenProperties
<1>5. PICK o : o = Bracketed(props)
  OBVIOUS
<1>6. DOMAIN o = 1..n
  BY <1>4, <1>5 DEF Bracketed
<1>7. ASSUME NEW j \in 1..n PROVE o[j] \in Option /\ Short(o[j].key) /\ Short(o[j].value) /\ o[j].key = props[j].key
  <2>1. props[j] \in [key : Bytes, value : Bytes]
    BY <1>1, <1>3, ElementOfSeq
  <2>2. PICK k, v, r : k = props[j].key /\ v = props[j].value /\ r = <<91>> \o v \o <<93>>
    OBVIOUS
  <2>3. k \in Bytes /\ v \in Bytes /\ props[j] = [key |-> k, value |-> v]
    BY <2>1, <2>2
  <2>4. o[j] = [props[j] EXCEPT !.value = r]
    <3>1. o[j] = [props[j] EXCEPT !.value = <<91>> \o @ \o <<93>>]
      BY <1>4, <1>5 DEF Bracketed
    <3>2. [props[j] EXCEPT !.value = <<91>> \o @ \o <<93>>] = [props[j] EXCEPT !.value = r]
      BY <2>1, <2>2
    <3> QED
      BY ONLY <3>1, <3>2
  <2>5. o[j] = [[key |-> k, value |-> v] EXCEPT !.value = r]
    BY ONLY <2>3, <2>4
  <2>6. o[j] = [key |-> k, value |-> r]
    BY ONLY <2>5
  <2>7. r \in Bytes
    <3>1. <<91>> \in Seq(Nat) /\ <<93>> \in Seq(Nat) /\ v \in Seq(Nat)
      BY <2>3 DEF Bytes
    <3>2. <<91>> \o v \in Seq(Nat)
      BY <3>1, ConcatProperties
    <3>3. (<<91>> \o v) \o <<93>> \in Seq(Nat)
      BY <3>1, <3>2, ConcatProperties
    <3> QED
      BY <2>2, <3>3 DEF Bytes
  <2>8. k # <<>> /\ Short(k) /\ Short(r)
    <3>1. props[j] \in Range(s[i].props)
      BY <1>1, <1>4 DEF Range
    <3>2. props[j].key # <<>> /\ Short(props[j].key) /\ Short(<<91>> \o props[j].value \o <<93>>)
      BY <3>1, PublishAssumption
    <3> QED
      BY <2>2, <3>2
  <2> QED
    BY <2>2, <2>3, <2>6, <2>7, <2>8 DEF Option
<1> QED
  BY <1>1, <1>2, <1>3, <1>4, <1>5, <1>6, <1>7

\* The options of a packet, all of which can be written.
ShortOptions(options) == options \in Seq(Option) /\ \A j \in DOMAIN options : Short(options[j].key) /\ Short(options[j].value)

LEMMA PublishedOptions ==
    ASSUME NEW s \in Scripts, NEW i \in DOMAIN s, s[i].type = "publish", NEW options, options = Bracketed(s[i].props)
    PROVE  /\ ShortOptions(options)
           /\ Bounces(s[i]) => ShortOptions([j \in DOMAIN options |->
                IF options[j].key = Api1 THEN [options[j] EXCEPT !.value = OptionOf(options, Nonc)] ELSE options[j]])
<1>1. PICK n : n = Len(s[i].props)
  OBVIOUS
<1>2. /\ n \in Nat /\ DOMAIN options = 1..n /\ DOMAIN s[i].props = 1..n
      /\ \A j \in 1..n : options[j] \in Option /\ Short(options[j].key) /\ Short(options[j].value) /\ options[j].key = s[i].props[j].key
  BY <1>1, BracketedShape
<1>3. ASSUME NEW o, o = [j \in 1..n |-> o[j]], \A j \in 1..n : o[j] \in Option /\ Short(o[j].key) /\ Short(o[j].value)
      PROVE  ShortOptions(o)
  <2>1. o \in [1..n -> Option] /\ DOMAIN o = 1..n
    BY <1>3
  <2>2. o \in Seq(Option)
    BY <1>2, <2>1, SeqDef
  <2> QED
    BY <1>3, <2>1, <2>2 DEF ShortOptions
<1>4. options = [j \in 1..n |-> options[j]]
  <2>1. options = [j \in DOMAIN s[i].props |-> [s[i].props[j] EXCEPT !.value = <<91>> \o @ \o <<93>>]]
    BY Zenon DEF Bracketed
  <2> QED
    BY <1>2, <2>1, Zenon
<1>5. ShortOptions(options)
  BY <1>2, <1>3, <1>4
<1>6. ASSUME Bounces(s[i]), NEW echo, echo = [j \in DOMAIN options |->
                IF options[j].key = Api1 THEN [options[j] EXCEPT !.value = OptionOf(options, Nonc)] ELSE options[j]]
      PROVE  ShortOptions(echo)
  <2>1. PICK l \in 1..n : s[i].props[l].key = Nonc
    BY <1>2, <1>6 DEF Bounces
  <2>2. PICK v : v = OptionOf(options, Nonc)
    OBVIOUS
  <2>3. v \in Bytes /\ Short(v)
    <3>1. PICK j : j = CHOOSE k \in DOMAIN options : options[k].key = Nonc
      OBVIOUS
    <3>2. \E k \in DOMAIN options : options[k].key = Nonc
      BY <1>2, <2>1
    <3>3. j \in DOMAIN options
      BY <3>1, <3>2
    <3>4. v = options[j].value
      BY <2>2, <3>1 DEF OptionOf
    <3> QED
      BY <1>2, <3>3, <3>4 DEF Option
  <2>4. ASSUME NEW j \in 1..n PROVE echo[j] \in Option /\ Short(echo[j].key) /\ Short(echo[j].value)
    <3>1. CASE options[j].key = Api1
      <4>1. PICK k, x : k = options[j].key /\ x = options[j].value
        OBVIOUS
      <4>2. options[j] = [key |-> k, value |-> x] /\ k \in Bytes \ {<<>>} /\ Short(k)
        BY <1>2, <4>1 DEF Option
      <4>3. echo[j] = [options[j] EXCEPT !.value = v]
        BY <1>2, <1>6, <2>2, <3>1
      <4>4. echo[j] = [[key |-> k, value |-> x] EXCEPT !.value = v]
        BY ONLY <4>2, <4>3
      <4>5. echo[j] = [key |-> k, value |-> v]
        BY ONLY <4>4
      <4> QED
        BY <2>3, <4>2, <4>5 DEF Option
    <3>2. CASE options[j].key # Api1
      <4>1. echo[j] = options[j]
        BY <1>2, <1>6, <3>2
      <4> QED
        BY <1>2, <4>1
    <3> QED
      BY <3>1, <3>2
  <2>5. echo = [j \in 1..n |-> echo[j]]
    BY <1>2, <1>6, Zenon
  <2> QED
    BY <1>3, <2>4, <2>5
<1> QED
  BY <1>5, <1>6

\* A publish is a packet, if its parts are.
LEMMA MadePacket ==
    ASSUME NEW address, Sound(address), Short(ToBytes(address)), NEW source, Sound(source), Short(ToBytes(source)),
           NEW payload \in Bytes, Short(payload), NEW options, ShortOptions(options), NEW p,
           p = [cmd |-> "P", address |-> address, source |-> source, payload |-> payload, options |-> options]
    PROVE  Packet(p)
<1>1. p.cmd = "P" /\ p.address = address /\ p.source = source /\ p.payload = payload /\ p.options = options
  OBVIOUS
<1>2. "P" \in Range(Commands)
  BY DEF Range, Commands
<1>3. Fields("P") = <<"address", "source", "payload">>
  BY DEF Fields
<1>4. Range(Fields("P")) = {"address", "source", "payload"}
  BY <1>3 DEF Range
<1>5. address \in [type : Nat, bytes : Bytes] /\ source \in [type : Nat, bytes : Bytes]
  BY SoundShape
<1>6. options \in Seq(Option) /\ Option = [key : Bytes \ {<<>>}, value : Bytes]
  BY DEF ShortOptions, Option
<1>7. p \in [cmd : Range(Commands), address : [type : Nat, bytes : Bytes], source : [type : Nat, bytes : Bytes],
              payload : Bytes, options : Seq([key : Bytes \ {<<>>}, value : Bytes])]
  BY <1>2, <1>5, <1>6
<1>8. \A arg \in Parts(p) : Short(arg)
  <2>1. \A f \in FieldNames : Short(FieldBytes(p, f))
    BY <1>1 DEF FieldNames, FieldBytes
  <2>2. \A j \in DOMAIN p.options : Short(p.options[j].key) /\ Short(p.options[j].value)
    BY <1>1 DEF ShortOptions
  <2> QED
    BY <2>1, <2>2 DEF Parts
<1>9. Packable(p)
  <2>1. p.options \in Seq(Range(p.options))
    BY <1>1, <1>6, SeqOfRange
  <2>2. p # NoPacket
    <3>1. NoPacket.cmd = "none"
      BY DEF NoPacket
    <3> QED
      BY <1>1, <3>1
  <2> QED
    BY <1>1, <1>2, <2>1, <2>2, Zenon DEF Packable, Range
<1>10. ArgsOf(p) \in Seq(Parts(p))
  <2>1. PICK n : n = Len(Fields(p.cmd))
    OBVIOUS
  <2>2. n \in 0..Len(Fields(p.cmd))
    BY <1>9, <2>1, FieldsShape DEF Packable
  <2>3. FirstArgs(p, n) \in Seq(Parts(p)) /\ PackOptions(p) \in Seq(Parts(p))
    BY <1>9, <2>2, FirstArgsShape, PackOptionsShape
  <2>4. ArgsOf(p) = FirstArgs(p, n) \o PackOptions(p)
    BY <1>9, <2>1, ArgsOfShape
  <2> QED
    BY <2>3, <2>4, ConcatProperties
<1>11. \A arg \in Range(ArgsOf(p)) : Short(arg)
  <2>1. Range(ArgsOf(p)) \subseteq Parts(p)
    BY <1>10, RangeOfSeq
  <2> QED
    BY <1>8, <2>1
<1> QED
  BY <1>1, <1>4, <1>7, <1>11 DEF Packet

LEMMA PublishedPacket ==
    ASSUME NEW s \in Scripts, NEW i \in DOMAIN s, s[i].type = "publish", Published(s[i]).cmd = "P"
    PROVE  Packet(Published(s[i]))
<1>1. PICK c, options, source, to, back : /\ c = s[i] /\ options = Bracketed(c.props) /\ source = FromBytes(c.response)
                                          /\ to = Binary(FromBytes(c.topic)) /\ back = Binary(FromBytes(c.response))
  OBVIOUS
<1>2. c \in Controls /\ c.payload \in Bytes
  BY <1>1, BracketedShape DEF Controls
<1>3. /\ \A a \in {to, back, source} : Sound(a) /\ Short(ToBytes(a))
      /\ Short(c.payload)
  BY <1>1, PublishAssumption
<1>4. PICK send, echo :
        /\ send = [cmd |-> "P", address |-> to, source |-> source, payload |-> c.payload, options |-> options]
        /\ echo = [j \in DOMAIN options |-> IF options[j].key = Api1 THEN [options[j] EXCEPT !.value = OptionOf(options, Nonc)] ELSE options[j]]
  OBVIOUS
<1>5. ShortOptions(options) /\ (Bounces(c) => ShortOptions(echo))
  BY <1>1, <1>4, PublishedOptions
<1>6. Published(c) = IF Bounces(c) THEN [send EXCEPT !.address = back, !.options = echo]
                     ELSE IF Lookups(c) THEN [send EXCEPT !.cmd = "L", !.payload = <<>>, !.options = <<>>]
                     ELSE send
  BY <1>1, <1>4 DEF Published
<1>7. CASE Bounces(c)
  <2>1. Published(c) = [send EXCEPT !.address = back, !.options = echo]
    BY <1>6, <1>7
  <2>2. Published(c) = [[cmd |-> "P", address |-> to, source |-> source, payload |-> c.payload, options |-> options]
                          EXCEPT !.address = back, !.options = echo]
    BY ONLY <1>4, <2>1
  <2>3. Published(c) = [cmd |-> "P", address |-> back, source |-> source, payload |-> c.payload, options |-> echo]
    BY ONLY <2>2
  <2> QED
    BY <1>1, <1>2, <1>3, <1>5, <1>7, <2>3, MadePacket
<1>8. CASE ~Bounces(c) /\ Lookups(c)
  <2>1. Published(c) = [send EXCEPT !.cmd = "L", !.payload = <<>>, !.options = <<>>]
    BY <1>6, <1>8
  <2>2. Published(c).cmd = "L"
    BY <1>4, <2>1
  <2> QED
    BY <1>1, <2>2
<1>9. CASE ~Bounces(c) /\ ~Lookups(c)
  <2>1. Published(c) = send
    BY <1>6, <1>9
  <2> QED
    BY <1>1, <1>2, <1>3, <1>4, <1>5, <2>1, MadePacket
<1> QED
  BY <1>7, <1>8, <1>9

\* The disconnect that is written instead of a packet is a packet.
LEMMA ErrorPacket ==
    ASSUME NEW p, Packet(p), HasError(p)
    PROVE  Packet(ErrorDisconnect(p))
<1>1. PICK j : j = CHOOSE i \in DOMAIN p.options : p.options[i].key = ErrorKey
  OBVIOUS
<1>2. j \in DOMAIN p.options
  BY <1>1 DEF HasError
<1>3. p.options \in Seq(Option)
  BY PacketShape
<1>4. j \in 1..Len(p.options) /\ p.options[j] \in Option
  BY <1>2, <1>3, LenProperties, ElementOfSeq
<1>5. PICK x, options : x = p.options[j] /\ options = <<x>>
  OBVIOUS
<1>6. x \in Option /\ options \in Seq(Option) /\ DOMAIN options = {1} /\ options[1] = x
  BY <1>4, <1>5
<1>7. Short(x.key) /\ Short(x.value)
  <2>1. CanWrite(PackOptions(p))
    BY PacketArgs
  <2>2. /\ 2 * j - 1 \in 1..Len(PackOptions(p)) /\ 2 * j \in 1..Len(PackOptions(p))
        /\ PackOptions(p)[2 * j - 1] = x.key /\ PackOptions(p)[2 * j] = x.value
    BY <1>3, <1>4, <1>5, OptionsPacked
  <2> QED
    BY <2>1, <2>2 DEF CanWrite
<1>8. PICK none : none = FromBytes(<<>>)
  OBVIOUS
<1>9. none = [type |-> Utf8Address, bytes |-> <<>>]
  BY <1>8 DEF FromBytes, Typed
<1>10. Sound(none) /\ ToBytes(none) = <<>> /\ <<>> \in Bytes
  <2>1. <<>> \in Bytes
    BY EmptySeq DEF Bytes
  <2> QED
    BY <1>9, <2>1 DEF Sound, Typed, ToBytes, Utf8Address, BinaryAddress
<1>11. Short(<<>>)
  <2>1. Len(<<>>) = 0
    BY EmptySeq
  <2>2. Digits \in Nat /\ Power[Digits] \in Nat \ {0}
    BY PacketsAssumption, PowerSteps
  <2> QED
    BY <2>1, <2>2 DEF Short
<1>12. PICK d : d = ErrorDisconnect(p)
  OBVIOUS
<1>13. d = [cmd |-> "D", address |-> none, source |-> none, payload |-> <<>>, options |-> options]
  BY <1>1, <1>5, <1>8, <1>12 DEF ErrorDisconnect
<1>14. d.cmd = "D" /\ d.address = none /\ d.source = none /\ d.payload = <<>> /\ d.options = options
  BY <1>13
<1>15. "D" \in Range(Commands) /\ Fields("D") = <<>>
  BY DEF Range, Commands, Fields
<1>16. Range(Fields("D")) = {}
  BY <1>15 DEF Range
<1>17. none \in [type : Nat, bytes : Bytes]
  BY <1>9, <1>10 DEF Utf8Address
<1>18. d \in [cmd : Range(Commands), address : [type : Nat, bytes : Bytes], source : [type : Nat, bytes : Bytes],
              payload : Bytes, options : Seq([key : Bytes \ {<<>>}, value : Bytes])]
  <2>1. options \in Seq([key : Bytes \ {<<>>}, value : Bytes])
    BY <1>6 DEF Option
  <2> QED
    BY <1>10, <1>13, <1>15, <1>17, <2>1
<1>19. \A arg \in Parts(d) : Short(arg)
  <2>1. \A f \in FieldNames : FieldBytes(d, f) = <<>>
    BY <1>10, <1>14 DEF FieldNames, FieldBytes
  <2>2. \A i \in DOMAIN d.options : Short(d.options[i].key) /\ Short(d.options[i].value)
    BY <1>6, <1>7, <1>14
  <2> QED
    BY <1>11, <2>1, <2>2 DEF Parts
<1>20. Packable(d)
  <2>1. d.options \in Seq(Range(d.options))
    BY <1>6, <1>14, SeqOfRange
  <2>2. d # NoPacket
    <3>1. NoPacket.cmd = "none"
      BY DEF NoPacket
    <3> QED
      BY <1>14, <3>1
  <2> QED
    BY <1>14, <1>15, <2>1, <2>2, Zenon DEF Packable, Range
<1>21. ArgsOf(d) \in Seq(Parts(d))
  <2>1. PICK n : n = Len(Fields(d.cmd))
    OBVIOUS
  <2>2. n \in 0..Len(Fields(d.cmd))
    BY <1>20, <2>1, FieldsShape DEF Packable
  <2>3. FirstArgs(d, n) \in Seq(Parts(d)) /\ PackOptions(d) \in Seq(Parts(d))
    BY <1>20, <2>2, FirstArgsShape, PackOptionsShape
  <2>4. ArgsOf(d) = FirstArgs(d, n) \o PackOptions(d)
    BY <1>20, <2>1, ArgsOfShape
  <2> QED
    BY <2>3, <2>4, ConcatProperties
<1>22. \A arg \in Range(ArgsOf(d)) : Short(arg)
  <2>1. Range(ArgsOf(d)) \subseteq Parts(d)
    BY <1>21, RangeOfSeq
  <2> QED
    BY <1>19, <2>1
<1> QED
  BY <1>8, <1>10, <1>12, <1>14, <1>16, <1>18, <1>22 DEF Packet

\* What is delivered can be written and read.
LEMMA DeliveredPacket ==
    ASSUME SocketInv, Deliver
    PROVE  Packet(message')
<1>1. PICK i \in DOMAIN script : /\ script \in Scripts /\ script[i] \in Controls /\ script[i].type = "publish"
                                 /\ message' = Published(script[i]) /\ message'.cmd = "P"
  BY DeliveredItem
<1> QED
  BY <1>1, PublishedPacket

----------------------------------------------------------------------------
(* What is sent and read *)

\* The arguments a universal of m may have.
Stages(m) == {ArgsOf(m)} \cup {FirstArgs(m, k) : k \in 0..Len(Fields(m.cmd))}

\* Whether a contact of kind k writes an error instead of m, and what it writes.
Errs(m, k) == m # NoPacket /\ HasError(m) /\ (k = "text" \/ (k = "tcp" /\ ~IsGuru))
DueOf(m, k) == IF Errs(m, k) THEN ErrorDisconnect(m) ELSE m

\* What a connection of kind k carries of m when its writer is at a step.
Carries(m, k, step, used, bytes, gone, read) ==
    /\ step \in Steps \ {"body", "done"} => bytes = <<>> /\ ~gone /\ read = Unread
    /\ step = "publish" => k = "mqtt"
    /\ step = "body" => k = "tcp" /\ used \in Writers /\ ~gone /\ read = Unread /\ \E b \in {0, CmdByte(m.cmd)} : bytes = <<b>>
    /\ step = "done" /\ k = "tcp" => \E b \in {0, CmdByte(m.cmd)}, args \in Stages(m) :
          /\ IF gone THEN PartOf(bytes, OnWire(b, args)) ELSE bytes = OnWire(b, args)
          /\ read \in {Unread, ReadPacket(bytes)}
    /\ k # "tcp" => read = Unread
    /\ k = "mqtt" => bytes \in {<<>>, MqttPackets(m)}

\* A writer of an error writes it at once, and all of it; before there is a
\* packet every writer is at its first step.
WritesError(m, k, step, bytes, gone) ==
    m = NoPacket \/ Errs(m, k) =>
       /\ step \in {FirstStep(k), "done"}
       /\ step = "done" /\ k = "text" => bytes = <<Full(DueOf(m, k))>>
       /\ step = "done" /\ k = "tcp" /\ ~gone => bytes = OnWire(CmdByte(DueOf(m, k).cmd), ArgsOf(DueOf(m, k)))

Sends(m, k, step, used, bytes, gone, read) ==
    Carries(DueOf(m, k), k, step, used, bytes, gone, read) /\ WritesError(m, k, step, bytes, gone)

StreamInv ==
    /\ DOMAIN stream = Writers
    /\ message = NoPacket \/ Packet(message)
    /\ \A w \in Writers : Sends(message, kind[w], pc[w], using[w], stream[w], lost[w], got[w])

\* The writers but w are left alone.
Others(w) == \A v \in Writers \ {w} : /\ pc'[v] = pc[v] /\ using'[v] = using[v] /\ stream'[v] = stream[v]
                                      /\ lost'[v] = lost[v] /\ got'[v] = got[v]

LEMMA OneStream ==
    ASSUME StreamInv, NEW w \in Writers, Others(w), DOMAIN stream' = Writers, message' = message, kind' = kind,
           Sends(message, kind[w], pc'[w], using'[w], stream'[w], lost'[w], got'[w])
    PROVE  StreamInv'
<1>1. ASSUME NEW v \in Writers PROVE Sends(message', kind'[v], pc'[v], using'[v], stream'[v], lost'[v], got'[v])
  <2>1. CASE v = w
    BY <2>1
  <2>2. CASE v # w
    <3>1. Sends(message, kind[v], pc[v], using[v], stream[v], lost[v], got[v])
      BY DEF StreamInv
    <3> QED
      BY <2>2, <3>1 DEF Others
  <2> QED
    BY <2>1, <2>2
<1>2. message' = NoPacket \/ Packet(message')
  BY DEF StreamInv
<1>3. StreamInv' <=> /\ DOMAIN stream' = Writers
                     /\ message' = NoPacket \/ Packet(message')
                     /\ \A v \in Writers : Sends(message', kind'[v], pc'[v], using'[v], stream'[v], lost'[v], got'[v])
  BY DEF StreamInv, Sends, Packet, Stages
<1> QED
  BY <1>1, <1>2, <1>3

LEMMA FirstSteps == \A w \in Writers : WriterInv => FirstStep(kind[w]) \in {"reset", "check", "publish"}
<1> SUFFICES ASSUME NEW w \in Writers, WriterInv PROVE FirstStep(kind[w]) \in {"reset", "check", "publish"}
  OBVIOUS
<1>1. kind[w] \in {"tcp", "text", "mqtt"}
  BY DEF WriterInv
<1>2. FirstStep("tcp") = "check" /\ FirstStep("text") = "reset" /\ FirstStep("mqtt") = "publish"
  BY DEF FirstStep
<1> QED
  BY <1>1, <1>2

LEMMA NoError ==
    ASSUME WriterInv, StreamInv, NEW w \in Writers, message # NoPacket, pc[w] \notin {"reset", "check", "done"} \/ ~Replaced(w)
    PROVE  ~Errs(message, kind[w])
<1> SUFFICES ASSUME Errs(message, kind[w]) PROVE FALSE
  OBVIOUS
<1>1. Sends(message, kind[w], pc[w], using[w], stream[w], lost[w], got[w])
  BY DEF StreamInv
<1>2. pc[w] \in {FirstStep(kind[w]), "done"}
  BY <1>1 DEF Sends, WritesError
<1>3. kind[w] \in {"text", "tcp"} /\ Replaced(w)
  BY DEF Errs, Replaced
<1>4. FirstStep(kind[w]) \in {"reset", "check"}
  BY <1>3 DEF FirstStep
<1> QED
  BY <1>2, <1>3, <1>4

\* What a connection without an error carries.
LEMMA CarriesOwn ==
    ASSUME StreamInv, NEW w \in Writers, ~Errs(message, kind[w])
    PROVE  Carries(message, kind[w], pc[w], using[w], stream[w], lost[w], got[w])
BY DEF StreamInv, Sends, DueOf

LEMMA SendsOwn ==
    ASSUME NEW m, m # NoPacket, NEW k, ~Errs(m, k), NEW step, NEW used, NEW bytes, NEW gone, NEW read,
           Carries(m, k, step, used, bytes, gone, read)
    PROVE  Sends(m, k, step, used, bytes, gone, read)
BY DEF Sends, DueOf, WritesError

LEMMA UniversalStage ==
    ASSUME WriterInv, message # NoPacket, NEW v \in Writers
    PROVE  universal[v].cmd \in {"", message.cmd} /\ universal[v].args \in Stages(message)
<1>1. MadeAt(message, pc[v], universal[v]) /\ Packable(message)
  BY DEF WriterInv
<1>2. Len(Fields(message.cmd)) \in 0..Len(Fields(message.cmd)) /\ 0 \in 0..Len(Fields(message.cmd))
  BY <1>1, FieldsShape DEF Packable
<1>3. universal[v] = Blank \/ universal[v] = Full(message) \/ \E k \in 0..Len(Fields(message.cmd)) : universal[v] = Started(message, k)
  BY <1>1, <1>2 DEF MadeAt, Steps
<1>4. CASE universal[v] = Blank
  <2>1. FirstArgs(message, 0) \in Seq(Parts(message)) /\ Len(FirstArgs(message, 0)) = 0
    BY <1>1, <1>2, FirstArgsShape
  <2>2. FirstArgs(message, 0) = <<>>
    BY <2>1, EmptySeq
  <2>3. universal[v].cmd = "" /\ universal[v].args = <<>>
    <3>1. PICK u : u = universal[v]
      OBVIOUS
    <3>2. u = [cmd |-> "", args |-> <<>>]
      BY ONLY <1>4, <3>1 DEF Blank
    <3>3. u.cmd = "" /\ u.args = <<>>
      BY ONLY <3>2
    <3> QED
      BY ONLY <3>1, <3>3
  <2> QED
    BY <1>2, <2>2, <2>3 DEF Stages
<1>5. CASE universal[v] = Full(message)
  BY <1>5 DEF Stages, Full
<1>6. ASSUME NEW k \in 0..Len(Fields(message.cmd)), universal[v] = Started(message, k)
      PROVE  universal[v].cmd \in {"", message.cmd} /\ universal[v].args \in Stages(message)
  BY <1>6 DEF Stages, Started
<1> QED
  BY <1>3, <1>4, <1>5, <1>6

LEMMA StreamInit ==
    ASSUME Init
    PROVE  StreamInv
<1>1. /\ pc = [w \in Writers |-> FirstStep(kind[w])] /\ kind \in [Writers -> {"tcp", "text", "mqtt"}]
      /\ stream = [w \in Writers |-> <<>>] /\ got = [w \in Writers |-> Unread] /\ lost = [w \in Writers |-> FALSE]
  BY DEF Init, PacketsInit
<1>2. message = NoPacket \/ Packet(message)
  BY MessagesAssumption DEF Init
<1>3. ASSUME NEW w \in Writers PROVE Sends(message, kind[w], pc[w], using[w], stream[w], lost[w], got[w])
  <2>1. /\ pc[w] \in {"reset", "check", "publish"} /\ (pc[w] = "publish" => kind[w] = "mqtt")
        /\ stream[w] = <<>> /\ lost[w] = FALSE /\ got[w] = Unread
    BY <1>1 DEF FirstStep
  <2>2. PICK d : d = DueOf(message, kind[w])
    OBVIOUS
  <2>3. Carries(d, kind[w], pc[w], using[w], stream[w], lost[w], got[w])
    BY <2>1 DEF Carries
  <2>4. pc[w] = FirstStep(kind[w]) /\ pc[w] # "done"
    BY <1>1, <2>1
  <2>5. WritesError(message, kind[w], pc[w], stream[w], lost[w])
    BY <2>4 DEF WritesError
  <2> QED
    BY <2>2, <2>3, <2>5 DEF Sends
<1> QED
  BY <1>1, <1>2, <1>3 DEF StreamInv

LEMMA SameStreams ==
    ASSUME StreamInv, UNCHANGED <<message, kind, pc, using, stream, lost, got>>
    PROVE  StreamInv'
<1>1. /\ message' = message /\ kind' = kind /\ pc' = pc /\ using' = using /\ stream' = stream /\ lost' = lost /\ got' = got
  OBVIOUS
<1>2. StreamInv' <=> StreamInv
  BY <1>1 DEF StreamInv, Sends, Packet, Stages
<1> QED
  BY <1>2

\* A step to anywhere but the end that leaves the connections alone.
LEMMA QuietStep ==
    ASSUME WriterInv, StreamInv, NEW w \in Writers, NEW from \in Steps \ {"body", "done"}, NEW to \in Steps \ {"body", "done", "publish"},
           Goes(w, from, to), ~Errs(message, kind[w]), UNCHANGED <<using, stream, lost, got>>
    PROVE  StreamInv'
<1>1. DOMAIN pc = Writers /\ pc' = [pc EXCEPT ![w] = to] /\ pc[w] = from /\ message' = message /\ kind' = kind
  BY DEF WriterInv, Goes
<1>2. pc'[w] = to /\ Others(w)
  BY <1>1 DEF Others
<1>3. Carries(message, kind[w], from, using[w], stream[w], lost[w], got[w])
  BY <1>1, CarriesOwn
<1>4. Sends(message, kind[w], to, using[w], stream[w], lost[w], got[w])
  <2>1. Carries(message, kind[w], to, using[w], stream[w], lost[w], got[w])
    BY <1>3 DEF Carries
  <2> QED
    BY <2>1, SendsOwn DEF Goes
<1>5. using' = using /\ stream' = stream /\ lost' = lost /\ got' = got /\ DOMAIN stream = Writers
  BY DEF StreamInv
<1> QED
  BY <1>1, <1>2, <1>4, <1>5, OneStream

\* A step that puts bytes on the connection.
LEMMA SendStep ==
    ASSUME WriterInv, StreamInv, NEW w \in Writers, NEW from, NEW to, Goes(w, from, to), NEW bytes,
           stream' = [stream EXCEPT ![w] = bytes], using' = using \/ using' = [using EXCEPT ![w] = backing], UNCHANGED <<lost, got>>,
           ~Errs(message, kind[w]), Carries(message, kind[w], to, using'[w], bytes, lost[w], got[w])
    PROVE  StreamInv'
<1>1. DOMAIN pc = Writers /\ pc' = [pc EXCEPT ![w] = to] /\ message' = message /\ kind' = kind /\ DOMAIN using = Writers
  BY DEF WriterInv, Goes
<1>2. DOMAIN stream = Writers
  BY DEF StreamInv
<1>3. pc'[w] = to /\ stream'[w] = bytes /\ DOMAIN stream' = Writers /\ lost' = lost /\ got' = got
  BY <1>1, <1>2
<1>4. Others(w)
  <2>1. \A v \in Writers \ {w} : using'[v] = using[v]
    BY <1>1
  <2> QED
    BY <1>1, <1>2, <1>3, <2>1 DEF Others
<1>5. Sends(message, kind[w], to, using'[w], bytes, lost[w], got[w])
  BY SendsOwn DEF Goes
<1> QED
  BY <1>1, <1>3, <1>4, <1>5, OneStream

LEMMA StreamSteps ==
    ASSUME WriterInv, StreamInv, NEW w \in Writers, Write(w) \/ Lose(w) \/ Read(w)
    PROVE  StreamInv'
<1>1. CASE Reset(w)
  BY <1>1, NoError, QuietStep DEF Reset, Steps, Goes
<1>2. CASE Check(w)
  <2>1. PICK to : to = IF backing = "nil" THEN "new" ELSE "write"
    OBVIOUS
  <2>2. Goes(w, "check", to) /\ UNCHANGED <<using, stream, lost, got>> /\ to \in {"new", "write"} /\ ~Replaced(w)
    BY <1>2, <2>1 DEF Check
  <2>3. ~Errs(message, kind[w])
    BY <2>2, NoError DEF Goes
  <2> QED
    BY <2>2, <2>3, QuietStep DEF Steps
<1>3. CASE New(w)
  BY <1>3, NoError, QuietStep DEF New, Steps, Goes
<1>4. CASE SetCmd(w)
  BY <1>4, NoError, QuietStep DEF SetCmd, Steps, Goes
<1>5. CASE AppendArg(w)
  <2>1. PICK to \in {"args", "options"} : Goes(w, "args", to)
    BY <1>5 DEF AppendArg
  <2>2. UNCHANGED <<using, stream, lost, got>>
    BY <1>5 DEF AppendArg
  <2> QED
    BY <2>1, <2>2, NoError, QuietStep DEF Steps, Goes
<1>6. CASE AppendOptions(w)
  BY <1>6, NoError, QuietStep DEF AppendOptions, Steps, Goes
<1>7. CASE WriteCmd(w)
  <2>1. /\ kind[w] = "tcp" /\ backing # "nil" /\ Goes(w, "write", "body") /\ using' = [using EXCEPT ![w] = backing]
        /\ stream' = [stream EXCEPT ![w] = <<CmdByte(universal[backing].cmd)>>] /\ UNCHANGED <<lost, got>>
    BY <1>7 DEF WriteCmd
  <2>2. backing \in Writers /\ message # NoPacket /\ DOMAIN using = Writers /\ pc[w] = "write"
    BY <2>1 DEF WriterInv, Goes
  <2>3. universal[backing].cmd \in {"", message.cmd}
    BY <2>2, UniversalStage
  <2>4. PICK b : b = CmdByte(universal[backing].cmd)
    OBVIOUS
  <2>5. b \in {0, CmdByte(message.cmd)}
    <3>1. CmdByte("") = 0
      BY DEF CmdByte
    <3> QED
      BY <2>3, <2>4, <3>1
  <2>9. ~Errs(message, kind[w])
    BY <2>2, NoError
  <2>6. ~lost[w] /\ got[w] = Unread
    BY <2>2, <2>9, CarriesOwn DEF Carries, Steps
  <2>7. using'[w] \in Writers
    BY <2>1, <2>2
  <2>8. Carries(message, kind[w], "body", using'[w], <<b>>, lost[w], got[w])
    BY <2>1, <2>5, <2>6, <2>7 DEF Carries
  <2> QED
    BY <2>1, <2>4, <2>8, <2>9, SendStep
<1>8. CASE WriteBody(w)
  <2>1. PICK args, bytes : /\ args = universal[using[w]].args
                           /\ bytes = IF Len(args) >= MaxArgs THEN stream[w] ELSE stream[w] \o WriteArrayOfByteArray(args)
    OBVIOUS
  <2>2. Goes(w, "body", "done") /\ stream' = [stream EXCEPT ![w] = bytes] /\ UNCHANGED <<using, lost, got>>
    BY <1>8, <2>1 DEF WriteBody
  <2>3. message # NoPacket /\ pc[w] = "body"
    BY <2>2 DEF Goes
  <2>10. ~Errs(message, kind[w])
    BY <2>3, NoError
  <2>4. Carries(message, kind[w], "body", using[w], stream[w], lost[w], got[w])
    BY <2>3, <2>10, CarriesOwn
  <2>5. /\ kind[w] = "tcp" /\ using[w] \in Writers /\ ~lost[w] /\ got[w] = Unread
        /\ \E b \in {0, CmdByte(message.cmd)} : stream[w] = <<b>>
    BY <2>4 DEF Carries
  <2>6. PICK b \in {0, CmdByte(message.cmd)} : stream[w] = <<b>>
    BY <2>5
  <2>7. args \in Stages(message)
    BY <2>1, <2>3, <2>5, UniversalStage
  <2>8. bytes = OnWire(b, args)
    BY <2>1, <2>6 DEF OnWire
  <2>9. Carries(message, kind[w], "done", using'[w], bytes, lost[w], got[w])
    BY <2>5, <2>7, <2>8 DEF Carries
  <2> QED
    BY <2>2, <2>9, <2>10, SendStep
<1>9. CASE WriteText(w)
  <2>1. PICK bytes : bytes = <<universal[backing]>>
    OBVIOUS
  <2>2. kind[w] = "text" /\ Goes(w, "write", "done") /\ stream' = [stream EXCEPT ![w] = bytes] /\ UNCHANGED <<using, lost, got>>
    BY <1>9, <2>1 DEF WriteText
  <2>3. pc[w] = "write" /\ ~Errs(message, kind[w])
    BY <2>2, NoError DEF Goes
  <2>4. ~lost[w] /\ got[w] = Unread
    BY <2>3, CarriesOwn DEF Carries, Steps
  <2>5. Carries(message, kind[w], "done", using'[w], bytes, lost[w], got[w])
    BY <2>2, <2>4 DEF Carries
  <2> QED
    BY <2>2, <2>3, <2>5, SendStep
<1>10. CASE WriteMqtt(w)
  <2>1. PICK bytes : bytes = MqttPackets(message)
    OBVIOUS
  <2>2. Goes(w, "publish", "done") /\ stream' = [stream EXCEPT ![w] = bytes] /\ UNCHANGED <<using, lost, got>>
    BY <1>10, <2>1 DEF WriteMqtt
  <2>3. pc[w] = "publish" /\ ~Errs(message, kind[w])
    BY <2>2, NoError DEF Goes
  <2>4. kind[w] = "mqtt" /\ got[w] = Unread
    BY <2>3, CarriesOwn DEF Carries, Steps
  <2>5. Carries(message, kind[w], "done", using'[w], bytes, lost[w], got[w])
    BY <2>1, <2>3, <2>4 DEF Carries
  <2> QED
    BY <2>2, <2>3, <2>5, SendStep
<1>14. CASE WriteError(w)
  <2>1. PICK d, bytes : d = ErrorDisconnect(message)
                        /\ bytes = IF kind[w] = "text" THEN <<Written(d)>> ELSE OnWire(CmdByte(d.cmd), ArgsOf(d))
    OBVIOUS
  <2>2. Goes(w, FirstStep(kind[w]), "done") /\ Replaced(w) /\ stream' = [stream EXCEPT ![w] = bytes] /\ UNCHANGED <<using, lost, got>>
    BY <1>14, <2>1 DEF WriteError
  <2>3. /\ message # NoPacket /\ message' = message /\ kind' = kind /\ pc' = [pc EXCEPT ![w] = "done"]
        /\ pc[w] = FirstStep(kind[w]) /\ pc[w] \in {"reset", "check", "publish"}
    BY <2>2, FirstSteps DEF Goes
  <2>4. Errs(message, kind[w]) /\ DueOf(message, kind[w]) = d
    BY <2>1, <2>2, <2>3 DEF Errs, DueOf, Replaced
  <2>5. Carries(d, kind[w], pc[w], using[w], stream[w], lost[w], got[w])
    BY <2>4 DEF StreamInv, Sends
  <2>6. ~lost[w] /\ got[w] = Unread
    BY <2>3, <2>5 DEF Carries, Steps
  <2>7. Carries(d, kind[w], "done", using[w], bytes, lost[w], got[w])
    <3>1. kind[w] \in {"text", "tcp"}
      BY <2>4 DEF Errs
    <3> QED
      BY <2>1, <2>6, <3>1 DEF Carries, Stages
  <2>8. WritesError(message, kind[w], "done", bytes, lost[w])
    BY <2>1, <2>4 DEF WritesError, Written, Full
  <2>9. Sends(message, kind[w], "done", using[w], bytes, lost[w], got[w])
    BY <2>4, <2>7, <2>8 DEF Sends
  <2>10. DOMAIN pc = Writers /\ DOMAIN stream = Writers
    BY DEF WriterInv, StreamInv
  <2>11. pc'[w] = "done" /\ stream'[w] = bytes /\ Others(w) /\ DOMAIN stream' = Writers
    BY <2>2, <2>3, <2>10 DEF Others
  <2> QED
    BY <2>2, <2>3, <2>9, <2>11, OneStream
<1>11. CASE WriteNil(w)
  <2>1. UNCHANGED <<message, kind, pc, using, stream, lost, got>>
    BY <1>11 DEF WriteNil
  <2> QED
    BY <2>1, SameStreams
<1>12. CASE Lose(w)
  <2>1. PICK n \in 0..(Len(stream[w]) - 1) : stream' = [stream EXCEPT ![w] = SubSeq(stream[w], 1, n)]
    BY <1>12 DEF Lose
  <2>2. PICK bytes : bytes = SubSeq(stream[w], 1, n)
    OBVIOUS
  <2>3. /\ kind[w] = "tcp" /\ pc[w] = "done" /\ got[w] = Unread /\ ~lost[w] /\ lost' = [lost EXCEPT ![w] = TRUE]
        /\ UNCHANGED <<message, kind, pc, using, got>>
    BY <1>12 DEF Lose
  <2>11. PICK d : d = DueOf(message, kind[w])
    OBVIOUS
  <2>4. /\ DOMAIN stream = Writers /\ Carries(d, kind[w], pc[w], using[w], stream[w], lost[w], got[w])
        /\ WritesError(message, kind[w], pc[w], stream[w], lost[w])
    BY <2>11 DEF StreamInv, Sends
  <2>5. PICK b \in {0, CmdByte(d.cmd)} : \E args \in Stages(d) : stream[w] = OnWire(b, args)
    BY <2>3, <2>4 DEF Carries
  <2>6. PICK args \in Stages(d) : stream[w] = OnWire(b, args)
    BY <2>5
  <2>7. PartOf(bytes, OnWire(b, args))
    BY <2>1, <2>2, <2>6 DEF PartOf
  <2>8. Sends(message, kind[w], "done", using[w], bytes, TRUE, got[w])
    <3>1. Carries(d, kind[w], "done", using[w], bytes, TRUE, got[w])
      BY <2>3, <2>7 DEF Carries
    <3>2. WritesError(message, kind[w], "done", bytes, TRUE)
      BY <2>3, <2>4 DEF WritesError
    <3> QED
      BY <2>11, <3>1, <3>2 DEF Sends
  <2>9. DOMAIN lost = Writers
    BY DEF WriterInv
  <2>10. stream'[w] = bytes /\ lost'[w] = TRUE /\ Others(w) /\ DOMAIN stream' = Writers
    BY <2>1, <2>2, <2>3, <2>4, <2>9 DEF Others
  <2> QED
    BY <2>3, <2>8, <2>10, OneStream
<1>13. CASE Read(w)
  <2>1. /\ kind[w] = "tcp" /\ pc[w] = "done" /\ got' = [got EXCEPT ![w] = ReadPacket(stream[w])]
        /\ UNCHANGED <<message, kind, pc, using, stream, lost>>
    BY <1>13 DEF Read
  <2>2. DOMAIN stream = Writers /\ Sends(message, kind[w], pc[w], using[w], stream[w], lost[w], got[w])
    BY DEF StreamInv
  <2>3. DOMAIN got = Writers
    BY DEF WriterInv
  <2>4. got'[w] = ReadPacket(stream[w]) /\ Others(w)
    BY <2>1, <2>3 DEF Others
  <2>5. Sends(message, kind[w], pc[w], using[w], stream[w], lost[w], ReadPacket(stream[w]))
    <3>1. PICK d : d = DueOf(message, kind[w])
      OBVIOUS
    <3>2. Carries(d, kind[w], pc[w], using[w], stream[w], lost[w], got[w])
      BY <2>2, <3>1 DEF Sends
    <3>3. Carries(d, kind[w], pc[w], using[w], stream[w], lost[w], ReadPacket(stream[w]))
      BY <2>1, <3>2 DEF Carries
    <3> QED
      BY <2>2, <3>1, <3>3 DEF Sends
  <2> QED
    BY <2>1, <2>2, <2>4, <2>5, OneStream
<1> QED
  BY <1>1, <1>2, <1>3, <1>4, <1>5, <1>6, <1>7, <1>8, <1>9, <1>10, <1>11, <1>12, <1>13, <1>14, Zenon DEF Write

LEMMA StreamDeliver ==
    ASSUME WriterInv, StreamInv, SocketInv, Deliver
    PROVE  StreamInv'
<1>1. Packet(message')
  BY DeliveredPacket
<1>2. /\ message = NoPacket
      /\ UNCHANGED <<kind, backing, universal, pc, using, stream, lost, got, raced, panicked>>
  BY DEF Deliver
<1>3. \A w \in Writers : pc[w] \in {"reset", "check", "publish"}
  BY <1>2 DEF WriterInv
<1>4. kind' = kind /\ pc' = pc /\ using' = using /\ stream' = stream /\ lost' = lost /\ got' = got
  BY <1>2
<1>5. ASSUME NEW w \in Writers PROVE Sends(message', kind'[w], pc'[w], using'[w], stream'[w], lost'[w], got'[w])
  <2>1. pc[w] \in {"reset", "check", "publish"} /\ Sends(message, kind[w], pc[w], using[w], stream[w], lost[w], got[w])
    BY <1>3 DEF StreamInv
  <2>2. pc[w] \in Steps \ {"body", "done"}
    BY <2>1 DEF Steps
  <2>3. Sends(message', kind[w], pc[w], using[w], stream[w], lost[w], got[w])
    <3>1. PICK d, e : d = DueOf(message, kind[w]) /\ e = DueOf(message', kind[w])
      OBVIOUS
    <3>2. Carries(d, kind[w], pc[w], using[w], stream[w], lost[w], got[w]) /\ WritesError(message, kind[w], pc[w], stream[w], lost[w])
      BY <2>1, <3>1 DEF Sends
    <3>3. Carries(e, kind[w], pc[w], using[w], stream[w], lost[w], got[w])
      BY <2>1, <2>2, <3>2 DEF Carries
    <3>4. pc[w] = FirstStep(kind[w]) /\ pc[w] # "done"
      BY <1>2, <2>1, <3>2 DEF WritesError
    <3>5. WritesError(message', kind[w], pc[w], stream[w], lost[w])
      BY <3>4 DEF WritesError
    <3> QED
      BY <3>1, <3>3, <3>5 DEF Sends
  <2> QED
    BY <1>4, <2>3
<1>6. DOMAIN stream' = Writers
  BY <1>4 DEF StreamInv
<1>7. StreamInv' <=> /\ DOMAIN stream' = Writers
                     /\ message' = NoPacket \/ Packet(message')
                     /\ \A v \in Writers : Sends(message', kind'[v], pc'[v], using'[v], stream'[v], lost'[v], got'[v])
  BY DEF StreamInv, Sends, Packet, Stages
<1> QED
  BY <1>1, <1>5, <1>6, <1>7

LEMMA StreamNext ==
    ASSUME WriterInv, StreamInv, SocketInv, [Next]_vars
    PROVE  StreamInv'
<1>1. CASE UNCHANGED packetVars
  BY <1>1, SameStreams DEF packetVars
<1>2. CASE Deliver
  BY <1>2, StreamDeliver
<1>3. CASE PacketsNext
  BY <1>3, StreamSteps DEF PacketsNext
<1> QED
  BY <1>1, <1>2, <1>3, Zenon DEF Next, vars

\* What a reader has is what it makes of its bytes.
LEMMA WhatIsRead ==
    ASSUME WriterInv, StreamInv, NEW w \in Writers, got[w] # Unread
    PROVE  /\ message # NoPacket /\ Packet(Due(w)) /\ kind[w] = "tcp" /\ pc[w] = "done"
           /\ got[w] \in {NoPacket, Due(w), With(Due(w), <<>>)}
           /\ lost[w] => got[w] = NoPacket
           /\ got[w] = ReadPacket(stream[w])
<1>1. Sends(message, kind[w], pc[w], using[w], stream[w], lost[w], got[w]) /\ pc[w] \in Steps
  BY DEF StreamInv, WriterInv, MadeAt
<1>12. PICK d : d = DueOf(message, kind[w])
  OBVIOUS
<1>13. Carries(d, kind[w], pc[w], using[w], stream[w], lost[w], got[w])
  BY <1>1, <1>12 DEF Sends
<1>2. kind[w] = "tcp" /\ pc[w] = "done"
  BY <1>1, <1>13 DEF Carries
<1>3. message # NoPacket
  BY <1>2 DEF WriterInv
<1>14. d = Due(w)
  BY <1>3, <1>12 DEF DueOf, Errs, Due, Replaced
<1>4. Packet(d)
  <2>1. Packet(message)
    BY <1>3 DEF StreamInv
  <2> QED
    BY <1>12, <2>1, ErrorPacket DEF DueOf, Errs
<1>5. PICK b \in {0, CmdByte(d.cmd)} : \E args \in Stages(d) :
          /\ IF lost[w] THEN PartOf(stream[w], OnWire(b, args)) ELSE stream[w] = OnWire(b, args)
          /\ got[w] \in {Unread, ReadPacket(stream[w])}
  BY <1>2, <1>13 DEF Carries
<1>6. PICK args \in Stages(d) :
          /\ IF lost[w] THEN PartOf(stream[w], OnWire(b, args)) ELSE stream[w] = OnWire(b, args)
          /\ got[w] \in {Unread, ReadPacket(stream[w])}
  BY <1>5
<1>7. got[w] = ReadPacket(stream[w])
  BY <1>6
<1>8. args = ArgsOf(d) \/ \E k \in 0..Len(Fields(d.cmd)) : args = FirstArgs(d, k)
  BY <1>6 DEF Stages
<1>9. b \in Nat /\ CanWrite(args) /\ ReadPacket(OnWire(b, args)) \in {NoPacket, d, With(d, <<>>)}
  BY <1>4, <1>8, StageRead
<1>10. CASE lost[w]
  <2>1. PartOf(stream[w], OnWire(b, args))
    BY <1>6, <1>10
  <2>2. ReadPacket(stream[w]) = NoPacket
    BY <1>9, <2>1, PartRead
  <2> QED
    BY <1>2, <1>3, <1>4, <1>7, <1>14, <2>2
<1>11. CASE ~lost[w]
  <2>1. stream[w] = OnWire(b, args)
    BY <1>6, <1>11
  <2> QED
    BY <1>2, <1>3, <1>4, <1>7, <1>9, <1>11, <1>14, <2>1
<1> QED
  BY <1>10, <1>11

LEMMA MqttTopics ==
    ASSUME WriterInv, StreamInv
    PROVE  MqttTopicsReturn
<1> SUFFICES ASSUME NEW w \in Writers, NEW q \in Range(stream[w]), kind[w] = "mqtt", q.type = "publish"
             PROVE  /\ EnsureAddressIsBinary(FromBytes(q.topic)) = EnsureAddressIsBinary(message.address)
                    /\ EnsureAddressIsBinary(FromBytes(q.response)) = EnsureAddressIsBinary(message.source)
  BY DEF MqttTopicsReturn
<1>1. Carries(message, kind[w], pc[w], using[w], stream[w], lost[w], got[w]) /\ pc[w] \in Steps
  <2>1. ~Errs(message, kind[w])
    BY DEF Errs
  <2> QED
    BY <2>1, CarriesOwn DEF WriterInv, MadeAt
<1>2. stream[w] # <<>> /\ stream[w] = MqttPackets(message)
  <2>1. stream[w] # <<>>
    BY DEF Range
  <2> QED
    BY <1>1, <2>1 DEF Carries
<1>3. pc[w] \in {"body", "done"}
  BY <1>1, <1>2 DEF Carries
<1>4. message # NoPacket
  BY <1>3 DEF WriterInv
<1>5. Packet(message)
  BY <1>4 DEF StreamInv
<1>6. Sound(message.address) /\ Sound(message.source)
  BY <1>5 DEF Packet
<1>7. q.topic = AddressString(message.address) /\ q.response = AddressString(message.source)
  <2>1. CASE message.cmd = "P"
    <3>1. PICK r : /\ r = [type |-> "publish", topic |-> AddressString(message.address), payload |-> message.payload,
                           response |-> AddressString(message.source), props |-> message.options]
      OBVIOUS
    <3>4. PICK dis : dis = [type |-> "disconnect"]
      OBVIOUS
    <3>2. MqttPackets(message) = <<r>> \/ MqttPackets(message) = <<r, dis>>
      <4>1. MqttPackets(message) = <<r>> \o (IF HasError(message) THEN <<dis>> ELSE <<>>)
        BY <2>1, <3>1, <3>4 DEF MqttPackets
      <4>2. <<r>> \in Seq({r, dis}) /\ <<dis>> \in Seq({r, dis}) /\ Len(<<r>>) = 1 /\ Len(<<dis>>) = 1
        OBVIOUS
      <4>3. PICK s, t : s = <<r>> \o <<dis>> /\ t = <<r, dis>>
        OBVIOUS
      <4>4. s \in Seq({r, dis}) /\ Len(s) = 2 /\ s[1] = r /\ s[2] = dis
        BY ONLY <4>2, <4>3, ConcatProperties
      <4>5. t \in Seq({r, dis}) /\ Len(t) = 2 /\ t[1] = r /\ t[2] = dis
        BY ONLY <4>3
      <4>6. s = t
        BY ONLY <4>4, <4>5, SeqEqual
      <4>7. <<r>> \o <<>> = <<r>>
        BY ONLY <4>2, ConcatEmptySeq
      <4> QED
        BY <4>1, <4>3, <4>6, <4>7
    <3>3. q = r
      <4>1. q \in {r, dis}
        BY <1>2, <3>2 DEF Range
      <4> QED
        BY <3>4, <4>1
    <3> QED
      BY <3>1, <3>3
  <2>2. CASE message.cmd = "L"
    <3>1. PICK r : /\ r = [type |-> "publish", topic |-> AddressString(message.address), payload |-> HadLookup,
                           response |-> AddressString(message.source), props |-> message.options \o LookupProps]
      OBVIOUS
    <3>2. MqttPackets(message) = <<r>>
      BY <2>2, <3>1 DEF MqttPackets
    <3>3. q = r
      BY <1>2, <3>2 DEF Range
    <3> QED
      BY <3>1, <3>3
  <2>3. CASE message.cmd = "D"
    <3>1. PICK r : r = [type |-> "disconnect"]
      OBVIOUS
    <3>2. MqttPackets(message) = <<r>>
      BY <2>3, <3>1 DEF MqttPackets
    <3>3. q = r
      BY <1>2, <3>2 DEF Range
    <3> QED
      BY <3>1, <3>3
  <2>4. CASE message.cmd \notin {"P", "L", "D"}
    <3>1. MqttPackets(message) = <<>>
      BY <2>4 DEF MqttPackets
    <3> QED
      BY <1>2, <3>1
  <2> QED
    BY <2>1, <2>2, <2>3, <2>4
<1> QED
  BY <1>6, <1>7, AddressStringRead

LEMMA StreamImplies ==
    ASSUME WriterInv, StreamInv
    PROVE  ReadsAreTrue
<1>1. ASSUME NEW w \in Writers, Arrived(w)
      PROVE  /\ ~lost[w]
             /\ got[w].cmd = Due(w).cmd /\ got[w].payload = Due(w).payload
             /\ EnsureAddressIsBinary(got[w].address) = EnsureAddressIsBinary(Due(w).address)
             /\ EnsureAddressIsBinary(got[w].source) = EnsureAddressIsBinary(Due(w).source)
             /\ got[w].options \in {Due(w).options, <<>>}
  <2>1. got[w] # Unread /\ got[w] # NoPacket
    BY <1>1 DEF Arrived
  <2>2. got[w] \in {Due(w), With(Due(w), <<>>)} /\ ~lost[w]
    BY <2>1, WhatIsRead
  <2> QED
    BY <2>2 DEF With
<1> QED
  BY <1>1, MqttTopics DEF ReadsAreTrue

LEMMA WriterInvariant == Spec => []WriterInv
BY WriterInit, WriterNext, SocketInvariant, PTL DEF Spec

LEMMA StreamInvariant == Spec => []StreamInv
BY StreamInit, StreamNext, WriterInvariant, SocketInvariant, PTL DEF Spec

\* However the writers of one packet get in each other's way, and whatever part
\* of its bytes is lost, a reader that accepts one has the fields of the packet,
\* or of the disconnect that is written when that is an error, and all of its
\* options or none (Universal.Write, ReadPacket).
THEOREM ReadsTheorem == Spec => []ReadsAreTrue
<1>1. WriterInv /\ StreamInv => ReadsAreTrue
  BY StreamImplies
<1> QED
  BY <1>1, WriterInvariant, StreamInvariant, PTL

----------------------------------------------------------------------------
(* One writer at a time *)

Filling == {"cmd", "args", "options"}

\* Where writer v is when no two writers have run at a time: the universal it
\* fills is the packet's own, and the one it writes is full.
AloneAt(m, k, step, v, owner, made, used, bytes, gone) ==
    /\ step \in Filling => owner = v
    /\ step = "new" => owner = "nil"
    /\ step = "write" => owner \in Writers /\ made[owner] = Full(m)
    /\ step = "body" => used \in Writers /\ made[used] = Full(m) /\ bytes = <<CmdByte(m.cmd)>>
    /\ step = "done" /\ ~Errs(m, k) /\ k = "tcp" /\ ~gone => bytes = OnWire(CmdByte(m.cmd), ArgsOf(m))
    /\ step = "done" /\ ~Errs(m, k) /\ k = "text" => bytes = <<Full(m)>>

OneAtATime == \A v, w \in Writers : Begun(v) /\ Begun(w) => v = w
OwnerFilled == backing # "nil" => backing \in Writers /\ (universal[backing] = Full(message) \/ pc[backing] \in Filling)
EachAlone == \A w \in Writers : AloneAt(message, kind[w], pc[w], w, backing, universal, using[w], stream[w], lost[w])

AloneInv ==
    /\ message = NoPacket => backing = "nil"
    /\ ~raced => OneAtATime /\ OwnerFilled /\ EachAlone

\* A step of the only writer at work.
LEMMA OneAlone ==
    ASSUME WriterInv, EachAlone, NEW w \in Writers, \A v \in Writers \ {w} : ~Begun(v), Others(w),
           message # NoPacket, message' = message, kind' = kind, OwnerFilled',
           AloneAt(message, kind[w], pc'[w], w, backing', universal', using'[w], stream'[w], lost'[w])
    PROVE  AloneInv'
<1>1. \A v \in Writers \ {w} : ~Begun(v)'
  BY DEF Others, Begun, FirstStep
<1>2. OneAtATime'
  BY <1>1 DEF OneAtATime
<1>3. ASSUME NEW v \in Writers PROVE AloneAt(message, kind[v], pc'[v], v, backing', universal', using'[v], stream'[v], lost'[v])
  <2>1. CASE v = w
    BY <2>1
  <2>2. CASE v # w
    <3>1. pc[v] \in {"reset", "check", "publish", "done"}
      BY <2>2, FirstSteps DEF Begun
    <3>2. AloneAt(message, kind[v], pc[v], v, backing, universal, using[v], stream[v], lost[v])
      BY DEF EachAlone
    <3>3. pc'[v] = pc[v] /\ stream'[v] = stream[v] /\ lost'[v] = lost[v]
      BY <2>2 DEF Others
    <3> QED
      BY <3>1, <3>2, <3>3 DEF AloneAt, Filling
  <2> QED
    BY <2>1, <2>2
<1>4. EachAlone' <=> \A v \in Writers : AloneAt(message', kind'[v], pc'[v], v, backing', universal', using'[v], stream'[v], lost'[v])
  BY DEF EachAlone, AloneAt, Errs, HasError, Full, ArgsOf, FieldBytes, PackOptions
<1> QED
  BY <1>2, <1>3, <1>4 DEF AloneInv

\* The packet's universal stays what it is.
LEMMA FilledStays ==
    ASSUME OwnerFilled, NEW w \in Writers, Others(w), pc[w] \notin Filling, backing' = backing, universal' = universal, message' = message
    PROVE  OwnerFilled'
<1> SUFFICES ASSUME backing # "nil" PROVE backing \in Writers /\ (universal[backing] = Full(message) \/ pc'[backing] \in Filling)
  BY DEF OwnerFilled, Full, ArgsOf, FieldBytes, PackOptions
<1>1. backing \in Writers /\ (universal[backing] = Full(message) \/ pc[backing] \in Filling)
  BY DEF OwnerFilled
<1>2. pc[backing] \in Filling => backing \in Writers \ {w}
  BY <1>1
<1>3. pc[backing] \in Filling => pc'[backing] = pc[backing]
  BY <1>2 DEF Others
<1> QED
  BY <1>1, <1>3

\* A step of a writer that is done after it.
LEMMA DoneAlone ==
    ASSUME WriterInv, OneAtATime, OwnerFilled, EachAlone, NEW w \in Writers, Others(w), pc[w] \notin Filling, pc'[w] = "done",
           message # NoPacket, message' = message, kind' = kind, backing' = backing, universal' = universal,
           AloneAt(message, kind[w], "done", w, backing, universal, using'[w], stream'[w], lost'[w])
    PROVE  AloneInv'
<1>1. \A v \in Writers : Begun(v)' => Begun(v)
  <2> SUFFICES ASSUME NEW v \in Writers, Begun(v)' PROVE Begun(v)
    OBVIOUS
  <2>1. pc'[v] \notin {FirstStep(kind[v]), "done"}
    BY DEF Begun, FirstStep
  <2>2. v # w
    BY <2>1
  <2>3. pc'[v] = pc[v]
    BY <2>2 DEF Others
  <2> QED
    BY <2>1, <2>3 DEF Begun
<1>2. OneAtATime'
  BY <1>1 DEF OneAtATime
<1>3. OwnerFilled'
  BY FilledStays
<1>4. ASSUME NEW v \in Writers PROVE AloneAt(message, kind[v], pc'[v], v, backing, universal, using'[v], stream'[v], lost'[v])
  <2>1. CASE v = w
    BY <2>1
  <2>2. CASE v # w
    <3>1. AloneAt(message, kind[v], pc[v], v, backing, universal, using[v], stream[v], lost[v])
      BY DEF EachAlone
    <3> QED
      BY <2>2, <3>1 DEF Others
  <2> QED
    BY <2>1, <2>2
<1>5. EachAlone' <=> \A v \in Writers : AloneAt(message', kind'[v], pc'[v], v, backing', universal', using'[v], stream'[v], lost'[v])
  BY DEF EachAlone, AloneAt, Errs, HasError, Full, ArgsOf, FieldBytes, PackOptions
<1> QED
  BY <1>2, <1>3, <1>4, <1>5 DEF AloneInv

LEMMA SameAlone ==
    ASSUME AloneInv, UNCHANGED <<message, kind, backing, universal, pc, using, stream, lost, raced>>
    PROVE  AloneInv'
<1>1. /\ message' = message /\ kind' = kind /\ backing' = backing /\ universal' = universal /\ pc' = pc
      /\ using' = using /\ stream' = stream /\ lost' = lost /\ raced' = raced
  OBVIOUS
<1>2. OneAtATime' <=> OneAtATime
  BY <1>1 DEF OneAtATime, Begun, FirstStep
<1>3. OwnerFilled' <=> OwnerFilled
  BY <1>1 DEF OwnerFilled, Full, ArgsOf, FieldBytes, PackOptions
<1>4. EachAlone' <=> EachAlone
  BY <1>1 DEF EachAlone, AloneAt, Errs, HasError, Full, ArgsOf, FieldBytes, PackOptions
<1> QED
  BY <1>1, <1>2, <1>3, <1>4 DEF AloneInv

\* Who is left alone by a step of a writer.
LEMMA OthersStep ==
    ASSUME WriterInv, StreamInv, NEW w \in Writers, NEW from, NEW to, Goes(w, from, to), NEW bytes,
           stream' = stream \/ stream' = [stream EXCEPT ![w] = bytes],
           using' = using \/ using' = [using EXCEPT ![w] = backing], UNCHANGED <<lost, got>>
    PROVE  /\ Others(w) /\ pc'[w] = to /\ pc[w] = from /\ message' = message /\ kind' = kind /\ message # NoPacket
           /\ lost'[w] = lost[w] /\ stream'[w] = (IF stream' = stream THEN stream[w] ELSE bytes)
           /\ using'[w] = (IF using' = using THEN using[w] ELSE backing)
<1>1. DOMAIN pc = Writers /\ DOMAIN using = Writers /\ DOMAIN stream = Writers
  BY DEF WriterInv, StreamInv
<1>2. pc' = [pc EXCEPT ![w] = to] /\ pc[w] = from /\ message' = message /\ kind' = kind /\ message # NoPacket /\ lost' = lost /\ got' = got
  BY DEF Goes
<1>3. \A v \in Writers \ {w} : pc'[v] = pc[v] /\ stream'[v] = stream[v] /\ using'[v] = using[v]
  BY <1>1, <1>2
<1> QED
  BY <1>1, <1>2, <1>3 DEF Others

LEMMA NobodyElse ==
    ASSUME WriterInv, OneAtATime, NEW w \in Writers, pc[w] \notin {"reset", "check", "publish", "done"}
    PROVE  \A v \in Writers \ {w} : ~Begun(v)
<1>1. Begun(w)
  BY FirstSteps DEF Begun
<1> QED
  BY <1>1 DEF OneAtATime

LEMMA AloneSteps ==
    ASSUME WriterInv, StreamInv, AloneInv, NEW w \in Writers, Write(w), WriterInv', ~raced'
    PROVE  AloneInv'
<1>0. ASSUME NEW from, NEW to, Goes(w, from, to) PROVE message # NoPacket /\ message' = message /\ kind' = kind /\ pc[w] = from
  BY <1>0 DEF Goes
<1>1. CASE Reset(w)
  <2>1. /\ Goes(w, "reset", "check") /\ Begins(w) /\ backing' = "nil"
        /\ stream' = stream /\ using' = using /\ UNCHANGED <<lost, got>>
    BY <1>1 DEF Reset
  <2>2. ~raced /\ \A v \in Writers \ {w} : ~Begun(v)
    BY <2>1 DEF Begins
  <2>3. Others(w) /\ pc'[w] = "check" /\ message' = message /\ kind' = kind /\ message # NoPacket
    BY <2>1, OthersStep
  <2>4. OwnerFilled'
    BY <2>1 DEF OwnerFilled
  <2>5. AloneAt(message, kind[w], pc'[w], w, backing', universal', using'[w], stream'[w], lost'[w])
    BY <2>3 DEF AloneAt, Filling
  <2>6. EachAlone
    BY <2>2 DEF AloneInv
  <2> QED
    BY <2>2, <2>3, <2>4, <2>5, <2>6, OneAlone
<1>2. CASE Check(w)
  <2>1. PICK to : to = IF backing = "nil" THEN "new" ELSE "write"
    OBVIOUS
  <2>2. /\ Goes(w, "check", to) /\ Begins(w) /\ backing' = backing /\ universal' = universal
        /\ stream' = stream /\ using' = using /\ UNCHANGED <<lost, got>>
    BY <1>2, <2>1 DEF Check
  <2>3. ~raced /\ \A v \in Writers \ {w} : ~Begun(v)
    BY <2>2 DEF Begins
  <2>4. Others(w) /\ pc'[w] = to /\ pc[w] = "check" /\ message' = message /\ kind' = kind /\ message # NoPacket
    BY <2>2, OthersStep
  <2>5. OwnerFilled /\ EachAlone
    BY <2>3 DEF AloneInv
  <2>6. backing # "nil" => backing \in Writers /\ universal[backing] = Full(message)
    <3> SUFFICES ASSUME backing # "nil" PROVE backing \in Writers /\ universal[backing] = Full(message)
      OBVIOUS
    <3>1. backing \in Writers
      BY <2>5 DEF OwnerFilled
    <3>2. pc[backing] \notin Filling
      <4>1. CASE backing = w
        BY <2>4, <4>1 DEF Filling
      <4>2. CASE backing # w
        <5>1. pc[backing] \in {"reset", "check", "publish", "done"}
          BY <2>3, <3>1, <4>2, FirstSteps DEF Begun
        <5> QED
          BY <5>1 DEF Filling
      <4> QED
        BY <4>1, <4>2
    <3> QED
      BY <2>5, <3>1, <3>2 DEF OwnerFilled
  <2>7. OwnerFilled'
    BY <2>2, <2>4, <2>6 DEF OwnerFilled, Full, ArgsOf, FieldBytes, PackOptions
  <2>8. AloneAt(message, kind[w], pc'[w], w, backing', universal', using'[w], stream'[w], lost'[w])
    BY <2>1, <2>2, <2>4, <2>6 DEF AloneAt, Filling
  <2> QED
    BY <2>3, <2>4, <2>5, <2>7, <2>8, OneAlone
<1>3. ASSUME pc[w] \notin {"reset", "check", "publish", "done"}, raced' = raced
      PROVE  ~raced /\ (\A v \in Writers \ {w} : ~Begun(v)) /\ OwnerFilled /\ EachAlone
             /\ AloneAt(message, kind[w], pc[w], w, backing, universal, using[w], stream[w], lost[w])
  <2>1. ~raced /\ OneAtATime /\ OwnerFilled /\ EachAlone
    BY <1>3 DEF AloneInv
  <2> QED
    BY <1>3, <2>1, NobodyElse DEF EachAlone
<1>4. CASE New(w)
  <2>1. Goes(w, "new", "cmd") /\ backing' = w /\ stream' = stream /\ using' = using /\ UNCHANGED <<lost, got>> /\ raced' = raced
    BY <1>4 DEF New
  <2>2. Others(w) /\ pc'[w] = "cmd" /\ pc[w] = "new" /\ message' = message /\ kind' = kind /\ message # NoPacket
    BY <2>1, OthersStep
  <2>3. OwnerFilled'
    BY <2>1, <2>2 DEF OwnerFilled, Filling
  <2>4. AloneAt(message, kind[w], pc'[w], w, backing', universal', using'[w], stream'[w], lost'[w])
    BY <2>1, <2>2 DEF AloneAt, Filling
  <2> QED
    BY <1>3, <2>1, <2>2, <2>3, <2>4, OneAlone
<1>5. ASSUME NEW from \in Filling, NEW to \in Filling, Goes(w, from, to), backing' = backing,
             stream' = stream, using' = using, UNCHANGED <<lost, got>>, raced' = raced
      PROVE  AloneInv'
  <2>1. Others(w) /\ pc'[w] = to /\ pc[w] = from /\ message' = message /\ kind' = kind /\ message # NoPacket
    BY <1>5, OthersStep
  <2>2. pc[w] \notin {"reset", "check", "publish", "done"}
    BY <2>1 DEF Filling
  <2>3. backing = w
    BY <1>3, <1>5, <2>1, <2>2 DEF AloneAt
  <2>4. OwnerFilled'
    BY <1>5, <2>1, <2>3 DEF OwnerFilled
  <2>5. AloneAt(message, kind[w], pc'[w], w, backing', universal', using'[w], stream'[w], lost'[w])
    BY <1>5, <2>1, <2>3 DEF AloneAt, Filling
  <2> QED
    BY <1>3, <1>5, <2>1, <2>2, <2>4, <2>5, OneAlone
<1>6. CASE SetCmd(w)
  BY <1>5, <1>6 DEF SetCmd, Filling
<1>7. CASE AppendArg(w)
  <2>1. PICK to \in {"args", "options"} : Goes(w, "args", to)
    BY <1>7 DEF AppendArg
  <2>2. backing' = backing /\ stream' = stream /\ using' = using /\ UNCHANGED <<lost, got>> /\ raced' = raced
    BY <1>7 DEF AppendArg
  <2> QED
    BY <1>5, <2>1, <2>2 DEF Filling
<1>8. CASE AppendOptions(w)
  <2>1. PICK more : more = universal[w].args \o PackOptions(message)
    OBVIOUS
  <2>2. /\ Goes(w, "options", "write") /\ universal' = [universal EXCEPT ![w] = [universal[w] EXCEPT !.args = more]]
        /\ backing' = backing /\ stream' = stream /\ using' = using /\ UNCHANGED <<lost, got>> /\ raced' = raced
    BY <1>8, <2>1 DEF AppendOptions
  <2>3. Others(w) /\ pc'[w] = "write" /\ pc[w] = "options" /\ message' = message /\ kind' = kind /\ message # NoPacket
    BY <2>2, OthersStep
  <2>4. backing = w
    BY <1>3, <2>2, <2>3 DEF AloneAt, Filling
  <2>5. universal'[w] = Full(message)
    <3>1. MadeAt(message', pc'[w], universal'[w])
      BY DEF WriterInv
    <3>2. universal'[w] \in {Blank, Full(message)}
      BY <2>3, <3>1 DEF MadeAt
    <3>3. PICK u, k, args : u = universal'[w] /\ k = message.cmd /\ args = FirstArgs(message, Len(Fields(message.cmd)))
      OBVIOUS
    <3>4. MadeAt(message, pc[w], universal[w]) /\ Packable(message)
      BY <2>3 DEF WriterInv
    <3>5. universal[w] = [cmd |-> k, args |-> args]
      BY <2>3, <3>3, <3>4 DEF MadeAt, Started
    <3>6. u = [universal[w] EXCEPT !.args = more]
      BY <2>2, <3>3 DEF WriterInv
    <3>7. u = [[cmd |-> k, args |-> args] EXCEPT !.args = more]
      BY ONLY <3>5, <3>6
    <3>8. u.cmd = k
      BY ONLY <3>7
    <3>9. k # ""
      BY <3>3, <3>4, CommandByte DEF Packable
    <3>10. Blank.cmd = ""
      BY DEF Blank
    <3>11. u # Blank
      BY <3>8, <3>9, <3>10
    <3> QED
      BY <3>2, <3>3, <3>11
  <2>6. OwnerFilled'
    BY <2>2, <2>3, <2>4, <2>5 DEF OwnerFilled, Full, ArgsOf, FieldBytes, PackOptions
  <2>7. AloneAt(message, kind[w], pc'[w], w, backing', universal', using'[w], stream'[w], lost'[w])
    BY <2>2, <2>3, <2>4, <2>5 DEF AloneAt, Filling
  <2> QED
    BY <1>3, <2>2, <2>3, <2>6, <2>7, OneAlone
<1>9. CASE WriteCmd(w)
  <2>1. PICK bytes : bytes = <<CmdByte(universal[backing].cmd)>>
    OBVIOUS
  <2>2. /\ Goes(w, "write", "body") /\ using' = [using EXCEPT ![w] = backing] /\ stream' = [stream EXCEPT ![w] = bytes]
        /\ backing' = backing /\ universal' = universal /\ UNCHANGED <<lost, got>> /\ raced' = raced
    BY <1>9, <2>1 DEF WriteCmd
  <2>3. Others(w) /\ pc'[w] = "body" /\ pc[w] = "write" /\ message' = message /\ kind' = kind /\ message # NoPacket
    BY <2>2, OthersStep
  <2>4. backing \in Writers /\ universal[backing] = Full(message)
    BY <1>3, <2>2, <2>3 DEF AloneAt
  <2>5. using'[w] = backing /\ stream'[w] = bytes
    BY <2>2 DEF WriterInv, StreamInv
  <2>6. bytes = <<CmdByte(message.cmd)>>
    BY <2>1, <2>4 DEF Full
  <2>7. OwnerFilled'
    BY <2>2, <2>3, <2>4 DEF OwnerFilled, Full, ArgsOf, FieldBytes, PackOptions
  <2>8. AloneAt(message, kind[w], pc'[w], w, backing', universal', using'[w], stream'[w], lost'[w])
    BY <2>2, <2>3, <2>4, <2>5, <2>6 DEF AloneAt, Filling
  <2> QED
    BY <1>3, <2>2, <2>3, <2>7, <2>8, OneAlone
<1>10. CASE WriteBody(w)
  <2>1. PICK args, bytes : /\ args = universal[using[w]].args
                           /\ bytes = IF Len(args) >= MaxArgs THEN stream[w] ELSE stream[w] \o WriteArrayOfByteArray(args)
    OBVIOUS
  <2>2. /\ Goes(w, "body", "done") /\ stream' = [stream EXCEPT ![w] = bytes]
        /\ backing' = backing /\ universal' = universal /\ using' = using /\ UNCHANGED <<lost, got>> /\ raced' = raced
    BY <1>10, <2>1 DEF WriteBody
  <2>3. Others(w) /\ pc'[w] = "done" /\ pc[w] = "body" /\ message' = message /\ kind' = kind /\ message # NoPacket
    BY <2>2, OthersStep
  <2>4. universal[using[w]] = Full(message) /\ stream[w] = <<CmdByte(message.cmd)>> /\ OwnerFilled
    BY <1>3, <2>2, <2>3 DEF AloneAt
  <2>5. args = ArgsOf(message)
    BY <2>1, <2>4 DEF Full
  <2>6. stream'[w] = OnWire(CmdByte(message.cmd), ArgsOf(message))
    <3>1. stream'[w] = bytes
      BY <2>2 DEF StreamInv
    <3> QED
      BY <2>1, <2>4, <2>5, <3>1 DEF OnWire
  <2>7. kind[w] = "tcp"
    BY <2>3, NoError, CarriesOwn DEF Carries
  <2>8. OwnerFilled'
    BY <1>10, <2>2, <2>3, <2>4, FilledStays DEF Filling
  <2>9. AloneAt(message, kind[w], pc'[w], w, backing', universal', using'[w], stream'[w], lost'[w])
    BY <2>3, <2>6, <2>7 DEF AloneAt, Filling
  <2> QED
    BY <1>3, <2>2, <2>3, <2>8, <2>9, OneAlone
<1>11. CASE WriteText(w)
  <2>1. PICK bytes : bytes = <<universal[backing]>>
    OBVIOUS
  <2>2. /\ kind[w] = "text" /\ Goes(w, "write", "done") /\ stream' = [stream EXCEPT ![w] = bytes]
        /\ backing' = backing /\ universal' = universal /\ using' = using /\ UNCHANGED <<lost, got>> /\ raced' = raced
    BY <1>11, <2>1 DEF WriteText
  <2>3. Others(w) /\ pc'[w] = "done" /\ pc[w] = "write" /\ message' = message /\ kind' = kind /\ message # NoPacket
    BY <2>2, OthersStep
  <2>4. backing \in Writers /\ universal[backing] = Full(message) /\ OwnerFilled
    BY <1>3, <2>2, <2>3 DEF AloneAt
  <2>5. stream'[w] = <<Full(message)>>
    BY <2>1, <2>2, <2>4 DEF StreamInv
  <2>6. OwnerFilled'
    BY <2>2, <2>3, <2>4, FilledStays DEF Filling
  <2>7. AloneAt(message, kind[w], pc'[w], w, backing', universal', using'[w], stream'[w], lost'[w])
    BY <2>2, <2>3, <2>5 DEF AloneAt, Filling
  <2> QED
    BY <1>3, <2>2, <2>3, <2>6, <2>7, OneAlone
<1>12. CASE WriteMqtt(w)
  <2>1. PICK bytes : bytes = MqttPackets(message)
    OBVIOUS
  <2>2. /\ Goes(w, "publish", "done") /\ stream' = [stream EXCEPT ![w] = bytes]
        /\ backing' = backing /\ universal' = universal /\ using' = using /\ UNCHANGED <<lost, got>> /\ raced' = raced
    BY <1>12, <2>1 DEF WriteMqtt
  <2>3. Others(w) /\ pc'[w] = "done" /\ pc[w] = "publish" /\ message' = message /\ kind' = kind /\ message # NoPacket
    BY <2>2, OthersStep
  <2>4. kind[w] = "mqtt"
    BY <2>3, NoError, CarriesOwn DEF Carries
  <2>5. AloneAt(message, kind[w], "done", w, backing, universal, using'[w], stream'[w], lost'[w]) /\ pc[w] \notin Filling
    BY <2>3, <2>4 DEF AloneAt, Filling
  <2>6. OneAtATime /\ OwnerFilled /\ EachAlone /\ ~raced
    BY <2>2 DEF AloneInv
  <2> QED
    BY <2>2, <2>3, <2>5, <2>6, DoneAlone
<1>14. CASE WriteError(w)
  <2>1. PICK bytes : stream' = [stream EXCEPT ![w] = bytes]
    BY <1>14 DEF WriteError
  <2>2. /\ Goes(w, FirstStep(kind[w]), "done") /\ Replaced(w)
        /\ backing' = backing /\ universal' = universal /\ using' = using /\ UNCHANGED <<lost, got>> /\ raced' = raced
    BY <1>14 DEF WriteError
  <2>3. Others(w) /\ pc'[w] = "done" /\ pc[w] = FirstStep(kind[w]) /\ message' = message /\ kind' = kind /\ message # NoPacket
    BY <2>1, <2>2, OthersStep
  <2>4. pc[w] \notin Filling
    BY <2>3, FirstSteps DEF Filling
  <2>5. Errs(message, kind[w])
    BY <2>2, <2>3 DEF Errs, Replaced
  <2>6. AloneAt(message, kind[w], "done", w, backing, universal, using'[w], stream'[w], lost'[w])
    BY <2>5 DEF AloneAt, Filling
  <2>7. OneAtATime /\ OwnerFilled /\ EachAlone /\ ~raced
    BY <2>2 DEF AloneInv
  <2> QED
    BY <2>2, <2>3, <2>4, <2>6, <2>7, DoneAlone
<1>13. CASE WriteNil(w)
  <2>1. UNCHANGED <<message, kind, backing, universal, pc, using, stream, lost, raced>>
    BY <1>13 DEF WriteNil
  <2> QED
    BY <2>1, SameAlone
<1> QED
  BY <1>1, <1>2, <1>4, <1>6, <1>7, <1>8, <1>9, <1>10, <1>11, <1>12, <1>13, <1>14, Zenon DEF Write

LEMMA AloneInit ==
    ASSUME Init
    PROVE  AloneInv
<1>1. /\ pc = [w \in Writers |-> FirstStep(kind[w])] /\ kind \in [Writers -> {"tcp", "text", "mqtt"}] /\ backing = "nil"
      /\ stream = [w \in Writers |-> <<>>]
  BY DEF Init, PacketsInit
<1>2. \A w \in Writers : ~Begun(w) /\ pc[w] \in {"reset", "check", "publish"}
  BY <1>1 DEF Begun, FirstStep
<1>3. OneAtATime /\ OwnerFilled
  BY <1>1, <1>2 DEF OneAtATime, OwnerFilled
<1>4. EachAlone
  BY <1>2 DEF EachAlone, AloneAt, Filling
<1> QED
  BY <1>1, <1>3, <1>4 DEF AloneInv

LEMMA AloneLose ==
    ASSUME WriterInv, StreamInv, AloneInv, NEW w \in Writers, Lose(w)
    PROVE  AloneInv'
<1>1. /\ kind[w] = "tcp" /\ pc[w] = "done" /\ lost' = [lost EXCEPT ![w] = TRUE]
      /\ UNCHANGED <<message, kind, backing, universal, pc, using, got, raced>>
      /\ \E bytes : stream' = [stream EXCEPT ![w] = bytes]
  BY DEF Lose
<1>2. DOMAIN stream = Writers /\ DOMAIN lost = Writers
  BY DEF StreamInv, WriterInv
<1>3. Others(w) /\ lost'[w] = TRUE /\ pc'[w] = "done" /\ pc[w] \notin Filling
  BY <1>1, <1>2 DEF Others, Filling
<1>4. message # NoPacket
  BY <1>1 DEF WriterInv
<1>5. AloneAt(message, kind[w], "done", w, backing, universal, using'[w], stream'[w], lost'[w])
  BY <1>1, <1>3 DEF AloneAt, Filling
<1>6. CASE ~raced
  <2>1. OneAtATime /\ OwnerFilled /\ EachAlone
    BY <1>6 DEF AloneInv
  <2>2. message' = message /\ kind' = kind /\ backing' = backing /\ universal' = universal
    BY <1>1
  <2> QED
    BY <1>3, <1>4, <1>5, <2>1, <2>2, DoneAlone
<1>7. CASE raced
  BY <1>1, <1>4, <1>7 DEF AloneInv
<1> QED
  BY <1>6, <1>7

LEMMA AloneDeliver ==
    ASSUME WriterInv, AloneInv, SocketInv, Deliver
    PROVE  AloneInv'
<1>1. /\ message = NoPacket
      /\ UNCHANGED <<kind, backing, universal, pc, using, stream, lost, got, raced, panicked>>
  BY DEF Deliver
<1>2. backing = "nil" /\ \A w \in Writers : pc[w] \in {"reset", "check", "publish"}
  BY <1>1 DEF WriterInv, AloneInv
<1>3. kind' = kind /\ backing' = backing /\ pc' = pc /\ raced' = raced
  BY <1>1
<1>4. OneAtATime' <=> OneAtATime
  BY <1>3 DEF OneAtATime, Begun, FirstStep
<1>5. OwnerFilled'
  BY <1>2, <1>3 DEF OwnerFilled
<1>6. EachAlone'
  BY <1>2, <1>3 DEF EachAlone, AloneAt, Filling
<1> QED
  BY <1>2, <1>3, <1>4, <1>5, <1>6 DEF AloneInv

LEMMA AloneNext ==
    ASSUME WriterInv, WriterInv', StreamInv, AloneInv, SocketInv, [Next]_vars
    PROVE  AloneInv'
<1>1. CASE UNCHANGED packetVars
  BY <1>1, SameAlone DEF packetVars
<1>2. CASE Deliver
  BY <1>2, AloneDeliver
<1>3. ASSUME NEW w \in Writers, Write(w) PROVE AloneInv'
  <2>1. CASE ~raced'
    BY <1>3, <2>1, AloneSteps
  <2>2. CASE raced'
    <3>1. message # NoPacket
      <4>1. pc[w] \in {"new", "cmd", "args", "options", "write", "body"} \/ message # NoPacket
        BY <1>3 DEF Write, Reset, Check, New, SetCmd, AppendArg, AppendOptions, WriteCmd, WriteBody, WriteText, WriteMqtt, WriteNil, WriteError, Goes
      <4> QED
        BY <4>1 DEF WriterInv
    <3>2. message' = message
      BY <1>3 DEF Write, Reset, Check, New, SetCmd, AppendArg, AppendOptions, WriteCmd, WriteBody, WriteText, WriteMqtt, WriteNil, WriteError, Goes
    <3> QED
      BY <2>2, <3>1, <3>2 DEF AloneInv
  <2> QED
    BY <2>1, <2>2
<1>4. ASSUME NEW w \in Writers, Read(w) PROVE AloneInv'
  BY <1>4, SameAlone DEF Read
<1>5. CASE PacketsNext
  BY <1>3, <1>4, <1>5, AloneLose DEF PacketsNext
<1> QED
  BY <1>1, <1>2, <1>5, Zenon DEF Next, vars

LEMMA AloneImplies ==
    ASSUME WriterInv, StreamInv, AloneInv
    PROVE  ExactUnlessRaced
<1> SUFFICES ASSUME NEW w \in Writers, ~raced \/ Replaced(w), ~lost[w]
             PROVE  /\ got[w] # Unread => got[w] = IF Fits(Due(w)) THEN Due(w) ELSE NoPacket
                    /\ kind[w] = "text" /\ pc[w] = "done" => stream[w] = <<Written(Due(w))>>
  BY DEF ExactUnlessRaced
<1>1. ASSUME message # NoPacket, pc[w] = "done"
      PROVE  /\ kind[w] = "tcp" => stream[w] = OnWire(CmdByte(Due(w).cmd), ArgsOf(Due(w)))
             /\ kind[w] = "text" => stream[w] = <<Full(Due(w))>>
  <2>1. Due(w) = DueOf(message, kind[w])
    BY <1>1 DEF DueOf, Errs, Due, Replaced
  <2>2. CASE Errs(message, kind[w])
    <3>1. WritesError(message, kind[w], pc[w], stream[w], lost[w])
      BY DEF StreamInv, Sends
    <3> QED
      BY <1>1, <2>1, <2>2, <3>1 DEF WritesError
  <2>3. CASE ~Errs(message, kind[w])
    <3>1. ~raced
      BY <1>1, <2>3 DEF Errs, Replaced
    <3>2. AloneAt(message, kind[w], pc[w], w, backing, universal, using[w], stream[w], lost[w])
      BY <3>1 DEF AloneInv, EachAlone
    <3>3. Due(w) = message
      BY <2>1, <2>3 DEF DueOf
    <3> QED
      BY <1>1, <2>3, <3>2, <3>3 DEF AloneAt
  <2> QED
    BY <2>2, <2>3
<1>2. ASSUME got[w] # Unread PROVE got[w] = IF Fits(Due(w)) THEN Due(w) ELSE NoPacket
  <2>1. message # NoPacket /\ Packet(Due(w)) /\ kind[w] = "tcp" /\ pc[w] = "done" /\ got[w] = ReadPacket(stream[w])
    BY <1>2, WhatIsRead
  <2>2. stream[w] = OnWire(CmdByte(Due(w).cmd), ArgsOf(Due(w)))
    BY <1>1, <2>1
  <2> QED
    BY <2>1, <2>2, RoundTrip
<1>3. pc[w] = "done" => message # NoPacket
  BY DEF WriterInv
<1> QED
  BY <1>1, <1>2, <1>3 DEF Full, Written

LEMMA AloneInvariant == Spec => []AloneInv
BY AloneInit, AloneNext, WriterInvariant, StreamInvariant, SocketInvariant, PTL DEF Spec

\* Contacts that write a packet one after the other write all of it: each of
\* their readers has the packet, unless it is too large, and then has nothing.
\* Instead of a packet with an error a text contact, or a contact of an aide,
\* writes a disconnect with that error, and its reader has that, whoever else
\* writes the packet meanwhile.
THEOREM ExactTheorem == Spec => []ExactUnlessRaced
<1>1. WriterInv /\ StreamInv /\ AloneInv => ExactUnlessRaced
  BY AloneImplies
<1> QED
  BY <1>1, WriterInvariant, StreamInvariant, AloneInvariant, PTL
=============================================================================

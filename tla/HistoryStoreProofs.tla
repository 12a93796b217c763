------------------------- MODULE HistoryStoreProofs -------------------------
(* Proofs about the history store, for every capacity, queue and bound. *)
EXTENDS HistoryStore, FiniteSetTheorems, SequenceTheorems, WellFoundedInduction, TLAPS

(***************************************************************************)
(* Sequences: the deque operation and the newest elements of a sequence.   *)
(***************************************************************************)

LEMMA PushType ==
    ASSUME NEW S, NEW s \in Seq(S), NEW m \in S
    PROVE  /\ Push(s, m) \in Seq(S)
           /\ Len(s) <= Capacity => Len(Push(s, m)) <= Capacity
           /\ Len(s) < Capacity => Len(Push(s, m)) = Len(s) + 1
           /\ Len(s) = Capacity => Len(Push(s, m)) = Capacity
BY HistoryAssumption DEF Push

LEMMA NewestType ==
    ASSUME NEW S, NEW s \in Seq(S)
    PROVE  /\ Newest(s) \in Seq(S)
           /\ Len(Newest(s)) = IF Len(s) > Capacity THEN Capacity ELSE Len(s)
           /\ \A i \in 1 .. Len(Newest(s)) :
                 Newest(s)[i] = s[i + (Len(s) - Len(Newest(s)))]
<1> DEFINE b == IF Len(s) > Capacity THEN Len(s) - Capacity + 1 ELSE 1
<1>1. b \in 1 .. Len(s) + 1 /\ Len(s) \in Nat
  BY HistoryAssumption
<1>2. Newest(s) = SubSeq(s, b, Len(s))
  BY DEF Newest
<1>3. \A i \in b .. Len(s) : s[i] \in S
  BY <1>1
<1>4. Newest(s) \in Seq(S) /\ Len(Newest(s)) = Len(s) + 1 - b
  BY <1>1, <1>2, <1>3, SubSeqProperties
<1>5. \A i \in 1 .. Len(s) + 1 - b : Newest(s)[i] = s[b + i - 1]
  BY <1>1, <1>2, SubSeqProperties
<1>6. QED BY <1>1, <1>4, <1>5, HistoryAssumption

LEMMA NewestAppend ==
    ASSUME NEW S, NEW s \in Seq(S), NEW m \in S
    PROVE  Newest(Append(s, m)) = Push(Newest(s), m)
<1> DEFINE x == Append(s, m)
           t == Newest(x)
           n == Newest(s)
           p == Push(n, m)
<1>1. /\ x \in Seq(S) /\ Len(x) = Len(s) + 1
      /\ \A i \in 1 .. Len(s) + 1 : x[i] = IF i <= Len(s) THEN s[i] ELSE m
  OBVIOUS
<1>2. /\ n \in Seq(S)
      /\ Len(n) = IF Len(s) > Capacity THEN Capacity ELSE Len(s)
      /\ \A i \in 1 .. Len(n) : n[i] = s[i + (Len(s) - Len(n))]
  BY NewestType
<1> HIDE DEF x, n
<1>3. /\ t \in Seq(S)
      /\ Len(t) = IF Len(x) > Capacity THEN Capacity ELSE Len(x)
      /\ \A i \in 1 .. Len(t) : t[i] = x[i + (Len(x) - Len(t))]
  BY <1>1, NewestType
<1>4. p \in Seq(S) /\ Len(p) = Len(t)
  <2>1. /\ p \in Seq(S)
        /\ Len(n) < Capacity => Len(p) = Len(n) + 1
        /\ Len(n) = Capacity => Len(p) = Capacity
    BY <1>2, PushType
  <2> HIDE DEF t, p
  <2>2. QED BY <2>1, <1>1, <1>2, <1>3, HistoryAssumption
<1> HIDE DEF t
<1>5. ASSUME NEW i \in 1 .. Len(t) PROVE t[i] = p[i]
  <2>1. i \in Nat /\ i >= 1 /\ Len(s) \in Nat /\ Len(t) \in Nat
    BY <1>3
  <2>2. t[i] = x[i + (Len(s) + 1 - Len(t))]
    <3>1. t[i] = x[i + (Len(x) - Len(t))]
      BY <1>3
    <3>2. QED BY <3>1, <1>1
  <2>3. CASE Len(s) >= Capacity
    <3>1. p = Append(Tail(n), m) /\ Len(n) = Capacity /\ Len(t) = Capacity /\ n # <<>>
      BY <2>3, <1>1, <1>2, <1>3, HistoryAssumption DEF Push
    <3>2. CASE i < Capacity
      <4>1. p[i] = n[i + 1]
        BY <3>1, <3>2, <1>2, <2>1, HistoryAssumption
      <4>2. n[i + 1] = s[(i + 1) + (Len(s) - Len(n))]
        <5>1. i + 1 \in 1 .. Len(n)
          BY <3>1, <3>2, <2>1, HistoryAssumption
        <5>2. QED BY <5>1, <1>2
      <4>3. i + (Len(s) + 1 - Len(t)) = (i + 1) + (Len(s) - Len(n))
        BY <3>1, <2>1, HistoryAssumption
      <4>4. i + (Len(s) + 1 - Len(t)) \in 1 .. Len(s)
        BY <3>1, <3>2, <2>3, <2>1, HistoryAssumption
      <4>5. QED BY <4>1, <4>2, <4>3, <4>4, <2>2, <1>1
    <3>3. CASE i = Capacity
      <4>1. p[i] = m
        BY <3>1, <3>3, <1>2, HistoryAssumption
      <4>2. i + (Len(s) + 1 - Len(t)) = Len(s) + 1
        BY <3>1, <3>3, <2>1, HistoryAssumption
      <4>3. QED BY <4>1, <4>2, <2>2, <2>1, <1>1
    <3>4. QED BY <3>1, <3>2, <3>3, <2>1, HistoryAssumption
  <2>4. CASE Len(s) < Capacity
    <3>1. p = Append(n, m) /\ Len(n) = Len(s) /\ Len(t) = Len(s) + 1
      BY <2>4, <1>1, <1>2, <1>3, HistoryAssumption DEF Push
    <3>2. t[i] = x[i]
      BY <2>1, <2>2, <3>1
    <3>3. CASE i <= Len(s)
      <4>1. p[i] = n[i]
        BY <3>1, <3>3, <2>1, <1>2
      <4>2. n[i] = s[i + (Len(s) - Len(n))]
        BY <3>1, <3>3, <2>1, <1>2
      <4>3. QED BY <4>1, <4>2, <3>1, <3>2, <3>3, <2>1, <1>1
    <3>4. CASE i = Len(s) + 1
      BY <3>1, <3>2, <3>4, <2>1, <1>1, <1>2
    <3>5. QED BY <3>1, <3>3, <3>4, <2>1
  <2>5. QED BY <2>3, <2>4, <2>1, HistoryAssumption
<1> HIDE DEF p
<1>6. t = p
  BY <1>3, <1>4, <1>5, SeqEqual
<1>7. QED BY <1>6 DEF t, p, n, x

LEMMA NewestShort ==
    ASSUME NEW S, NEW s \in Seq(S), Len(s) <= Capacity
    PROVE  Newest(s) = s
BY NewestType, SeqEqual, HistoryAssumption, SMTT(30)

\* Moving the head of the queue into the thread's copy leaves their newest part.
LEMMA NewestShift ==
    ASSUME NEW S, NEW k \in Seq(S), NEW q \in Seq(S), q # <<>>, Len(k) <= Capacity
    PROVE  Newest(Push(k, Head(q)) \o Tail(q)) = Newest(k \o q)
<1> DEFINE p == Push(k, Head(q))
           a == p \o Tail(q)
           b == k \o q
<1>1. /\ Head(q) \in S /\ Tail(q) \in Seq(S) /\ Len(Tail(q)) = Len(q) - 1 /\ Len(q) \in Nat \ {0}
      /\ q[1] = Head(q) /\ \A i \in 1 .. Len(Tail(q)) : Tail(q)[i] = q[i + 1]
  BY HeadTailProperties
<1>2. p \in Seq(S)
  BY <1>1, PushType
<1>3. a \in Seq(S) /\ b \in Seq(S) /\ Len(a) = Len(p) + Len(q) - 1 /\ Len(b) = Len(k) + Len(q)
  BY <1>1, <1>2
<1>c. /\ \A i \in 1 .. Len(a) : a[i] = IF i <= Len(p) THEN p[i] ELSE Tail(q)[i - Len(p)]
      /\ \A i \in 1 .. Len(b) : b[i] = IF i <= Len(k) THEN k[i] ELSE q[i - Len(k)]
  BY <1>1, <1>2, <1>3
<1> HIDE DEF a, b
<1>4. CASE Len(k) < Capacity
  <2>1. p = Append(k, Head(q))
    BY <1>4, HistoryAssumption DEF Push
  <2>2. Len(a) = Len(b) /\ \A i \in 1 .. Len(b) : a[i] = b[i]
    <3>1. Len(p) = Len(k) + 1 /\ \A i \in 1 .. Len(k) : p[i] = k[i]
      BY <2>1, <1>1
    <3>2. p[Len(k) + 1] = q[1]
      BY <2>1, <1>1
    <3> HIDE DEF p
    <3>3. Len(a) = Len(b)
      BY <3>1, <1>1, <1>3
    <3>4. ASSUME NEW i \in 1 .. Len(b) PROVE a[i] = b[i]
      <4>1. i \in 1 .. Len(a) /\ i \in Nat /\ Len(k) \in Nat
        BY <3>3, <1>3
      <4>2. CASE i <= Len(k)
        BY <4>1, <4>2, <3>1, <1>c
      <4>3. CASE i = Len(k) + 1
        BY <4>1, <4>3, <3>1, <3>2, <1>c
      <4>4. CASE i > Len(k) + 1
        <5>1. i - Len(p) \in 1 .. Len(Tail(q)) /\ i - Len(k) = i - Len(p) + 1
          BY <4>1, <4>4, <3>1, <1>1, <1>3
        <5>2. a[i] = Tail(q)[i - Len(p)] /\ b[i] = q[i - Len(k)]
          <6>1. ~(i <= Len(p)) /\ ~(i <= Len(k))
            BY <4>1, <4>4, <3>1
          <6>2. QED BY <6>1, <4>1, <1>c
        <5>3. QED BY <5>1, <5>2, <1>1
      <4>5. QED BY <4>1, <4>2, <4>3, <4>4
    <3>5. QED BY <3>3, <3>4
  <2>3. a = b
    BY <2>1, <2>2, <1>3, SeqEqual
  <2>4. QED BY <2>3 DEF a, b, p
<1>5. CASE Len(k) = Capacity
  <2>1. p = Append(Tail(k), Head(q)) /\ Len(k) > 0
    BY <1>5, HistoryAssumption DEF Push
  <2>a. Tail(k) \in Seq(S) /\ Len(Tail(k)) = Capacity - 1
        /\ \A i \in 1 .. Capacity - 1 : Tail(k)[i] = k[i + 1]
    BY <2>1, <1>5, HeadTailProperties, HistoryAssumption
  <2>b. /\ Len(p) = Capacity /\ p[Capacity] = Head(q)
        /\ \A i \in 1 .. Capacity - 1 : p[i] = k[i + 1]
    BY <2>1, <2>a, <1>1, HistoryAssumption, SMTT(30)
  <2> HIDE DEF p
  <2>2. Len(p) = Capacity /\ Len(a) = Len(b) - 1 /\ Len(a) >= Capacity
    BY <2>b, <1>1, <1>3, <1>5, HistoryAssumption
  <2>3. ASSUME NEW i \in 1 .. Len(a) PROVE a[i] = b[i + 1]
    <3>1. CASE i < Capacity
      BY <3>1, <2>b, <1>c, <2>2, <1>3, <1>5, HistoryAssumption
    <3>2. CASE i = Capacity
      <4>1. a[i] = Head(q)
        BY <3>2, <2>b, <1>c
      <4>2. b[i + 1] = q[i + 1 - Len(k)] /\ i + 1 - Len(k) = 1
        BY <3>2, <1>c, <2>2, <1>3, <1>5, HistoryAssumption
      <4>3. QED BY <4>1, <4>2, <1>1
    <3>3. CASE i > Capacity
      <4>1. i - Capacity \in 1 .. Len(Tail(q))
        BY <3>3, <2>2, <1>1, <1>3, <1>5, HistoryAssumption
      <4>2. a[i] = q[i - Capacity + 1]
        BY <4>1, <3>3, <1>c, <2>2, <1>1, HistoryAssumption
      <4>3. b[i + 1] = q[i + 1 - Capacity]
        BY <3>3, <1>c, <2>2, <1>3, <1>5, HistoryAssumption
      <4>4. QED BY <4>2, <4>3, <1>3, HistoryAssumption
    <3>4. QED BY <3>1, <3>2, <3>3, <1>3, HistoryAssumption
  <2>4. /\ Newest(a) \in Seq(S) /\ Newest(b) \in Seq(S)
        /\ Len(Newest(a)) = Capacity /\ Len(Newest(b)) = Capacity
    BY <2>2, <1>3, NewestType, HistoryAssumption
  <2>5. ASSUME NEW i \in 1 .. Capacity PROVE Newest(a)[i] = Newest(b)[i]
    <3>1. Newest(a)[i] = a[i + (Len(a) - Capacity)]
      BY <2>4, <1>3, NewestType, SMTT(30)
    <3>2. Newest(b)[i] = b[i + (Len(b) - Capacity)]
      <4>1. \A j \in 1 .. Len(Newest(b)) : Newest(b)[j] = b[j + (Len(b) - Len(Newest(b)))]
        BY <1>3, NewestType
      <4>2. QED BY <4>1, <2>4
    <3>3. i + (Len(a) - Capacity) \in 1 .. Len(a)
      BY <2>2, <1>3, HistoryAssumption
    <3>4. a[i + (Len(a) - Capacity)] = b[i + (Len(a) - Capacity) + 1]
      BY <3>3, <2>3
    <3>5. i + (Len(a) - Capacity) + 1 = i + (Len(b) - Capacity)
      BY <2>2, <1>3, HistoryAssumption
    <3>6. QED BY <3>1, <3>2, <3>4, <3>5
  <2>6. Newest(a) = Newest(b)
    BY <2>4, <2>5, SeqEqual
  <2>7. QED BY <2>6 DEF a, b, p
<1>6. QED BY <1>4, <1>5, HistoryAssumption

(***************************************************************************)
(* What a reload returns.                                                  *)
(***************************************************************************)

\* Every rank up to the size of a finite set of numbers is some element's.
LEMMA RankExists ==
    ASSUME NEW S \in SUBSET Nat, IsFiniteSet(S), NEW k \in 1 .. Cardinality(S)
    PROVE  \E i \in S : Cardinality({j \in S : j <= i}) = k
<1> DEFINE below(i) == {j \in S : j <= i}
           n == Cardinality(S)
           r == [i \in S |-> Cardinality(below(i))]
<1>1. n \in Nat
  BY FS_CardinalityType
<1>2. \A i \in S : /\ IsFiniteSet(below(i)) /\ Cardinality(below(i)) \in 1 .. n
  <2>1. ASSUME NEW i \in S
        PROVE  IsFiniteSet(below(i)) /\ Cardinality(below(i)) \in 1 .. n
    <3>1. below(i) \in SUBSET S /\ i \in below(i)
      OBVIOUS
    <3>2. IsFiniteSet(below(i)) /\ Cardinality(below(i)) <= n
      BY <3>1, FS_Subset
    <3>3. Cardinality(below(i)) \in Nat /\ Cardinality(below(i)) # 0
      BY <3>1, <3>2, FS_CardinalityType, FS_EmptySet
    <3>4. QED BY <3>2, <3>3, <1>1
  <2>2. QED BY <2>1
<1>3. \A i, j \in S : i < j => Cardinality(below(i)) # Cardinality(below(j))
  <2>1. ASSUME NEW i \in S, NEW j \in S, i < j,
               Cardinality(below(i)) = Cardinality(below(j))
        PROVE  FALSE
    <3>0. i < j /\ i \in Nat /\ j \in Nat /\ \A x \in S : x \in Nat
      BY <2>1
    <3>1. below(i) \in SUBSET below(j) /\ j \in below(j) /\ j \notin below(i)
      <4>1. (\A x \in S : x <= i => x <= j) /\ j <= j /\ ~(j <= i)
        BY <3>0
      <4>2. QED BY <4>1
    <3>2. IsFiniteSet(below(j))
      BY <1>2
    <3>3. below(i) = below(j)
      BY <3>1, <3>2, <2>1, FS_Subset
    <3>4. QED BY <3>1, <3>3
  <2>2. QED BY <2>1
<1> HIDE DEF below
<1>4. r \in [S -> 1 .. n]
  BY <1>2
<1>5. IsInjective(r)
  <2>1. ASSUME NEW i \in S, NEW j \in S, r[i] = r[j] PROVE i = j
    <3>1. Cardinality(below(i)) = Cardinality(below(j))
      BY <2>1
    <3>2. ~(i < j) /\ ~(j < i)
      BY <3>1, <1>3 DEF below
    <3>3. i \in Nat /\ j \in Nat
      OBVIOUS
    <3>4. QED BY <3>2, <3>3
  <2>2. QED BY <2>1, <1>4 DEF IsInjective
<1>6. r \in Injection(S, 1 .. n)
  BY <1>4, <1>5 DEF Injection
<1>7. IsFiniteSet(1 .. n) /\ Cardinality(1 .. n) = n
  BY <1>1, FS_Interval
<1>8. r \in Surjection(S, 1 .. n)
  BY <1>6, <1>7, FS_Injection
<1>9. \E i \in S : r[i] = k
  BY <1>8 DEF Surjection
<1>10. QED BY <1>9 DEF below

LEMMA NthType ==
    ASSUME NEW S \in SUBSET Nat, IsFiniteSet(S), NEW k \in 1 .. Cardinality(S)
    PROVE  Nth(S, k) \in S /\ Cardinality({j \in S : j <= Nth(S, k)}) = k
BY RankExists DEF Nth

LEMMA TailEndsBounded ==
    ASSUME NEW S, NEW c \in Seq(S)
    PROVE  /\ TailEnds(c) \in SUBSET (1 .. Len(c)) /\ IsFiniteSet(TailEnds(c))
           /\ Cardinality(TailEnds(c)) \in 0 .. Capacity
<1> DEFINE T == TailEnds(c)
<1>1. Ends(c) \in SUBSET (1 .. Len(c)) /\ T \in SUBSET Ends(c)
  BY DEF Ends, TailEnds
<1>2. IsFiniteSet(1 .. Len(c)) /\ IsFiniteSet(Ends(c)) /\ IsFiniteSet(T)
  BY <1>1, FS_Interval, FS_Subset
<1>3. Cardinality(T) \in Nat
  BY <1>2, FS_CardinalityType
<1>4. CASE Cardinality(T) = 0
  BY <1>1, <1>2, <1>4, HistoryAssumption
<1>5. CASE Cardinality(T) # 0
  <2>1. T \in SUBSET Nat /\ 1 \in 1 .. Cardinality(T)
    BY <1>1, <1>3, <1>5
  <2>2. PICK i \in T : Cardinality({j \in T : j <= i}) = 1
    BY <2>1, <1>2, RankExists
  <2> DEFINE first == {j \in T : j <= i}
             rest == {j \in Ends(c) : j > i}
  <2>3. IsFiniteSet(first) /\ IsFiniteSet(rest)
    BY <1>1, <1>2, FS_Subset
  <2>4. Cardinality(rest) \in Nat /\ Cardinality(rest) < Capacity
    BY <2>3, FS_CardinalityType DEF TailEnds
  <2>5. IsFiniteSet(first \cup rest)
        /\ Cardinality(first \cup rest) = 1 + Cardinality(rest) - Cardinality(first \cap rest)
    BY <2>2, <2>3, FS_Union
  <2>6. first \cap rest = {}
    BY <2>1
  <2>7. Cardinality(first \cup rest) <= Capacity
    <3>1. Cardinality(first \cap rest) = 0
      BY <2>6, FS_EmptySet
    <3> HIDE DEF first, rest
    <3>2. QED BY <2>4, <2>5, <3>1, HistoryAssumption
  <2>8. T \in SUBSET (first \cup rest)
    BY <1>1, <2>1
  <2>9. Cardinality(T) <= Cardinality(first \cup rest)
    BY <2>5, <2>8, FS_Subset
  <2>10. Cardinality(first \cup rest) \in Nat
    BY <2>5, FS_CardinalityType
  <2>11. QED BY <1>1, <1>2, <1>3, <2>7, <2>9, <2>10, HistoryAssumption
<1>6. QED BY <1>4, <1>5

\* Whatever is in the file, a reload gives at most Capacity messages.
LEMMA ReloadType ==
    ASSUME NEW c \in Seq(Chunk)
    PROVE  Reload(c) \in Seq(Msg) /\ Len(Reload(c)) <= Capacity
<1> DEFINE G == Good(c)
<1>1. /\ TailEnds(c) \in SUBSET (1 .. Len(c)) /\ IsFiniteSet(TailEnds(c))
      /\ Cardinality(TailEnds(c)) \in 0 .. Capacity
  BY TailEndsBounded
<1>2. G \in SUBSET TailEnds(c)
  BY DEF Good
<1>3. IsFiniteSet(G) /\ Cardinality(G) \in Nat /\ Cardinality(G) <= Capacity
  BY <1>1, <1>2, FS_Subset, FS_CardinalityType, HistoryAssumption
<1>4. ASSUME NEW k \in 1 .. Cardinality(G) PROVE c[Nth(G, k)].m \in Msg
  <2>1. Nth(G, k) \in G
    <3>1. G \in SUBSET Nat
      BY <1>1, <1>2
    <3> HIDE DEF G
    <3>2. QED BY <3>1, <1>3, NthType
  <2>2. Nth(G, k) \in 1 .. Len(c) /\ c[Nth(G, k)].m # Torn
    BY <2>1, <1>1, <1>2 DEF Good, Parses
  <2>3. c[Nth(G, k)] \in Chunk
    BY <2>2
  <2>4. QED BY <2>2, <2>3 DEF Chunk
<1>5. Reload(c) = [k \in 1 .. Cardinality(G) |-> c[Nth(G, k)].m]
  BY DEF Reload
<1> HIDE DEF G
<1>6. Reload(c) \in [1 .. Cardinality(G) -> Msg]
  BY <1>4, <1>5
<1>7. QED BY <1>3, <1>5, <1>6

\* A file in which every chunk is one whole line, and the messages on its lines.
WholeLine == [m : Msg, nl : {TRUE}]
Texts(c) == [i \in 1 .. Len(c) |-> c[i].m]

LEMMA RankInInterval ==
    ASSUME NEW a \in Nat, NEW b \in Nat, a >= 1, NEW k \in 1 .. Cardinality(a .. b)
    PROVE  Nth(a .. b, k) = a + k - 1
<1>1. IsFiniteSet(a .. b) /\ Cardinality(a .. b) = IF a > b THEN 0 ELSE b - a + 1
  BY FS_Interval
<1>2. a <= b /\ k \in 1 .. b - a + 1
  BY <1>1
<1>3. a .. b \in SUBSET Nat
  OBVIOUS
<1>4. PICK i \in a .. b : i = Nth(a .. b, k) /\ Cardinality({j \in a .. b : j <= i}) = k
  BY <1>1, <1>3, NthType
<1>5. {j \in a .. b : j <= i} = a .. i
  OBVIOUS
<1>6. Cardinality(a .. i) = i - a + 1
  BY <1>3, FS_Interval
<1>7. i - a + 1 = k /\ i \in Nat
  <2>1. Cardinality(a .. i) = k
    BY <1>4, <1>5
  <2>2. QED BY <2>1, <1>6
<1>8. QED BY <1>2, <1>4, <1>7

LEMMA TextsType ==
    ASSUME NEW c \in Seq(WholeLine)
    PROVE  /\ Texts(c) \in Seq(Msg) /\ Len(Texts(c)) = Len(c)
           /\ \A i \in 1 .. Len(c) : Texts(c)[i] = c[i].m
           /\ \A i \in 1 .. Len(c) : c[i].m \in Msg /\ c[i].nl
<1>1. ASSUME NEW i \in 1 .. Len(c) PROVE c[i].m \in Msg /\ c[i].nl = TRUE
  <2>1. c[i] \in WholeLine
    BY ElementOfSeq
  <2>2. QED BY <2>1 DEF WholeLine
<1>2. \A i \in 1 .. Len(c) : c[i].m \in Msg
  BY <1>1
<1>3. Texts(c) \in [1 .. Len(c) -> Msg] /\ Len(c) \in Nat
  BY <1>2 DEF Texts
<1>4. Texts(c) \in Seq(Msg) /\ Len(Texts(c)) = Len(c)
  BY <1>3 DEF Texts
<1>5. \A i \in 1 .. Len(c) : Texts(c)[i] = c[i].m
  BY DEF Texts
<1>6. \A i \in 1 .. Len(c) : c[i].nl
  BY <1>1
<1>7. QED BY <1>2, <1>4, <1>5, <1>6

\* Of a file of whole lines a reload returns the newest Capacity messages.
LEMMA ReloadWhole ==
    ASSUME NEW c \in Seq(WholeLine)
    PROVE  Reload(c) = Newest(Texts(c))
<1> DEFINE n == Len(c)
           a == IF n > Capacity THEN n - Capacity + 1 ELSE 1
<1>1. n \in Nat /\ a \in Nat /\ a >= 1 /\ a <= n + 1
  BY HistoryAssumption
<1>2. \A i \in 1 .. n : c[i].m \in Msg /\ c[i].nl
  BY TextsType
<1>3. Ends(c) = 1 .. n
  BY <1>2 DEF Ends
<1>4. TailEnds(c) = a .. n
  <2>1. ASSUME NEW i \in 1 .. n
        PROVE  Cardinality({j \in 1 .. n : j > i}) = n - i
    <3>1. {j \in 1 .. n : j > i} = (i + 1) .. n
      BY <1>1
    <3>2. Cardinality((i + 1) .. n) = n - i
      BY <1>1, FS_Interval
    <3>3. QED BY <3>1, <3>2
  <2>2. TailEnds(c) = {i \in 1 .. n : n - i < Capacity}
    BY <1>3, <2>1 DEF TailEnds
  <2>3. QED BY <2>2, <1>1, HistoryAssumption
<1>5. Good(c) = a .. n
  <2>1. \A i \in a .. n : Parses(c, i)
    <3>1. ASSUME NEW i \in a .. n PROVE Parses(c, i)
      <4>1. i \in 1 .. n /\ (i = 1 \/ i - 1 \in 1 .. n)
        BY <1>1
      <4>2. c[i].m # Torn
        BY <4>1, <1>2 DEF Msg, Torn
      <4>3. QED BY <4>1, <4>2, <1>2 DEF Parses
    <3>2. QED BY <3>1
  <2>2. QED BY <2>1, <1>4 DEF Good
<1> HIDE DEF a, n
<1>6. Cardinality(Good(c)) = n - a + 1
  <2>1. Cardinality(a .. n) = IF a > n THEN 0 ELSE n - a + 1
    BY <1>1, FS_Interval
  <2>2. QED BY <2>1, <1>1, <1>5
<1> DEFINE R == [k \in 1 .. n - a + 1 |-> c[a + k - 1].m]
<1>7. Reload(c) = R
  <2>1. \A k \in 1 .. n - a + 1 : Nth(Good(c), k) = a + k - 1
    <3>1. ASSUME NEW k \in 1 .. n - a + 1 PROVE Nth(a .. n, k) = a + k - 1
      BY <1>1, <1>5, <1>6, RankInInterval
    <3>2. QED BY <3>1, <1>5
  <2>2. QED BY <2>1, <1>6 DEF Reload
<1>8. Newest(Texts(c)) = R
  <2>1. /\ Texts(c) \in Seq(Msg) /\ Len(Texts(c)) = n
        /\ \A i \in 1 .. n : Texts(c)[i] = c[i].m
    BY TextsType DEF n
  <2>2. Newest(Texts(c)) = SubSeq(Texts(c), a, n)
    BY <2>1 DEF Newest, a, n
  <2>3. \A i \in a .. n : Texts(c)[i] \in Msg
    BY <2>1, <1>1
  <2>4. /\ Newest(Texts(c)) \in Seq(Msg) /\ Len(Newest(Texts(c))) = n - a + 1
        /\ \A k \in 1 .. n - a + 1 : Newest(Texts(c))[k] = Texts(c)[a + k - 1]
    BY <2>2, <2>3, <1>1, SubSeqProperties
  <2>5. \A k \in 1 .. n - a + 1 : a + k - 1 \in 1 .. n
    BY <1>1
  <2>6. R \in Seq(Msg) /\ Len(R) = n - a + 1
    BY <2>1, <2>5, <1>1
  <2>7. \A k \in 1 .. n - a + 1 : Newest(Texts(c))[k] = R[k]
    BY <2>1, <2>4, <2>5
  <2>8. QED BY <2>4, <2>6, <2>7, SeqEqual
<1>9. QED BY <1>7, <1>8

LEMMA LinesType ==
    ASSUME NEW s \in Seq(Msg)
    PROVE  /\ Lines(s) \in Seq(WholeLine) /\ Len(Lines(s)) = Len(s)
           /\ Texts(Lines(s)) = s
<1>1. Lines(s) \in Seq(WholeLine) /\ Len(Lines(s)) = Len(s)
  BY DEF Lines, Line, WholeLine
<1>2. \A i \in 1 .. Len(s) : Texts(Lines(s))[i] = s[i]
  BY <1>1 DEF Texts, Lines, Line
<1>3. Texts(Lines(s)) \in Seq(Msg) /\ Len(Texts(Lines(s))) = Len(s)
  BY <1>1, TextsType
<1>4. Texts(Lines(s)) = s
  <2> DEFINE t == Texts(Lines(s))
  <2> HIDE DEF t
  <2>1. t \in Seq(Msg) /\ Len(t) = Len(s) /\ \A i \in 1 .. Len(s) : t[i] = s[i]
    BY <1>1, <1>2, <1>3 DEF t
  <2>2. t = s
    BY <2>1, SeqEqual
  <2>3. QED BY <2>2 DEF t
<1>5. QED BY <1>1, <1>4

\* Writing a reloaded window back and reloading it again changes nothing.
LEMMA ReloadLines ==
    ASSUME NEW s \in Seq(Msg), Len(s) <= Capacity
    PROVE  Reload(Lines(s)) = s
BY LinesType, ReloadWhole, NewestShort

\* One more whole line at the end is one more message in the window.
LEMMA TextsAppend ==
    ASSUME NEW c \in Seq(WholeLine), NEW d \in Seq(WholeLine), NEW m \in Msg
    PROVE  /\ Append(d, Line(m)) \in Seq(WholeLine)
           /\ c \o Append(d, Line(m)) \in Seq(WholeLine)
           /\ Texts(c \o Append(d, Line(m))) = Append(Texts(c \o d), m)
<1> DEFINE x == c \o d
           y == c \o Append(d, Line(m))
<1>1. Line(m) \in WholeLine /\ Line(m).m = m
  BY DEF Line, WholeLine
<1>2. x \in Seq(WholeLine) /\ y \in Seq(WholeLine) /\ Append(d, Line(m)) \in Seq(WholeLine)
  BY <1>1
<1>3. y = Append(x, Line(m))
  BY <1>1, <1>2, SeqEqual
<1>4. Len(y) = Len(x) + 1 /\ \A i \in 1 .. Len(y) : y[i] = IF i <= Len(x) THEN x[i] ELSE Line(m)
  BY <1>1, <1>2, <1>3
<1> HIDE DEF x, y
<1>5. /\ Texts(x) \in Seq(Msg) /\ Len(Texts(x)) = Len(x)
      /\ \A i \in 1 .. Len(x) : Texts(x)[i] = x[i].m
      /\ Texts(y) \in Seq(Msg) /\ Len(Texts(y)) = Len(x) + 1
      /\ \A i \in 1 .. Len(x) + 1 : Texts(y)[i] = y[i].m
  BY <1>2, <1>4, TextsType
<1>6. ASSUME NEW i \in 1 .. Len(x) + 1 PROVE Texts(y)[i] = Append(Texts(x), m)[i]
  BY <1>1, <1>2, <1>4, <1>5
<1>7. Texts(y) = Append(Texts(x), m)
  BY <1>2, <1>5, <1>6, SeqEqual, SMTT(30)
<1>8. QED BY <1>2, <1>7 DEF x, y

(***************************************************************************)
(* The inductive invariant.                                                *)
(***************************************************************************)

\* The thread runs exactly while the process does; a closed store has drained.
ThreadOK ==
    /\ Running => pc # "done"
    /\ mode = "closed" => pc = "done" /\ queue = <<>>

\* While no file operation has failed the file and the buffer hold whole lines,
\* the newest of them are the thread's copy, the thread's count is exact, and
\* between batches nothing is buffered and the file is short.
FileSound ==
    HasProcess /\ errors = 0 =>
        /\ ~orphan
        /\ file \in Seq(WholeLine) /\ buf \in Seq(WholeLine)
        /\ Newest(Texts(file \o buf)) = kept
        /\ linesInFile = Len(file) + Len(buf)
        /\ pc # "batch" => buf = <<>>
        /\ pc = "recv" => linesInFile < 2 * Capacity

HInv == TypeOK /\ ThreadOK /\ Accounted /\ RingMirrorsWriter /\ FileSound

-----------------------------------------------------------------------------
(* Type correctness. *)

LEMMA SinkType ==
    ASSUME TypeOK, NEW c \in Seq(Chunk)
    PROVE  Sink(c) \in Seq(Chunk)
BY DEF Sink, TypeOK

LEMMA PartialFlushType ==
    ASSUME TypeOK, NEW b \in Seq(Chunk), PartialFlush(b)
    PROVE  file' \in Seq(Chunk) /\ buf' \in Seq(Chunk)
<1>1. PICK k \in 0 .. Len(b) - 1 :
         file' = Sink(SubSeq(b, 1, k)) /\ buf' = SubSeq(b, k + 1, Len(b))
  BY DEF PartialFlush
<1>2. SubSeq(b, 1, k) \in Seq(Chunk) /\ SubSeq(b, k + 1, Len(b)) \in Seq(Chunk)
  BY SubSeqProperties
<1>3. QED BY <1>1, <1>2, SinkType

LEMMA WriteCutShortType ==
    ASSUME TypeOK, WriteCutShort
    PROVE  file' \in Seq(Chunk)
<1>1. PICK k \in 0 .. Len(buf) :
         \/ file' = Sink(SubSeq(buf, 1, k))
         \/ file' = Sink(Append(SubSeq(buf, 1, k), [m |-> Torn, nl |-> FALSE]))
  BY DEF WriteCutShort
<1>2. SubSeq(buf, 1, k) \in Seq(Chunk)
  BY SubSeqProperties DEF TypeOK
<1>3. [m |-> Torn, nl |-> FALSE] \in Chunk
  BY DEF Chunk
<1>4. Append(SubSeq(buf, 1, k), [m |-> Torn, nl |-> FALSE]) \in Seq(Chunk)
  BY <1>2, <1>3
<1>5. QED BY <1>1, <1>2, <1>4, SinkType

LEMMA LinesAreChunks ==
    ASSUME NEW s \in Seq(Msg)
    PROVE  Lines(s) \in Seq(Chunk) /\ Len(Lines(s)) = Len(s)
BY DEF Lines, Line, Chunk

LEMMA WriteType ==
    ASSUME TypeOK, NEW m \in Msg, WriteOk(m) \/ WriteFails(m)
    PROVE  /\ file' \in Seq(Chunk) /\ buf' \in Seq(Chunk)
           /\ persisted' \in Nat /\ linesInFile' \in Nat /\ errors' \in 0 .. MaxErrors
<1>1. Line(m) \in Chunk /\ [m |-> m, nl |-> FALSE] \in Chunk
  BY DEF Line, Chunk
<1>2. CASE WriteOk(m)
  <2>1. buf \in Seq(Chunk) /\ persisted \in Nat /\ linesInFile \in Nat
    BY DEF TypeOK
  <2>2. Append(buf, Line(m)) \in Seq(Chunk) /\ <<Line(m)>> \in Seq(Chunk)
    BY <1>1, <2>1
  <2>3. file' \in Seq(Chunk) /\ buf' \in Seq(Chunk)
    BY <1>2, <2>1, <2>2, SinkType DEF WriteOk, TypeOK
  <2>4. QED BY <1>2, <2>1, <2>3 DEF WriteOk, TypeOK
<1>3. CASE WriteFails(m)
  <2>1. errors' \in 0 .. MaxErrors /\ persisted' = persisted /\ linesInFile' = linesInFile
    BY <1>3, HistoryAssumption DEF WriteFails, Failing, TypeOK
  <2>2. Append(buf, [m |-> m, nl |-> FALSE]) \in Seq(Chunk) /\ buf \in Seq(Chunk)
    BY <1>1 DEF TypeOK
  <2>3. file' \in Seq(Chunk) /\ buf' \in Seq(Chunk)
    BY <1>3, <2>2, PartialFlushType DEF WriteFails
  <2>4. QED BY <2>1, <2>3 DEF TypeOK
<1>4. QED BY <1>2, <1>3

\* What a process that starts or dies resets its state to is well typed.
LEMMA EmptyTypes ==
    /\ \A S : << >> \in Seq(S) /\ Len(<< >>) = 0
    /\ 0 <= Capacity /\ 0 <= QueueCap /\ 0 \in 0 .. MaxErrors /\ 1 \in 1 .. MaxMsgs + 1
BY HistoryAssumption

LEMMA TypeInit == Init => TypeOK
<1> SUFFICES ASSUME Init PROVE TypeOK
  OBVIOUS
<1>1. /\ mode = "down" /\ next = 1 /\ pc = "done" /\ orphan = FALSE /\ linesInFile = 0
      /\ ring = << >> /\ queue = << >> /\ kept = << >> /\ buf = << >> /\ file = << >>
      /\ recorded = 0 /\ persisted = 0 /\ dropped = 0 /\ errors = 0
  BY DEF Init
<1>2. /\ ring \in Seq(Msg) /\ kept \in Seq(Msg) /\ queue \in Seq(Msg)
      /\ buf \in Seq(Chunk) /\ file \in Seq(Chunk)
      /\ Len(ring) <= Capacity /\ Len(kept) <= Capacity /\ Len(queue) <= QueueCap
  BY <1>1, EmptyTypes
<1>3. next \in 1 .. MaxMsgs + 1 /\ errors \in 0 .. MaxErrors
  BY <1>1, EmptyTypes
<1>4. QED BY <1>1, <1>2, <1>3 DEF TypeOK

LEMMA TypeNext == TypeOK /\ [Next]_vars => TypeOK'
<1> SUFFICES ASSUME TypeOK, [Next]_vars PROVE TypeOK'
  OBVIOUS
<1>1. CASE Open
  <2>1. Reload(file) \in Seq(Msg) /\ Len(Reload(file)) <= Capacity
    BY ReloadType DEF TypeOK
  <2>2. Lines(Reload(file)) \in Seq(Chunk)
    BY <2>1, LinesAreChunks
  <2>3. /\ ring' \in Seq(Msg) /\ Len(ring') <= Capacity
        /\ kept' \in Seq(Msg) /\ Len(kept') <= Capacity
        /\ file' \in Seq(Chunk) /\ linesInFile' \in Nat
    BY <1>1, <2>1, <2>2 DEF Open
  <2>4. /\ queue' \in Seq(Msg) /\ Len(queue') <= QueueCap
        /\ buf' \in Seq(Chunk) /\ errors' \in 0 .. MaxErrors
    BY <1>1, EmptyTypes DEF Open
  <2>5. QED BY <1>1, <2>3, <2>4 DEF Open, TypeOK
<1>2. CASE Record
  <2>1. next \in Msg /\ next' \in 1 .. MaxMsgs + 1
    BY <1>2, HistoryAssumption DEF Record, Msg
  <2>2. ring' \in Seq(Msg) /\ Len(ring') <= Capacity
    BY <1>2, <2>1, PushType DEF Record, TypeOK
  <2>3. queue' \in Seq(Msg) /\ Len(queue') <= QueueCap /\ dropped' \in Nat
    <3>1. queue \in Seq(Msg) /\ Len(queue) <= QueueCap /\ dropped \in Nat
      BY DEF TypeOK
    <3>2. CASE Len(queue) < QueueCap /\ queue' = Append(queue, next) /\ UNCHANGED dropped
      BY <3>1, <3>2, <2>1, HistoryAssumption
    <3>3. CASE dropped' = dropped + 1 /\ UNCHANGED queue
      BY <3>1, <3>3
    <3>4. QED BY <1>2, <3>2, <3>3 DEF Record
  <2>4. QED BY <1>2, <2>1, <2>2, <2>3 DEF Record, TypeOK
<1>3. CASE Close
  BY <1>3 DEF Close, TypeOK, memory, stats
<1>4. CASE WriteNext
  <2>1. Head(queue) \in Msg /\ Tail(queue) \in Seq(Msg) /\ Len(Tail(queue)) <= QueueCap
    BY <1>4, HistoryAssumption DEF WriteNext, TypeOK
  <2>2. kept' \in Seq(Msg) /\ Len(kept') <= Capacity
    BY <1>4, <2>1, PushType DEF WriteNext, TypeOK
  <2>3. /\ file' \in Seq(Chunk) /\ buf' \in Seq(Chunk)
        /\ persisted' \in Nat /\ linesInFile' \in Nat /\ errors' \in 0 .. MaxErrors
    BY <1>4, <2>1, WriteType DEF WriteNext
  <2>4. QED BY <1>4, <2>1, <2>2, <2>3 DEF WriteNext, TypeOK
<1>5. CASE EndBatch
  <2>1. buf \in Seq(Chunk)
    BY DEF TypeOK
  <2>2. file' \in Seq(Chunk) /\ buf' \in Seq(Chunk)
    <3>1. CASE file' = Sink(buf) /\ buf' = << >>
      BY <3>1, <2>1, SinkType, EmptyTypes
    <3>2. CASE PartialFlush(buf)
      BY <3>2, <2>1, PartialFlushType
    <3>3. QED BY <1>5, <3>1, <3>2 DEF EndBatch
  <2>3. errors' \in 0 .. MaxErrors
    BY <1>5, HistoryAssumption DEF EndBatch, Failing, TypeOK
  <2>4. QED BY <1>5, <2>2, <2>3 DEF EndBatch, TypeOK
<1>6. CASE Compact
  <2>1. Lines(kept) \in Seq(Chunk) /\ Len(kept) \in Nat
    BY LinesAreChunks DEF TypeOK
  <2>2. errors' \in 0 .. MaxErrors
    BY <1>6, HistoryAssumption DEF Compact, Failing, TypeOK
  <2>3. /\ file' \in Seq(Chunk) /\ buf' \in Seq(Chunk)
        /\ orphan' \in BOOLEAN /\ linesInFile' \in Nat
    <3>1. /\ buf \in Seq(Chunk) /\ file \in Seq(Chunk) /\ << >> \in Seq(Chunk)
          /\ orphan \in BOOLEAN /\ linesInFile \in Nat
      BY EmptyTypes DEF TypeOK
    <3>2. /\ file' = Lines(kept) \/ file' = file
          /\ buf' = << >> \/ buf' = buf
          /\ orphan' = orphan \/ orphan' = TRUE \/ orphan' = FALSE
          /\ linesInFile' = linesInFile \/ linesInFile' = Len(kept)
      BY <1>6 DEF Compact
    <3>3. QED BY <3>1, <3>2, <2>1
  <2>4. QED BY <1>6, <2>2, <2>3 DEF Compact, TypeOK
<1>7. CASE WriterExit
  <2>1. file' \in Seq(Chunk)
    BY <1>7, SinkType, WriteCutShortType DEF WriterExit, TypeOK
  <2>2. errors' \in 0 .. MaxErrors
    BY <1>7, HistoryAssumption DEF WriterExit, Failing, TypeOK
  <2>3. QED BY <1>7, <2>1, <2>2 DEF WriterExit, TypeOK
<1>8. CASE Crash
  <2>1. file' \in Seq(Chunk)
    BY <1>8, WriteCutShortType DEF Crash
  <2>2. QED BY <1>8, <2>1, EmptyTypes DEF Crash, TypeOK
<1>9. CASE UNCHANGED vars
  BY <1>9 DEF vars, memory, stats, TypeOK
<1>10. QED
  BY <1>1, <1>2, <1>3, <1>4, <1>5, <1>6, <1>7, <1>8, <1>9 DEF Next, Writer

\* Every variable keeps its type, in every instance of the store.
THEOREM TypeCorrect == Spec => []TypeOK
BY TypeInit, TypeNext, PTL DEF Spec

-----------------------------------------------------------------------------
(* The parts of the inductive invariant, one lemma each. *)

LEMMA ThreadNext == ThreadOK /\ [Next]_vars => ThreadOK'
<1> SUFFICES ASSUME ThreadOK, [Next]_vars PROVE ThreadOK'
  OBVIOUS
<1>1. CASE Open
  BY <1>1 DEF Open, ThreadOK, Running
<1>2. CASE Record
  BY <1>2 DEF Record, ThreadOK, Running
<1>3. CASE Close
  BY <1>3 DEF Close, ThreadOK, Running, memory
<1>4. CASE WriteNext
  BY <1>4 DEF WriteNext, ThreadOK, Running
<1>5. CASE EndBatch
  BY <1>5 DEF EndBatch, ThreadOK, Running
<1>6. CASE Compact
  BY <1>6 DEF Compact, ThreadOK, Running
<1>7. CASE WriterExit
  BY <1>7 DEF WriterExit, ThreadOK, Running
<1>8. CASE Crash
  BY <1>8 DEF Crash, ThreadOK, Running
<1>9. CASE UNCHANGED vars
  BY <1>9 DEF vars, memory, ThreadOK, Running
<1>10. QED
  BY <1>1, <1>2, <1>3, <1>4, <1>5, <1>6, <1>7, <1>8, <1>9 DEF Next, Writer

LEMMA AccountedNext == TypeOK /\ Accounted /\ [Next]_vars => Accounted'
<1> SUFFICES ASSUME TypeOK, Accounted, [Next]_vars PROVE Accounted'
  OBVIOUS
<1>0. /\ queue \in Seq(Msg) /\ recorded \in Nat /\ persisted \in Nat
      /\ dropped \in Nat /\ errors \in Nat
  BY DEF TypeOK
<1>1. CASE Open
  BY <1>1 DEF Open, Accounted
<1>2. CASE Record
  <2>1. next \in Msg
    BY <1>2 DEF Record
  <2>2. CASE queue' = Append(queue, next) /\ UNCHANGED dropped
    BY <2>1, <2>2, <1>0, <1>2 DEF Record, Accounted
  <2>3. CASE dropped' = dropped + 1 /\ UNCHANGED queue
    BY <2>3, <1>0, <1>2 DEF Record, Accounted
  <2>4. QED BY <1>2, <2>2, <2>3 DEF Record
<1>3. CASE Close
  BY <1>3 DEF Close, Accounted, memory, stats
<1>4. CASE WriteNext
  <2>1. Len(queue') = Len(queue) - 1
    BY <1>0, <1>4 DEF WriteNext
  <2>2. CASE WriteOk(Head(queue))
    BY <2>1, <2>2, <1>0, <1>4 DEF WriteNext, WriteOk, Accounted
  <2>3. CASE WriteFails(Head(queue))
    BY <2>1, <2>3, <1>0, <1>4 DEF WriteNext, WriteFails, Failing, Accounted
  <2>4. QED BY <1>4, <2>2, <2>3 DEF WriteNext
<1>5. CASE EndBatch
  BY <1>0, <1>5 DEF EndBatch, Failing, Accounted
<1>6. CASE Compact
  BY <1>0, <1>6 DEF Compact, Failing, Accounted
<1>7. CASE WriterExit
  BY <1>0, <1>7 DEF WriterExit, Failing, Accounted
<1>8. CASE Crash
  BY <1>8 DEF Crash, Accounted
<1>9. CASE UNCHANGED vars
  BY <1>9 DEF vars, memory, stats, Accounted
<1>10. QED
  BY <1>1, <1>2, <1>3, <1>4, <1>5, <1>6, <1>7, <1>8, <1>9 DEF Next, Writer

LEMMA MirrorNext ==
    TypeOK /\ RingMirrorsWriter /\ [Next]_vars => RingMirrorsWriter'
<1> SUFFICES ASSUME TypeOK, RingMirrorsWriter, [Next]_vars, HasProcess', dropped' = 0
             PROVE  Newest(kept' \o queue') = ring'
  BY DEF RingMirrorsWriter, Newest
<1>0. /\ queue \in Seq(Msg) /\ kept \in Seq(Msg) /\ ring \in Seq(Msg)
      /\ Len(kept) <= Capacity /\ dropped \in Nat
  BY DEF TypeOK
<1>1. CASE Open
  <2>1. Reload(file) \in Seq(Msg) /\ Len(Reload(file)) <= Capacity
    BY ReloadType DEF TypeOK
  <2>2. Reload(file) \o << >> = Reload(file)
    BY <2>1
  <2>3. QED BY <1>1, <2>1, <2>2, NewestShort DEF Open
<1>2. CASE Record
  <2>1. next \in Msg /\ HasProcess /\ dropped = 0 /\ queue' = Append(queue, next)
    BY <1>0, <1>2 DEF Record, HasProcess
  <2>2. kept' \o queue' = Append(kept \o queue, next)
    BY <1>0, <1>2, <2>1, SeqEqual DEF Record
  <2>3. kept \o queue \in Seq(Msg)
    BY <1>0
  <2>4. Newest(kept' \o queue') = Push(Newest(kept \o queue), next)
    BY <2>1, <2>2, <2>3, NewestAppend
  <2>5. QED BY <1>2, <2>1, <2>4 DEF Record, RingMirrorsWriter
<1>3. CASE Close
  BY <1>3 DEF Close, memory, stats, RingMirrorsWriter, HasProcess
<1>4. CASE WriteNext
  <2>1. HasProcess /\ dropped = 0 /\ ring' = ring /\ queue # << >>
        /\ kept' = Push(kept, Head(queue)) /\ queue' = Tail(queue)
    BY <1>4 DEF WriteNext, Running, HasProcess
  <2>2. Newest(kept' \o queue') = Newest(kept \o queue)
    BY <1>0, <2>1, NewestShift
  <2>3. QED BY <2>1, <2>2 DEF RingMirrorsWriter
<1>5. CASE EndBatch
  BY <1>5 DEF EndBatch, Running, RingMirrorsWriter, HasProcess
<1>6. CASE Compact
  BY <1>6 DEF Compact, Running, RingMirrorsWriter, HasProcess
<1>7. CASE WriterExit
  BY <1>7 DEF WriterExit, RingMirrorsWriter, HasProcess
<1>8. CASE Crash
  BY <1>8 DEF Crash, HasProcess
<1>9. CASE UNCHANGED vars
  BY <1>9 DEF vars, memory, stats, RingMirrorsWriter, HasProcess
<1>10. QED
  BY <1>1, <1>2, <1>3, <1>4, <1>5, <1>6, <1>7, <1>8, <1>9 DEF Next, Writer

LEMMA FileNext ==
    TypeOK /\ ThreadOK /\ FileSound /\ [Next]_vars => FileSound'
<1> SUFFICES ASSUME TypeOK, ThreadOK, FileSound, [Next]_vars, HasProcess', errors' = 0
             PROVE  /\ ~orphan'
                    /\ file' \in Seq(WholeLine) /\ buf' \in Seq(WholeLine)
                    /\ Newest(Texts(file' \o buf')) = kept'
                    /\ linesInFile' = Len(file') + Len(buf')
                    /\ pc' # "batch" => buf' = << >>
                    /\ pc' = "recv" => linesInFile' < 2 * Capacity
  BY DEF FileSound, Newest, Texts
<1>0. errors \in Nat
  BY DEF TypeOK
<1>1. CASE Open
  <2>1. Reload(file) \in Seq(Msg) /\ Len(Reload(file)) <= Capacity
    BY ReloadType DEF TypeOK
  <2>2. /\ Lines(Reload(file)) \in Seq(WholeLine)
        /\ Len(Lines(Reload(file))) = Len(Reload(file))
        /\ Texts(Lines(Reload(file))) = Reload(file)
    BY <2>1, LinesType
  <2>3. Lines(Reload(file)) \o << >> = Lines(Reload(file))
    BY <2>2
  <2>4. Newest(Reload(file)) = Reload(file)
    BY <2>1, NewestShort
  <2>5. << >> \in Seq(WholeLine) /\ Len(Reload(file)) < 2 * Capacity
    BY <2>1, HistoryAssumption
  <2>6. /\ file' = Lines(Reload(file)) /\ buf' = << >> /\ kept' = Reload(file)
        /\ linesInFile' = Len(Reload(file)) /\ ~orphan' /\ pc' = "recv"
    BY <1>1 DEF Open
  <2>7. Len(file') + Len(buf') = Len(Reload(file))
    BY <2>1, <2>2, <2>6
  <2>8. QED BY <2>2, <2>3, <2>4, <2>5, <2>6, <2>7
<1>2. CASE Record
  BY <1>2 DEF Record, FileSound, HasProcess
<1>3. CASE Close
  BY <1>3 DEF Close, memory, stats, FileSound, HasProcess
<1>4. CASE WriteNext
  <2>1. /\ HasProcess /\ WriteOk(Head(queue)) /\ errors = 0
        /\ kept' = Push(kept, Head(queue)) /\ pc' = "batch" /\ orphan' = orphan
    <3>1. ~WriteFails(Head(queue))
      BY <1>0 DEF WriteFails, Failing
    <3>2. WriteOk(Head(queue))
      BY <3>1, <1>4 DEF WriteNext
    <3>3. errors = 0
      BY <3>2 DEF WriteOk
    <3>4. QED BY <3>2, <3>3, <1>4 DEF WriteNext, Running, HasProcess
  <2>2. Head(queue) \in Msg
    BY <1>4 DEF WriteNext, TypeOK
  <2>3. /\ ~orphan /\ file \in Seq(WholeLine) /\ buf \in Seq(WholeLine)
        /\ Newest(Texts(file \o buf)) = kept /\ linesInFile = Len(file) + Len(buf)
    BY <2>1 DEF FileSound
  <2> DEFINE m == Head(queue)
  <2>4. Texts(file \o buf) \in Seq(Msg)
    <3>1. file \o buf \in Seq(WholeLine)
      BY <2>3
    <3>2. QED BY <3>1, TextsType
  <2>5. Newest(Append(Texts(file \o buf), m)) = kept'
    BY <2>1, <2>2, <2>3, <2>4, NewestAppend
  <2>6. << >> \in Seq(WholeLine) /\ file \o buf \in Seq(WholeLine)
        /\ Append(<< >>, Line(m)) = <<Line(m)>> /\ (file \o buf) \o << >> = file \o buf
    BY <2>3
  <2>7. CASE file' = file /\ buf' = Append(buf, Line(m))
    <3>1. /\ buf' \in Seq(WholeLine)
          /\ Texts(file' \o buf') = Append(Texts(file \o buf), m)
      BY <2>2, <2>3, <2>7, TextsAppend
    <3>2. linesInFile' = Len(file') + Len(buf')
      BY <2>1, <2>3, <2>7 DEF WriteOk
    <3>3. QED BY <2>1, <2>3, <2>5, <2>7, <3>1, <3>2
  <2>8. CASE file' = Sink(buf) /\ buf' = <<Line(m)>>
    <3>1. file' = file \o buf
      BY <2>3, <2>8 DEF Sink
    <3>2. /\ buf' \in Seq(WholeLine)
          /\ Texts(file' \o buf') = Append(Texts(file \o buf), m)
      <4> DEFINE c == file \o buf
      <4>1. c \in Seq(WholeLine) /\ << >> \in Seq(WholeLine) /\ c \o << >> = c
        BY <2>6
      <4> HIDE DEF c
      <4>2. /\ Append(<< >>, Line(m)) \in Seq(WholeLine)
            /\ Texts(c \o Append(<< >>, Line(m))) = Append(Texts(c \o << >>), m)
        BY <2>2, <4>1, TextsAppend
      <4>3. buf' = Append(<< >>, Line(m)) /\ file' = c
        BY <2>6, <2>8, <3>1 DEF c
      <4>4. QED BY <4>1, <4>2, <4>3 DEF c
    <3>3. linesInFile' = Len(file') + Len(buf')
      BY <2>1, <2>3, <2>8, <3>1 DEF WriteOk
    <3>4. QED BY <2>1, <2>3, <2>5, <2>6, <3>1, <3>2, <3>3
  <2>9. QED BY <2>1, <2>7, <2>8 DEF WriteOk
<1>5. CASE EndBatch
  <2>1. /\ HasProcess /\ errors = 0 /\ file' = Sink(buf) /\ buf' = << >>
        /\ kept' = kept /\ linesInFile' = linesInFile /\ orphan' = orphan
        /\ pc' = "recv" => ~(linesInFile >= 2 * Capacity)
    BY <1>0, <1>5 DEF EndBatch, Running, HasProcess, Failing
  <2>2. /\ ~orphan /\ file \in Seq(WholeLine) /\ buf \in Seq(WholeLine)
        /\ Newest(Texts(file \o buf)) = kept /\ linesInFile = Len(file) + Len(buf)
    BY <2>1 DEF FileSound
  <2>3. /\ file' = file \o buf /\ file' \in Seq(WholeLine) /\ buf' \in Seq(WholeLine)
        /\ file' \o buf' = file \o buf
    BY <2>1, <2>2 DEF Sink
  <2>4. linesInFile' = Len(file') + Len(buf')
    BY <2>1, <2>2, <2>3
  <2>5. linesInFile \in Nat
    BY DEF TypeOK
  <2>6. pc' = "recv" => linesInFile' < 2 * Capacity
    BY <2>1, <2>5, HistoryAssumption
  <2>7. QED BY <2>1, <2>2, <2>3, <2>4, <2>6
<1>6. CASE Compact
  <2>1. /\ file' = Lines(kept) /\ buf' = << >> /\ ~orphan'
        /\ linesInFile' = Len(kept) /\ kept' = kept
    BY <1>0, <1>6 DEF Compact, Failing
  <2>2. kept \in Seq(Msg) /\ Len(kept) <= Capacity
    BY DEF TypeOK
  <2>3. /\ file' \in Seq(WholeLine) /\ Len(file') = Len(kept) /\ Texts(file') = kept
        /\ buf' \in Seq(WholeLine) /\ file' \o buf' = file' /\ Len(buf') = 0
    BY <2>1, <2>2, LinesType
  <2>4. Newest(kept) = kept
    BY <2>2, NewestShort
  <2>5. Len(kept) < 2 * Capacity /\ Len(kept) = Len(file') + Len(buf')
    BY <2>2, <2>3, HistoryAssumption
  <2>6. QED BY <2>1, <2>3, <2>4, <2>5
<1>7. CASE WriterExit
  <2>1. /\ HasProcess /\ errors = 0 /\ file' = Sink(buf) /\ buf' = << >> /\ pc = "recv"
        /\ kept' = kept /\ linesInFile' = linesInFile /\ orphan' = orphan /\ pc' = "done"
    BY <1>0, <1>7 DEF WriterExit, HasProcess, Failing
  <2>2. /\ ~orphan /\ file \in Seq(WholeLine) /\ buf = << >>
        /\ Newest(Texts(file \o buf)) = kept /\ linesInFile = Len(file) + Len(buf)
    BY <2>1 DEF FileSound
  <2>3. file' = file /\ buf' = buf
    BY <2>1, <2>2 DEF Sink
  <2>4. QED BY <2>1, <2>2, <2>3
<1>8. CASE Crash
  BY <1>8 DEF Crash, HasProcess
<1>9. CASE UNCHANGED vars
  BY <1>9 DEF vars, memory, stats, FileSound, HasProcess
<1>10. QED
  BY <1>1, <1>2, <1>3, <1>4, <1>5, <1>6, <1>7, <1>8, <1>9 DEF Next, Writer

LEMMA InvInit == Init => HInv
<1> SUFFICES ASSUME Init PROVE HInv
  OBVIOUS
<1>1. TypeOK
  BY TypeInit
<1>2. ThreadOK /\ RingMirrorsWriter /\ FileSound
  BY DEF Init, ThreadOK, RingMirrorsWriter, FileSound, HasProcess, Running
<1>3. Accounted
  BY DEF Init, Accounted
<1>4. QED BY <1>1, <1>2, <1>3 DEF HInv

LEMMA InvNext == HInv /\ [Next]_vars => HInv'
BY TypeNext, ThreadNext, AccountedNext, MirrorNext, FileNext DEF HInv

THEOREM Invariance == Spec => []HInv
BY InvInit, InvNext, PTL DEF Spec

-----------------------------------------------------------------------------
(* What follows from it. *)

\* Every accepted message is persisted, queued, or shown by a loss counter.
THEOREM NothingUnaccounted == Spec => []Accounted
<1>1. HInv => Accounted
  BY DEF HInv
<1>2. QED BY <1>1, Invariance, PTL

\* The ring and the thread's copy agree until a write is dropped.
THEOREM RingAndWriterAgree == Spec => []RingMirrorsWriter
<1>1. HInv => RingMirrorsWriter
  BY DEF HInv
<1>2. QED BY <1>1, Invariance, PTL

\* A file of whole lines with the thread's copy at its end reloads as that copy.
LEMMA SoundMirrors == HInv => FileMirrorsKept
<1> SUFFICES ASSUME HInv, HasProcess, errors = 0 PROVE Reload(file \o buf) = kept
  BY DEF FileMirrorsKept
<1>1. /\ file \in Seq(WholeLine) /\ buf \in Seq(WholeLine)
      /\ Newest(Texts(file \o buf)) = kept
  BY DEF HInv, FileSound
<1>2. file \o buf \in Seq(WholeLine)
  BY <1>1
<1>3. QED BY <1>1, <1>2, ReloadWhole

\* Without file errors, file and buffer reload as the thread's copy.
THEOREM FileAndWriterAgree == Spec => []FileMirrorsKept
BY SoundMirrors, Invariance, PTL

\* A clean shutdown loses nothing: a restart reloads the ring, message for message.
THEOREM CleanCloseIsLossless == Spec => []CloseLosesNothing
<1>1. ASSUME HInv, mode = "closed", errors = 0, dropped = 0
      PROVE  Reload(file) = ring
  <2>1. HasProcess /\ pc = "done" /\ queue = << >>
    BY <1>1 DEF HasProcess, HInv, ThreadOK
  <2>2. buf = << >> /\ file \in Seq(WholeLine)
    BY <1>1, <2>1 DEF HInv, FileSound
  <2>3. Reload(file \o buf) = kept /\ Newest(kept \o queue) = ring
    BY <1>1, <2>1, SoundMirrors DEF FileMirrorsKept, HInv, RingMirrorsWriter
  <2>4. kept \in Seq(Msg) /\ Len(kept) <= Capacity
    BY <1>1 DEF HInv, TypeOK
  <2>5. kept \o queue = kept /\ file \o buf = file
    BY <2>1, <2>2, <2>4
  <2>6. QED BY <2>3, <2>4, <2>5, NewestShort
<1>2. HInv => CloseLosesNothing
  BY <1>1 DEF CloseLosesNothing
<1>3. QED BY <1>2, Invariance, PTL

\* Between batches the file is shorter than twice the capacity.
THEOREM FileBoundedWhenIdle == Spec => []IdleFileBounded
<1>1. HInv => IdleFileBounded
  <2> SUFFICES ASSUME HInv, Running, pc = "recv", errors = 0
               PROVE  Len(file) + Len(buf) < 2 * Capacity
    BY DEF IdleFileBounded
  <2>1. HasProcess
    BY DEF Running, HasProcess
  <2>2. QED BY <2>1 DEF HInv, FileSound
<1>2. QED BY <1>1, Invariance, PTL
-----------------------------------------------------------------------------
(***************************************************************************)
(* What file errors can cost.  A message is safe when its text stands on a *)
(* line of its own; each error spoils two messages at most: the one it     *)
(* fails to write, and the next when it leaves a line without its end.     *)
(* That a safe message is also reloaded takes the order of the file: the   *)
(* lines after it are of newer messages, of which the thread's copy has    *)
(* fewer than Capacity.                                                    *)
(***************************************************************************)

Rising(s) == \A i, j \in 1 .. Len(s) : i < j => s[i] < s[j]

\* Messages are numbered in the order in which they go from record, by way of the
\* queue, to the thread's copy.
Ordered(q, s, n) ==
    /\ Rising(q) /\ Rising(s)
    /\ \A j \in 1 .. Len(q) : q[j] < n
    /\ \A i \in 1 .. Len(s) : s[i] < n
    /\ \A i \in 1 .. Len(s), j \in 1 .. Len(q) : s[i] < q[j]

RisingText(c) == \A i, j \in 1 .. Len(c) : i < j /\ c[j].m # Torn => c[i].m < c[j].m

\* A text of messages not torn and older than the queue's; of those since the oldest
\* of the thread's copy it has no others.
TextOK(c, q, s, n) ==
    /\ RisingText(c)
    /\ \A i \in 1 .. Len(c) : c[i].m # Torn /\ c[i].m < n
    /\ \A i \in 1 .. Len(c), j \in 1 .. Len(q) : c[i].m < q[j]
    /\ \A i \in 1 .. Len(c), k \in 1 .. Len(s) :
          s[k] <= c[i].m => \E l \in 1 .. Len(s) : c[i].m = s[l]

OrderOK == Ordered(queue, kept, next)

FileOrder ==
    /\ RisingText(file) /\ \A i \in 1 .. Len(file) : file[i].m < next
    /\ Running /\ ~orphan => TextOK(file \o buf, queue, kept, next)

Unended(c) == c # << >> /\ ~c[Len(c)].nl
Whole(c) == {i \in 1 .. Len(c) : c[i].nl /\ (i = 1 \/ c[i - 1].nl)}
Safe(c) == {c[i].m : i \in Whole(c)}
Spoiled(c, s) == ToSet(s) \ Safe(c)

\* Messages of s that are not safe in c, counting the one an open line will spoil.
Cost(c, s) == Cardinality(Spoiled(c, s)) + (IF Unended(c) THEN 1 ELSE 0)

LossOK == Running /\ ~orphan => Cost(file \o buf, kept) <= 2 * errors

LossInv == HInv /\ OrderOK /\ FileOrder /\ LossOK

-----------------------------------------------------------------------------
(* A reload finds what it should, in order. *)

LEMMA NthRises ==
    ASSUME NEW S \in SUBSET Nat, IsFiniteSet(S),
           NEW k \in 1 .. Cardinality(S), NEW l \in 1 .. Cardinality(S), k < l
    PROVE  Nth(S, k) < Nth(S, l)
<1> DEFINE below(i) == {j \in S : j <= i}
<1>1. /\ Nth(S, k) \in S /\ Cardinality(below(Nth(S, k))) = k
      /\ Nth(S, l) \in S /\ Cardinality(below(Nth(S, l))) = l
  BY NthType
<1>2. ASSUME Nth(S, l) <= Nth(S, k) PROVE FALSE
  <2> DEFINE a == Nth(S, l)
             b == Nth(S, k)
  <2> HIDE DEF a, b
  <2>1. a \in S /\ b \in S /\ a <= b
    BY <1>1, <1>2 DEF a, b
  <2>2. below(a) \in SUBSET below(b) /\ below(b) \in SUBSET S
    <3>1. \A j \in S : j <= a => j <= b
      BY <2>1
    <3>2. QED BY <3>1
  <2>3. IsFiniteSet(below(b)) /\ Cardinality(below(a)) <= Cardinality(below(b))
    BY <2>2, FS_Subset
  <2>4. l <= k
    BY <2>3, <1>1 DEF a, b
  <2>5. QED BY <2>4, FS_CardinalityType
<1>3. Nth(S, k) \in Nat /\ Nth(S, l) \in Nat
  BY <1>1
<1>4. QED BY <1>2, <1>3

LEMMA NthFinds ==
    ASSUME NEW S \in SUBSET Nat, IsFiniteSet(S), NEW i \in S
    PROVE  \E k \in 1 .. Cardinality(S) : Nth(S, k) = i
<1> DEFINE below(x) == {j \in S : j <= x}
           k == Cardinality(below(i))
<1>1. below(i) \in SUBSET S /\ i \in below(i)
  OBVIOUS
<1>2. IsFiniteSet(below(i)) /\ k <= Cardinality(S)
  BY <1>1, FS_Subset
<1>3. k \in Nat /\ k # 0 /\ Cardinality(S) \in Nat
  BY <1>1, <1>2, FS_CardinalityType, FS_EmptySet
<1>4. k \in 1 .. Cardinality(S)
  BY <1>2, <1>3
<1> DEFINE x == Nth(S, k)
<1>5. x \in S /\ Cardinality(below(x)) = k
  <2> HIDE DEF k
  <2>1. QED BY <1>4, NthType
<1> HIDE DEF x
<1>6. below(x) \in SUBSET S /\ IsFiniteSet(below(x))
  BY FS_Subset
<1>7. ASSUME x <= i PROVE x = i
  <2>1. \A j \in S : j <= x => j <= i
    BY <1>5, <1>7
  <2>2. below(x) \in SUBSET below(i)
    BY <2>1
  <2>3. below(x) = below(i)
    BY <2>2, <1>2, <1>5, FS_Subset
  <2>4. i <= x
    BY <2>3, <1>1
  <2>5. x \in Nat /\ i \in Nat
    BY <1>5
  <2>6. QED BY <2>4, <2>5, <1>7
<1>8. ASSUME i <= x PROVE x = i
  <2>1. \A j \in S : j <= i => j <= x
    BY <1>5, <1>8
  <2>2. below(i) \in SUBSET below(x)
    BY <2>1
  <2>3. below(x) = below(i)
    BY <2>2, <1>6, <1>5, FS_Subset
  <2>4. x \in below(x)
    BY <1>5
  <2>5. x <= i
    BY <2>3, <2>4
  <2>6. x \in Nat /\ i \in Nat
    BY <1>5
  <2>7. QED BY <2>5, <2>6, <1>8
<1>9. x = i
  <2>1. x \in Nat /\ i \in Nat
    BY <1>5
  <2>2. QED BY <2>1, <1>7, <1>8
<1>10. Nth(S, k) = i
  BY <1>9 DEF x
<1> HIDE DEF k
<1>11. QED BY <1>4, <1>10

LEMMA GoodType ==
    ASSUME NEW S, NEW c \in Seq(S)
    PROVE  /\ Good(c) \in SUBSET (1 .. Len(c)) /\ IsFiniteSet(Good(c))
           /\ Good(c) \in SUBSET Nat /\ Cardinality(Good(c)) \in Nat
<1>1. TailEnds(c) \in SUBSET (1 .. Len(c)) /\ IsFiniteSet(TailEnds(c))
  BY TailEndsBounded
<1>2. Good(c) \in SUBSET TailEnds(c)
  BY DEF Good
<1>3. IsFiniteSet(Good(c))
  BY <1>1, <1>2, FS_Subset
<1>4. QED BY <1>1, <1>2, <1>3, FS_CardinalityType

\* The messages of a reload are those on the lines that parse.
LEMMA ReloadSet ==
    ASSUME NEW c \in Seq(Chunk)
    PROVE  ToSet(Reload(c)) = {c[i].m : i \in Good(c)}
<1> DEFINE G == Good(c)
<1>1. G \in SUBSET Nat /\ IsFiniteSet(G)
  BY GoodType
<1>2. Reload(c) = [k \in 1 .. Cardinality(G) |-> c[Nth(G, k)].m]
  BY DEF Reload
<1> HIDE DEF G
<1>3. ToSet(Reload(c)) = {c[Nth(G, k)].m : k \in 1 .. Cardinality(G)}
  BY <1>2 DEF ToSet
<1>4. \A k \in 1 .. Cardinality(G) : Nth(G, k) \in G
  BY <1>1, NthType
<1>5. \A i \in G : \E k \in 1 .. Cardinality(G) : Nth(G, k) = i
  BY <1>1, NthFinds
<1>6. ToSet(Reload(c)) = {c[i].m : i \in G}
  BY <1>3, <1>4, <1>5
<1>7. QED BY <1>6 DEF G

LEMMA ReloadRises ==
    ASSUME NEW c \in Seq(Chunk), RisingText(c)
    PROVE  /\ Rising(Reload(c))
           /\ \A k \in 1 .. Len(Reload(c)) : \E i \in 1 .. Len(c) : Reload(c)[k] = c[i].m
<1> DEFINE G == Good(c)
<1>1. G \in SUBSET Nat /\ IsFiniteSet(G) /\ G \in SUBSET (1 .. Len(c)) /\ Cardinality(G) \in Nat
  BY GoodType
<1>2. \A i \in G : c[i].m # Torn
  BY DEF Good, Parses
<1>3. Reload(c) = [k \in 1 .. Cardinality(G) |-> c[Nth(G, k)].m]
  BY DEF Reload
<1> HIDE DEF G
<1>4. \A k \in 1 .. Cardinality(G) : Nth(G, k) \in G
  BY <1>1, NthType
<1>5. \A k, l \in 1 .. Cardinality(G) : k < l => Nth(G, k) < Nth(G, l)
  BY <1>1, NthRises
<1>6. Len(Reload(c)) = Cardinality(G)
  BY <1>1, <1>3
<1>7. ASSUME NEW k \in 1 .. Cardinality(G), NEW l \in 1 .. Cardinality(G), k < l
      PROVE  Reload(c)[k] < Reload(c)[l]
  <2>1. Nth(G, k) \in 1 .. Len(c) /\ Nth(G, l) \in 1 .. Len(c) /\ c[Nth(G, l)].m # Torn
    BY <1>1, <1>2, <1>4
  <2>2. Nth(G, k) < Nth(G, l)
    BY <1>5, <1>7
  <2>3. QED BY <2>1, <2>2, <1>3 DEF RisingText
<1>8. QED BY <1>1, <1>3, <1>4, <1>6, <1>7 DEF Rising

LEMMA CountUpTo ==
    ASSUME NEW n \in Nat
    PROVE  IsFiniteSet(1 .. n) /\ Cardinality(1 .. n) = n
<1>1. n \in Int /\ 1 \in Int
  OBVIOUS
<1>2. IsFiniteSet(1 .. n) /\ Cardinality(1 .. n) = IF 1 > n THEN 0 ELSE n - 1 + 1
  BY <1>1, FS_Interval
<1>3. QED BY <1>2

LEMMA JoinedTexts ==
    ASSUME NEW a \in Seq(Chunk), NEW b \in Seq(Chunk), NEW c \in Seq(Chunk)
    PROVE  (a \o b) \o c = a \o (b \o c)
BY ConcatAssociative

LEMMA TwoMore ==
    ASSUME NEW a \in Nat, NEW b \in Nat, NEW e \in Nat, a <= 2 * e, b <= a + 2
    PROVE  b <= 2 * (e + 1)
OBVIOUS

LEMMA ToSetFinite ==
    ASSUME NEW S, NEW s \in Seq(S)
    PROVE  /\ ToSet(s) = {s[i] : i \in 1 .. Len(s)}
           /\ IsFiniteSet(ToSet(s)) /\ Cardinality(ToSet(s)) \in Nat
           /\ Cardinality(ToSet(s)) <= Len(s)
<1> DEFINE I == 1 .. Len(s)
           f == [i \in I |-> s[i]]
<1>1. ToSet(s) = {s[i] : i \in I} /\ Len(s) \in Nat
  BY DEF ToSet
<1>2. IsFiniteSet(I) /\ Cardinality(I) = Len(s)
  BY <1>1, CountUpTo
<1> HIDE DEF I
<1>3. f \in Surjection(I, ToSet(s))
  BY <1>1 DEF Surjection
<1> HIDE DEF f
<1>4. IsFiniteSet(ToSet(s)) /\ Cardinality(ToSet(s)) <= Cardinality(I)
  BY <1>2, <1>3, FS_Surjection
<1>5. QED BY <1>1, <1>2, <1>4, FS_CardinalityType DEF I

\* Lines in order are of as many messages as lines.
LEMMA AsManyMessages ==
    ASSUME NEW c \in Seq(Chunk), RisingText(c),
           NEW T \in SUBSET (1 .. Len(c)), \A j \in T : c[j].m # Torn,
           NEW K, IsFiniteSet(K), \A j \in T : c[j].m \in K
    PROVE  IsFiniteSet(T) /\ Cardinality(T) <= Cardinality(K)
<1> DEFINE f == [j \in T |-> c[j].m]
<1>1. f \in [T -> K]
  OBVIOUS
<1>2. \A j \in T : j \in Nat /\ c[j].m \in Nat
  <2>1. \A j \in 1 .. Len(c) : c[j] \in Chunk /\ j \in Nat
    BY ElementOfSeq
  <2>2. Msg \cup {Torn} \in SUBSET Nat
    BY HistoryAssumption DEF Msg, Torn
  <2>3. \A x \in Chunk : x.m \in Msg \cup {Torn}
    BY DEF Chunk
  <2>4. QED BY <2>1, <2>2, <2>3
<1>3. ASSUME NEW i \in T, NEW j \in T, i < j PROVE f[i] # f[j]
  BY <1>2, <1>3 DEF RisingText
<1>4. ASSUME NEW i \in T, NEW j \in T, f[i] = f[j] PROVE i = j
  <2> HIDE DEF f
  <2>1. ~(i < j) /\ ~(j < i)
    BY <1>3, <1>4
  <2>2. QED BY <2>1, <1>2
<1> HIDE DEF f
<1>5. f \in Injection(T, K)
  BY <1>1, <1>4 DEF Injection, IsInjective
<1>6. QED BY <1>5, FS_Injection

\* A message of the thread's copy on a line of its own is reloaded.
LEMMA SafeIsReloaded ==
    ASSUME NEW c \in Seq(Chunk), NEW s \in Seq(Msg), NEW q, NEW n, TextOK(c, q, s, n),
           Len(s) <= Capacity,
           NEW i \in Whole(c), c[i].m \in ToSet(s)
    PROVE  c[i].m \in ToSet(Reload(c))
<1> DEFINE E == {j \in Ends(c) : j > i}
           K == ToSet(s) \ {c[i].m}
<1>1. /\ ToSet(s) = {s[l] : l \in 1 .. Len(s)}
      /\ IsFiniteSet(ToSet(s)) /\ Cardinality(ToSet(s)) \in Nat
      /\ Cardinality(ToSet(s)) <= Len(s)
  BY ToSetFinite
<1>2. IsFiniteSet(K) /\ Cardinality(K) < Capacity
  <2> DEFINE t == ToSet(s)
             a == c[i].m
  <2>a. IsFiniteSet(t) /\ a \in t
    BY <1>1
  <2> HIDE DEF t, a
  <2>b. IsFiniteSet(t \ {a}) /\ Cardinality(t \ {a}) = Cardinality(t) - 1
    BY <2>a, FS_RemoveElement
  <2>1. IsFiniteSet(K) /\ Cardinality(K) = Cardinality(ToSet(s)) - 1
    BY <2>b DEF t, a
  <2>2. QED BY <2>1, <1>1, HistoryAssumption
<1>3. E \in SUBSET (1 .. Len(c)) /\ i \in 1 .. Len(c)
  BY DEF Ends, Whole
<1>4. ASSUME NEW j \in E PROVE c[j].m # Torn /\ c[j].m \in K
  <2>1. j \in 1 .. Len(c) /\ i < j /\ c[j].m # Torn
    BY <1>3 DEF TextOK
  <2>2. c[i].m < c[j].m
    BY <2>1, <1>3 DEF TextOK, RisingText
  <2>3. c[i] \in Chunk /\ c[j] \in Chunk
    BY <2>1, <1>3, ElementOfSeq
  <2>4. c[i].m \in Nat /\ c[j].m \in Nat
    BY <2>3, HistoryAssumption DEF Chunk, Msg, Torn
  <2>5. PICK k \in 1 .. Len(s) : s[k] = c[i].m
    BY <1>1
  <2>6. s[k] <= c[j].m
    BY <2>2, <2>4, <2>5
  <2>7. \E l \in 1 .. Len(s) : c[j].m = s[l]
    BY <2>1, <2>6 DEF TextOK
  <2>8. QED BY <2>1, <2>2, <2>4, <2>7, <1>1
<1>5. IsFiniteSet(E) /\ Cardinality(E) <= Cardinality(K)
  <2> HIDE DEF E, K
  <2>1. QED BY <1>2, <1>3, <1>4, AsManyMessages DEF TextOK
<1>6. Cardinality(E) < Capacity
  <2> HIDE DEF E, K
  <2>1. QED BY <1>2, <1>5, FS_CardinalityType, HistoryAssumption
<1>7. i \in Good(c)
  <2>1. i \in Ends(c) /\ (i = 1 \/ c[i - 1].nl) /\ c[i].m # Torn
    BY <1>3 DEF Ends, Whole, TextOK
  <2>2. QED BY <2>1, <1>6 DEF Good, TailEnds, Parses
<1>8. QED BY <1>7, ReloadSet

-----------------------------------------------------------------------------
(* What goes to the file and the buffer, seen as one text. *)

LEMMA FlushedText ==
    ASSUME TypeOK, ~orphan, NEW b \in Seq(Chunk), PartialFlush(b)
    PROVE  file' \o buf' = file \o b
<1>1. PICK k \in 0 .. Len(b) - 1 :
         file' = Sink(SubSeq(b, 1, k)) /\ buf' = SubSeq(b, k + 1, Len(b))
  BY DEF PartialFlush
<1>0. k \in Nat /\ Len(b) \in Nat /\ k < Len(b)
  BY <1>1
<1> DEFINE x == SubSeq(b, 1, k)
           y == SubSeq(b, k + 1, Len(b))
<1>2. /\ x \in Seq(Chunk) /\ Len(x) = k /\ \A i \in 1 .. k : x[i] = b[i]
      /\ y \in Seq(Chunk) /\ Len(y) = Len(b) - k
      /\ \A i \in 1 .. Len(b) - k : y[i] = b[k + i]
  <2>1. Len(b) \in Nat /\ \A i \in 1 .. Len(b) : b[i] \in Chunk
    BY ElementOfSeq
  <2>2. QED BY <2>1, SubSeqProperties
<1>3. file \in Seq(Chunk)
  BY DEF TypeOK
<1>4. file' = file \o x /\ buf' = y
  BY <1>1 DEF Sink
<1> HIDE DEF x, y
<1>5. x \o y = b
  <2>1. SubSeq(b, 1, k) \o SubSeq(b, k + 1, Len(b)) = SubSeq(b, 1, Len(b))
    <3>1. 1 \in 1 .. Len(b) + 1 /\ k \in 1 - 1 .. Len(b) /\ Len(b) \in k .. Len(b)
      BY <1>0
    <3>2. QED BY <3>1, ConcatAdjacentSubSeq
  <2>2. SubSeq(b, 1, Len(b)) = b
    BY SubSeqFull
  <2>3. QED BY <2>1, <2>2 DEF x, y
<1>6. (file \o x) \o y = file \o (x \o y)
  <2>1. x \in Seq(Chunk) /\ y \in Seq(Chunk)
    BY <1>2
  <2>2. QED BY <2>1, <1>3, JoinedTexts
<1>7. QED BY <1>4, <1>5, <1>6

\* The text a message leaves: a line, half of one, or none.
LEMMA WrittenText ==
    ASSUME TypeOK, ~orphan, NEW m \in Msg, WriteOk(m) \/ WriteFails(m)
    PROVE  LET c == file \o buf IN
           \/ errors' = errors /\ file' \o buf' = Append(c, Line(m))
           \/ errors' = errors + 1 /\ \/ file' \o buf' = c
                                      \/ file' \o buf' = Append(c, [m |-> m, nl |-> FALSE])
<1> DEFINE half == [m |-> m, nl |-> FALSE]
<1>1. file \in Seq(Chunk) /\ buf \in Seq(Chunk) /\ Line(m) \in Chunk /\ half \in Chunk
  BY DEF TypeOK, Line, Chunk
<1>2. ASSUME NEW x \in Chunk
      PROVE  /\ file \o Append(buf, x) = Append(file \o buf, x)
             /\ (file \o buf) \o <<x>> = Append(file \o buf, x)
             /\ Append(buf, x) \in Seq(Chunk)
  BY <1>1, SeqEqual
<1>3. CASE WriteOk(m)
  BY <1>1, <1>2, <1>3 DEF WriteOk, Sink
<1>4. CASE WriteFails(m)
  <2>1. errors' = errors + 1
    BY <1>4 DEF WriteFails, Failing
  <2>2. CASE PartialFlush(buf)
    BY <2>1, <2>2, <1>1, FlushedText
  <2>3. CASE PartialFlush(Append(buf, half))
    BY <2>1, <2>3, <1>1, <1>2, FlushedText
  <2>4. QED BY <2>2, <2>3, <1>4 DEF WriteFails
<1>5. QED BY <1>3, <1>4

\* A part of the text that reaches the file is as ordered as the whole.
LEMMA FrontRises ==
    ASSUME NEW x \in Seq(Chunk), NEW y \in Seq(Chunk), NEW n, RisingText(x \o y),
           \A i \in 1 .. Len(x \o y) : (x \o y)[i].m < n
    PROVE  RisingText(x) /\ \A i \in 1 .. Len(x) : x[i].m < n
<1>1. /\ Len(x) \in Nat /\ Len(y) \in Nat /\ Len(x \o y) = Len(x) + Len(y)
      /\ \A i \in 1 .. Len(x) : (x \o y)[i] = x[i]
  OBVIOUS
<1>2. \A i \in 1 .. Len(x) : i \in 1 .. Len(x \o y)
  BY <1>1
<1>3. QED BY <1>1, <1>2 DEF RisingText
-----------------------------------------------------------------------------
(* The order is kept: by record, by a write, by a rewritten file. *)

\* Push is an append that may lose the first element.
LEMMA PushShift ==
    ASSUME NEW s \in Seq(Msg), NEW m \in Msg
    PROVE  /\ Push(s, m) \in Seq(Msg)
           /\ \E d \in {0, 1} :
                 /\ Len(Push(s, m)) = Len(s) + 1 - d
                 /\ \A i \in 1 .. Len(s) + 1 - d :
                       Push(s, m)[i] = IF i = Len(s) + 1 - d THEN m ELSE s[i + d]
                 /\ Len(s) + 1 - d > 0
<1>1. Len(s) \in Nat /\ Push(s, m) \in Seq(Msg)
  BY PushType
<1>2. CASE Len(s) >= Capacity
  <2>1. Push(s, m) = Append(Tail(s), m) /\ s # << >> /\ Len(s) > 0
    BY <1>2, HistoryAssumption DEF Push
  <2>2. /\ Tail(s) \in Seq(Msg) /\ Len(Tail(s)) = Len(s) - 1
        /\ \A i \in 1 .. Len(s) - 1 : Tail(s)[i] = s[i + 1]
    BY <2>1, HeadTailProperties
  <2> DEFINE t == Tail(s)
  <2> HIDE DEF t
  <2>3. /\ Len(Append(t, m)) = Len(s)
        /\ \A i \in 1 .. Len(s) : Append(t, m)[i] = IF i = Len(s) THEN m ELSE s[i + 1]
    <3>1. /\ t \in Seq(Msg) /\ Len(t) = Len(s) - 1
          /\ \A i \in 1 .. Len(s) - 1 : t[i] = s[i + 1]
      BY <2>2 DEF t
    <3>2. /\ Len(Append(t, m)) = Len(s)
          /\ \A i \in 1 .. Len(s) : Append(t, m)[i] = IF i <= Len(s) - 1 THEN t[i] ELSE m
      BY <3>1, <1>1
    <3>3. QED BY <3>1, <3>2, <1>1
  <2>4. Len(s) + 1 - 1 = Len(s)
    BY <1>1
  <2>5. QED BY <1>1, <2>1, <2>3, <2>4 DEF t
<1>3. CASE Len(s) < Capacity
  <2>1. Push(s, m) = Append(s, m)
    BY <1>1, <1>3, HistoryAssumption DEF Push
  <2>2. /\ Len(Append(s, m)) = Len(s) + 1
        /\ \A i \in 1 .. Len(s) + 1 : Append(s, m)[i] = IF i = Len(s) + 1 THEN m ELSE s[i + 0]
    OBVIOUS
  <2>3. Len(s) + 1 - 0 = Len(s) + 1
    BY <1>1
  <2>4. QED BY <1>1, <2>1, <2>2, <2>3
<1>4. QED BY <1>1, <1>2, <1>3, HistoryAssumption

LEMMA MsgAreNumbers ==
    /\ Msg \in SUBSET Nat /\ Torn = 0 /\ Torn \notin Msg
    /\ \A c \in Seq(Chunk) : \A i \in 1 .. Len(c) : c[i] \in Chunk /\ c[i].m \in Nat
    /\ \A s \in Seq(Msg) : \A i \in 1 .. Len(s) : s[i] \in Msg /\ s[i] \in Nat
<1>1. Msg \in SUBSET Nat /\ Torn = 0 /\ Torn \notin Msg
  BY HistoryAssumption DEF Msg, Torn
<1>2. ASSUME NEW c \in Seq(Chunk), NEW i \in 1 .. Len(c)
      PROVE  c[i] \in Chunk /\ c[i].m \in Nat
  <2>1. c[i] \in Chunk
    BY ElementOfSeq
  <2>2. \A x \in Chunk : x.m \in Msg \cup {Torn}
    BY DEF Chunk
  <2>3. c[i].m \in Msg \cup {Torn}
    BY <2>1, <2>2
  <2>a. Msg \cup {Torn} \in SUBSET Nat
    BY <1>1
  <2>4. c[i].m \in Nat
    BY <2>3, <2>a
  <2>5. QED BY <2>1, <2>4
<1>3. ASSUME NEW s \in Seq(Msg), NEW i \in 1 .. Len(s)
      PROVE  s[i] \in Msg /\ s[i] \in Nat
  BY <1>1, ElementOfSeq
<1>4. QED BY <1>1, <1>2, <1>3

LEMMA OrderRecorded ==
    ASSUME NEW q \in Seq(Msg), NEW s \in Seq(Msg), NEW n \in Msg, Ordered(q, s, n)
    PROVE  Ordered(q, s, n + 1) /\ Ordered(Append(q, n), s, n + 1)
<1>1. /\ n \in Nat /\ Len(q) \in Nat
      /\ \A i \in 1 .. Len(q) : q[i] \in Nat
      /\ \A i \in 1 .. Len(s) : s[i] \in Nat
  BY MsgAreNumbers
<1>2. Ordered(q, s, n + 1)
  BY <1>1 DEF Ordered
<1>3. /\ Len(Append(q, n)) = Len(q) + 1
      /\ \A j \in 1 .. Len(q) + 1 : Append(q, n)[j] = IF j <= Len(q) THEN q[j] ELSE n
  OBVIOUS
<1> DEFINE r == Append(q, n)
<1> HIDE DEF r
<1>4. \A j \in 1 .. Len(r) : r[j] < n + 1
  BY <1>1, <1>3 DEF Ordered, r
<1>5. Rising(r)
  <2>1. ASSUME NEW i \in 1 .. Len(r), NEW j \in 1 .. Len(r), i < j PROVE r[i] < r[j]
    <3>1. Len(r) = Len(q) + 1 /\ i <= Len(q)
      BY <2>1, <1>1, <1>3 DEF r
    <3>2. r[i] = q[i] /\ i \in 1 .. Len(q)
      BY <3>1, <1>1, <1>3 DEF r
    <3>3. CASE j <= Len(q)
      <4>1. r[j] = q[j] /\ j \in 1 .. Len(q)
        BY <3>1, <3>3, <1>1, <1>3 DEF r
      <4>2. QED BY <2>1, <3>2, <4>1 DEF Ordered, Rising
    <3>4. CASE j = Len(q) + 1
      <4>1. r[j] = n
        BY <3>1, <3>4, <1>1, <1>3 DEF r
      <4>2. QED BY <3>2, <4>1 DEF Ordered
    <3>5. j <= Len(q) \/ j = Len(q) + 1
      BY <3>1, <1>1
    <3>6. QED BY <3>3, <3>4, <3>5
  <2>2. QED BY <2>1 DEF Rising
<1>6. \A i \in 1 .. Len(s), j \in 1 .. Len(r) : s[i] < r[j]
  BY <1>1, <1>3 DEF Ordered, r
<1>7. QED BY <1>2, <1>4, <1>5, <1>6 DEF Ordered, r

LEMMA TextRecorded ==
    ASSUME NEW q \in Seq(Msg), NEW s \in Seq(Msg), NEW n \in Msg, NEW c \in Seq(Chunk),
           TextOK(c, q, s, n)
    PROVE  TextOK(c, q, s, n + 1) /\ TextOK(c, Append(q, n), s, n + 1)
<1>1. n \in Nat /\ Len(q) \in Nat /\ \A i \in 1 .. Len(c) : c[i].m \in Nat
  BY MsgAreNumbers
<1>2. /\ Len(Append(q, n)) = Len(q) + 1
      /\ \A j \in 1 .. Len(q) + 1 : Append(q, n)[j] = IF j <= Len(q) THEN q[j] ELSE n
  OBVIOUS
<1>3. \A i \in 1 .. Len(c) : c[i].m < n + 1
  BY <1>1 DEF TextOK
<1> DEFINE r == Append(q, n)
<1> HIDE DEF r
<1>4. \A i \in 1 .. Len(c), j \in 1 .. Len(r) : c[i].m < r[j]
  BY <1>1, <1>2 DEF TextOK, r
<1>5. QED BY <1>3, <1>4 DEF TextOK, r

LEMMA OrderWritten ==
    ASSUME NEW q \in Seq(Msg), NEW s \in Seq(Msg), NEW n \in Nat, Ordered(q, s, n), q # << >>
    PROVE  Ordered(Tail(q), Push(s, Head(q)), n)
<1> DEFINE m == Head(q)
           r == Tail(q)
           p == Push(s, m)
<1>1. /\ m \in Msg /\ m = q[1] /\ Len(q) \in Nat \ {0} /\ r \in Seq(Msg) /\ Len(r) = Len(q) - 1
      /\ \A j \in 1 .. Len(r) : r[j] = q[j + 1]
  BY HeadTailProperties
<1>2. /\ m \in Nat /\ Len(s) \in Nat
      /\ \A i \in 1 .. Len(q) : q[i] \in Nat
      /\ \A i \in 1 .. Len(s) : s[i] \in Nat
  BY <1>1, MsgAreNumbers
<1> HIDE DEF m, r
<1>3. PICK d \in {0, 1} :
        /\ Len(p) = Len(s) + 1 - d
        /\ \A i \in 1 .. Len(s) + 1 - d : p[i] = IF i = Len(s) + 1 - d THEN m ELSE s[i + d]
  <2>1. m \in Msg
    BY <1>1
  <2>2. QED BY <2>1, PushShift
<1> HIDE DEF p
<1>4. Rising(r) /\ \A j \in 1 .. Len(r) : m < r[j] /\ r[j] < n
  <2>1. \A j \in 1 .. Len(r) : j + 1 \in 1 .. Len(q) /\ r[j] = q[j + 1] /\ 1 < j + 1
    BY <1>1
  <2>2. 1 \in 1 .. Len(q)
    BY <1>1
  <2>3. \A j \in 1 .. Len(r) : m < r[j] /\ r[j] < n
    BY <2>1, <2>2, <1>1 DEF Ordered, Rising
  <2>4. ASSUME NEW i \in 1 .. Len(r), NEW j \in 1 .. Len(r), i < j PROVE r[i] < r[j]
    <3>1. i + 1 < j + 1
      BY <2>4
    <3>2. QED BY <3>1, <2>1 DEF Ordered, Rising
  <2>5. QED BY <2>3, <2>4 DEF Rising
<1>5. \A i \in 1 .. Len(s) : s[i] < m
  BY <1>1 DEF Ordered
<1>6. m < n
  BY <1>1 DEF Ordered
<1>7. ASSUME NEW i \in 1 .. Len(p)
      PROVE  \/ i = Len(p) /\ p[i] = m
             \/ i < Len(p) /\ i + d \in 1 .. Len(s) /\ p[i] = s[i + d]
  <2>1. CASE i = Len(p)
    BY <2>1, <1>3
  <2>2. CASE i # Len(p)
    <3>1. i < Len(p) /\ i + d \in 1 .. Len(s)
      BY <2>2, <1>2, <1>3
    <3>2. p[i] = s[i + d]
      BY <2>2, <1>3
    <3>3. QED BY <3>1, <3>2
  <2>3. QED BY <2>1, <2>2
<1>8. Rising(p)
  <2>1. ASSUME NEW i \in 1 .. Len(p), NEW j \in 1 .. Len(p), i < j PROVE p[i] < p[j]
    <3>1. Len(p) \in Nat /\ i < Len(p)
      BY <2>1, <1>2, <1>3
    <3>2. i + d \in 1 .. Len(s) /\ p[i] = s[i + d]
      BY <3>1, <1>7
    <3>3. CASE p[j] = m
      BY <3>2, <3>3, <1>5
    <3>4. CASE j + d \in 1 .. Len(s) /\ p[j] = s[j + d]
      <4>1. i + d < j + d
        BY <2>1
      <4>2. QED BY <3>2, <3>4, <4>1 DEF Ordered, Rising
    <3>5. QED BY <3>3, <3>4, <1>7
  <2>2. QED BY <2>1 DEF Rising
<1>9. \A i \in 1 .. Len(p) : p[i] \in Nat /\ p[i] <= m
  BY <1>2, <1>5, <1>7
<1>10. \A j \in 1 .. Len(r) : r[j] \in Nat
  BY <1>1, <1>2
<1>11. \A i \in 1 .. Len(p), j \in 1 .. Len(r) : p[i] < r[j]
  BY <1>2, <1>4, <1>9, <1>10
<1>12. \A i \in 1 .. Len(p) : p[i] < n
  BY <1>2, <1>6, <1>9
<1>13. QED BY <1>4, <1>8, <1>11, <1>12 DEF Ordered, m, r, p

LEMMA TextWritten ==
    ASSUME NEW q \in Seq(Msg), NEW s \in Seq(Msg), NEW n \in Nat, NEW c \in Seq(Chunk),
           Ordered(q, s, n), TextOK(c, q, s, n), q # << >>
    PROVE  /\ TextOK(c, Tail(q), Push(s, Head(q)), n)
           /\ \A x \in Chunk :
                 x.m = Head(q) => TextOK(Append(c, x), Tail(q), Push(s, Head(q)), n)
<1> DEFINE m == Head(q)
           r == Tail(q)
           p == Push(s, m)
<1>1. /\ m \in Msg /\ m = q[1] /\ Len(q) \in Nat \ {0} /\ r \in Seq(Msg) /\ Len(r) = Len(q) - 1
      /\ \A j \in 1 .. Len(r) : r[j] = q[j + 1]
  BY HeadTailProperties
<1>2. /\ m \in Nat /\ m # Torn /\ Len(s) \in Nat /\ Len(c) \in Nat
      /\ \A i \in 1 .. Len(q) : q[i] \in Nat
      /\ \A i \in 1 .. Len(s) : s[i] \in Nat
      /\ \A i \in 1 .. Len(c) : c[i].m \in Nat
  BY <1>1, MsgAreNumbers
<1> HIDE DEF m, r
<1>3. PICK d \in {0, 1} :
        /\ Len(p) = Len(s) + 1 - d
        /\ \A i \in 1 .. Len(s) + 1 - d : p[i] = IF i = Len(s) + 1 - d THEN m ELSE s[i + d]
        /\ Len(s) + 1 - d > 0
  <2>1. m \in Msg
    BY <1>1
  <2>2. QED BY <2>1, PushShift
<1> HIDE DEF p
<1>4. \A i \in 1 .. Len(c) : c[i].m < m
  BY <1>1 DEF TextOK
<1>s. \A j \in 1 .. Len(r) : j + 1 \in 1 .. Len(q) /\ r[j] = q[j + 1] /\ 1 < j + 1
  BY <1>1
<1>5. m < n /\ \A j \in 1 .. Len(r) : m < r[j]
  <2>1. 1 \in 1 .. Len(q)
    BY <1>1
  <2>2. QED BY <2>1, <1>s, <1>1 DEF Ordered, Rising
<1>6. \A i \in 1 .. Len(c), j \in 1 .. Len(r) : c[i].m < r[j]
  BY <1>s DEF TextOK
<1>7. ASSUME NEW i \in 1 .. Len(c), NEW k \in 1 .. Len(p), p[k] <= c[i].m
      PROVE  \E l \in 1 .. Len(p) : c[i].m = p[l]
  <2>1. p[k] # m
    BY <1>2, <1>4, <1>7
  <2>2. k + d \in 1 .. Len(s) /\ p[k] = s[k + d]
    BY <2>1, <1>2, <1>3
  <2>3. PICK l \in 1 .. Len(s) : c[i].m = s[l]
    BY <2>2, <1>7 DEF TextOK
  <2>4. l >= k + d
    <3>1. s[k + d] <= s[l]
      BY <2>2, <2>3, <1>7
    <3>2. l < k + d => s[l] < s[k + d]
      BY <2>2 DEF Ordered, Rising
    <3>3. QED BY <3>1, <3>2, <2>2, <1>2
  <2>5. l - d \in 1 .. Len(p) /\ p[l - d] = s[l]
    <3>1. l \in Nat /\ l <= Len(s) /\ k \in Nat /\ k >= 1 /\ Len(s) \in Nat /\ k + d <= l
      BY <2>2, <2>4, <1>2
    <3>2. l - d \in 1 .. Len(s) + 1 - d /\ l - d # Len(s) + 1 - d /\ (l - d) + d = l
      BY <3>1
    <3>3. QED BY <3>2, <1>3
  <2>6. QED BY <2>3, <2>5
<1>8. TextOK(c, r, p, n)
  BY <1>6, <1>7 DEF TextOK
<1>9. ASSUME NEW x \in Chunk, x.m = m PROVE TextOK(Append(c, x), r, p, n)
  <2> DEFINE a == Append(c, x)
  <2>1. /\ a \in Seq(Chunk) /\ Len(a) = Len(c) + 1
        /\ \A i \in 1 .. Len(a) :
              (i \in 1 .. Len(c) /\ a[i] = c[i]) \/ (i = Len(c) + 1 /\ a[i] = x)
    <3>1. /\ a \in Seq(Chunk) /\ Len(a) = Len(c) + 1
          /\ \A i \in 1 .. Len(c) + 1 : a[i] = IF i <= Len(c) THEN c[i] ELSE x
      OBVIOUS
    <3>2. \A i \in 1 .. Len(c) + 1 : i \in 1 .. Len(c) \/ i = Len(c) + 1
      BY <1>2
    <3> HIDE DEF a
    <3>3. QED BY <3>1, <3>2, <1>2
  <2> HIDE DEF a
  <2>2. RisingText(a)
    <3>1. ASSUME NEW i \in 1 .. Len(a), NEW j \in 1 .. Len(a), i < j, a[j].m # Torn
          PROVE  a[i].m < a[j].m
      <4>1. i \in 1 .. Len(c) /\ a[i] = c[i]
        <5>1. i # Len(c) + 1
          BY <3>1, <2>1, <1>2
        <5>2. QED BY <5>1, <2>1
      <4>2. CASE j \in 1 .. Len(c) /\ a[j] = c[j]
        BY <3>1, <4>1, <4>2 DEF TextOK, RisingText
      <4>3. CASE a[j] = x
        BY <4>1, <4>3, <1>4, <1>9
      <4>4. QED BY <4>2, <4>3, <2>1
    <3>2. QED BY <3>1 DEF RisingText
  <2>3. \A i \in 1 .. Len(a) : a[i].m # Torn /\ a[i].m < n
    BY <2>1, <1>2, <1>5, <1>9 DEF TextOK
  <2>4. \A i \in 1 .. Len(a), j \in 1 .. Len(r) : a[i].m < r[j]
    BY <2>1, <1>5, <1>6, <1>9
  <2>5. \E l \in 1 .. Len(p) : p[l] = m
    <3>1. Len(p) \in 1 .. Len(p) /\ p[Len(p)] = m
      BY <1>2, <1>3
    <3>2. QED BY <3>1
  <2>6. \A i \in 1 .. Len(a), k \in 1 .. Len(p) :
          p[k] <= a[i].m => \E l \in 1 .. Len(p) : a[i].m = p[l]
    BY <2>1, <2>5, <1>7, <1>9
  <2>7. QED BY <2>2, <2>3, <2>4, <2>6 DEF TextOK, a
<1>10. QED BY <1>8, <1>9 DEF m, r, p

\* A file rewritten with the thread's copy.
LEMMA TextRewritten ==
    ASSUME NEW q \in Seq(Msg), NEW s \in Seq(Msg), NEW n \in Nat, Ordered(q, s, n)
    PROVE  TextOK(Lines(s), q, s, n) /\ Lines(s) \in Seq(Chunk)
<1>1. Lines(s) \in Seq(Chunk) /\ Len(Lines(s)) = Len(s)
  BY LinesAreChunks
<1>2. \A i \in 1 .. Len(s) : Lines(s)[i].m = s[i]
  BY DEF Lines, Line
<1>3. \A i \in 1 .. Len(s) : s[i] # Torn
  BY MsgAreNumbers
<1> DEFINE c == Lines(s)
<1> HIDE DEF c
<1>4. QED BY <1>1, <1>2, <1>3 DEF TextOK, RisingText, Ordered, Rising, c

LEMMA OrderReloaded ==
    ASSUME NEW c \in Seq(Chunk), RisingText(c), NEW n \in Nat,
           \A i \in 1 .. Len(c) : c[i].m < n
    PROVE  Ordered(<< >>, Reload(c), n)
<1>1. /\ Rising(Reload(c))
      /\ \A k \in 1 .. Len(Reload(c)) : \E i \in 1 .. Len(c) : Reload(c)[k] = c[i].m
  BY ReloadRises
<1>2. QED BY <1>1 DEF Ordered, Rising
LEMMA FrontOfText ==
    ASSUME TypeOK, FileOrder, Running, ~orphan, NEW k \in 0 .. Len(buf)
    PROVE  LET c == file \o SubSeq(buf, 1, k) IN
           c \in Seq(Chunk) /\ RisingText(c) /\ \A i \in 1 .. Len(c) : c[i].m < next
<1> DEFINE x == SubSeq(buf, 1, k)
           y == SubSeq(buf, k + 1, Len(buf))
           c == file \o x
<1>1. file \in Seq(Chunk) /\ buf \in Seq(Chunk) /\ Len(buf) \in Nat /\ k \in 0 .. Len(buf)
  BY DEF TypeOK
<1>2. x \in Seq(Chunk) /\ y \in Seq(Chunk)
  <2>1. \A i \in 1 .. Len(buf) : buf[i] \in Chunk
    BY <1>1, ElementOfSeq
  <2>2. QED BY <2>1, <1>1, SubSeqProperties
<1>3. x \o y = buf
  <2>1. SubSeq(buf, 1, k) \o SubSeq(buf, k + 1, Len(buf)) = SubSeq(buf, 1, Len(buf))
    <3>1. 1 \in 1 .. Len(buf) + 1 /\ k \in 1 - 1 .. Len(buf) /\ Len(buf) \in k .. Len(buf)
      BY <1>1
    <3>2. QED BY <3>1, <1>1, ConcatAdjacentSubSeq
  <2>2. SubSeq(buf, 1, Len(buf)) = buf
    BY <1>1, SubSeqFull
  <2>3. QED BY <2>1, <2>2
<1> HIDE DEF x, y
<1>4. c \in Seq(Chunk) /\ c \o y = file \o buf
  <2>1. (file \o x) \o y = file \o (x \o y)
    BY <1>1, <1>2, JoinedTexts
  <2>2. QED BY <2>1, <1>1, <1>2, <1>3
<1> HIDE DEF c
<1>5. RisingText(c \o y) /\ \A i \in 1 .. Len(c \o y) : (c \o y)[i].m < next
  BY <1>4 DEF FileOrder, TextOK
<1>6. RisingText(c) /\ \A i \in 1 .. Len(c) : c[i].m < next
  BY <1>2, <1>4, <1>5, FrontRises
<1>7. QED BY <1>4, <1>6 DEF c, x

LEMMA CutRises ==
    ASSUME TypeOK, FileOrder, Running, WriteCutShort
    PROVE  RisingText(file') /\ \A i \in 1 .. Len(file') : file'[i].m < next
<1>1. PICK k \in 0 .. Len(buf) :
         \/ file' = Sink(SubSeq(buf, 1, k))
         \/ file' = Sink(Append(SubSeq(buf, 1, k), [m |-> Torn, nl |-> FALSE]))
  BY DEF WriteCutShort
<1>2. file \in Seq(Chunk) /\ buf \in Seq(Chunk) /\ Len(buf) \in Nat /\ k \in 0 .. Len(buf)
  BY <1>1 DEF TypeOK
<1>3. CASE orphan
  BY <1>1, <1>3 DEF Sink, FileOrder
<1>4. CASE ~orphan
  <2> DEFINE x == SubSeq(buf, 1, k)
             c == file \o x
             torn == [m |-> Torn, nl |-> FALSE]
  <2>1. x \in Seq(Chunk) /\ torn \in Chunk
    <3>1. \A i \in 1 .. Len(buf) : buf[i] \in Chunk
      BY <1>2, ElementOfSeq
    <3>2. QED BY <3>1, <1>2, SubSeqProperties DEF Chunk
  <2>4. c \in Seq(Chunk) /\ RisingText(c) /\ \A i \in 1 .. Len(c) : c[i].m < next
    BY <1>2, <1>4, FrontOfText
  <2> HIDE DEF c, x
  <2>5. file' = c \/ file' = Append(c, torn)
    <3>1. file \o Append(x, torn) = Append(file \o x, torn)
      BY <2>1, <1>2, SeqEqual
    <3>2. QED BY <3>1, <1>1, <1>4 DEF Sink, c, x
  <2>6. CASE file' = Append(c, torn)
    <3> DEFINE a == Append(c, torn)
    <3>1. /\ Len(a) = Len(c) + 1 /\ Len(c) \in Nat
          /\ \A i \in 1 .. Len(c) : a[i] = c[i]
          /\ a[Len(c) + 1] = torn
      BY <2>1, <2>4
    <3>2. torn.m = Torn /\ Torn < next
      BY DEF Torn, TypeOK
    <3> HIDE DEF a, torn
    <3>3. \A i \in 1 .. Len(a) : i = Len(c) + 1 \/ i \in 1 .. Len(c)
      BY <3>1
    <3>4. \A i \in 1 .. Len(a) : a[i].m < next
      BY <3>1, <3>2, <3>3, <2>4
    <3>5. ASSUME NEW i \in 1 .. Len(a), NEW j \in 1 .. Len(a), i < j, a[j].m # Torn
          PROVE  a[i].m < a[j].m
      <4>1. j \in 1 .. Len(c)
        BY <3>1, <3>2, <3>3, <3>5
      <4>2. i \in 1 .. Len(c)
        BY <4>1, <3>1, <3>5
      <4>3. QED BY <4>1, <4>2, <3>1, <3>5, <2>4 DEF RisingText
    <3>6. RisingText(a)
      BY <3>5 DEF RisingText
    <3>7. QED BY <3>4, <3>6, <2>6 DEF a
  <2>7. QED BY <2>4, <2>5, <2>6
<1>5. QED BY <1>3, <1>4

\* The order of the whole text gives that of the file's part.
LEMMA TextGivesOrder ==
    ASSUME NEW x \in Seq(Chunk), NEW y \in Seq(Chunk), NEW q, NEW s, NEW n,
           TextOK(x \o y, q, s, n)
    PROVE  RisingText(x) /\ \A i \in 1 .. Len(x) : x[i].m < n
BY FrontRises DEF TextOK

LEMMA OrderNext ==
    TypeOK /\ OrderOK /\ FileOrder /\ [Next]_vars => OrderOK' /\ FileOrder'
<1> SUFFICES ASSUME TypeOK, OrderOK, FileOrder, [Next]_vars PROVE OrderOK' /\ FileOrder'
  OBVIOUS
<1>0. /\ queue \in Seq(Msg) /\ kept \in Seq(Msg) /\ next \in Nat
      /\ file \in Seq(Chunk) /\ buf \in Seq(Chunk)
      /\ file' \in Seq(Chunk) /\ buf' \in Seq(Chunk)
      /\ Ordered(queue, kept, next)
  BY TypeNext DEF TypeOK, OrderOK
<1>a. ASSUME TextOK(file' \o buf', queue', kept', next'),
             Ordered(queue', kept', next')
      PROVE  OrderOK' /\ FileOrder'
  <2>1. OrderOK'
    BY <1>a DEF OrderOK, Ordered, Rising
  <2>2. RisingText(file') /\ \A i \in 1 .. Len(file') : file'[i].m < next'
    BY <1>a, <1>0, TextGivesOrder
  <2>3. RisingText(file)' /\ \A i \in 1 .. Len(file') : file'[i].m < next'
    BY <2>2 DEF RisingText
  <2>4. TextOK(file \o buf, queue, kept, next)'
    BY <1>a DEF TextOK, RisingText
  <2>5. QED BY <2>1, <2>3, <2>4 DEF FileOrder
<1>b. ASSUME file' = file, next' = next, orphan' \/ ~Running',
             Ordered(queue', kept', next')
      PROVE  OrderOK' /\ FileOrder'
  BY <1>b DEF OrderOK, FileOrder, Ordered, RisingText, Rising
<1>1. CASE Open
  <2> DEFINE R == Reload(file)
  <2>1. R \in Seq(Msg) /\ Ordered(<< >>, R, next)
    BY <1>0, ReloadType, OrderReloaded DEF FileOrder
  <2>2. /\ file' = Lines(R) /\ buf' = << >> /\ kept' = R /\ queue' = << >> /\ next' = next
    BY <1>1 DEF Open
  <2> HIDE DEF R
  <2>3. TextOK(Lines(R), << >>, R, next) /\ Lines(R) \in Seq(Chunk)
    BY <2>1, <1>0, TextRewritten, EmptyTypes
  <2>4. Lines(R) \o << >> = Lines(R)
    BY <2>3
  <2>5. QED BY <2>1, <2>2, <2>3, <2>4, <1>a
<1>2. CASE Record
  <2>1. /\ next \in Msg /\ next' = next + 1
        /\ queue' = queue \/ queue' = Append(queue, next)
        /\ kept' = kept /\ file' = file /\ buf' = buf /\ orphan' = orphan /\ mode' = mode
    BY <1>2 DEF Record
  <2>2. Ordered(queue', kept', next')
    <3>1. Ordered(queue, kept, next + 1) /\ Ordered(Append(queue, next), kept, next + 1)
      BY <2>1, <1>0, OrderRecorded
    <3>2. QED BY <3>1, <2>1
  <2>3. CASE Running /\ ~orphan
    <3>1. TextOK(file \o buf, queue, kept, next) /\ file \o buf \in Seq(Chunk)
      BY <2>3, <1>0 DEF FileOrder
    <3>2. TextOK(file' \o buf', queue', kept', next')
      <4> DEFINE c == file \o buf
      <4> HIDE DEF c
      <4>1. TextOK(c, queue, kept, next) /\ c \in Seq(Chunk)
        BY <3>1 DEF c
      <4>2. TextOK(c, queue, kept, next + 1) /\ TextOK(c, Append(queue, next), kept, next + 1)
        BY <4>1, <2>1, <1>0, TextRecorded
      <4>3. QED BY <4>2, <2>1 DEF c
    <3>3. QED BY <3>2, <2>2, <1>a
  <2>4. CASE ~(Running /\ ~orphan)
    <3>1. \A i \in 1 .. Len(file) : file[i].m < next + 1
      BY <1>0, MsgAreNumbers DEF FileOrder
    <3>2. OrderOK'
      BY <2>2 DEF OrderOK, Ordered, Rising
    <3>3. RisingText(file)' /\ \A i \in 1 .. Len(file') : file'[i].m < next'
      BY <3>1, <2>1 DEF FileOrder, RisingText
    <3>4. ~(Running /\ ~orphan)'
      BY <2>1, <2>4 DEF Running
    <3>5. QED BY <3>2, <3>3, <3>4 DEF FileOrder
  <2>5. QED BY <2>3, <2>4
<1>3. CASE Close
  BY <1>3 DEF Close, memory, OrderOK, FileOrder, Running, Ordered, RisingText, Rising, TextOK
<1>4. CASE WriteNext
  <2>1. /\ Running /\ queue # << >> /\ queue' = Tail(queue) /\ kept' = Push(kept, Head(queue))
        /\ WriteOk(Head(queue)) \/ WriteFails(Head(queue))
        /\ orphan' = orphan /\ next' = next
    BY <1>4 DEF WriteNext
  <2>2. Ordered(queue', kept', next')
    BY <2>1, <1>0, OrderWritten
  <2>3. CASE orphan
    <3>1. file' = file
      BY <2>1, <2>3 DEF WriteOk, WriteFails, PartialFlush, Sink
    <3>2. QED BY <3>1, <2>1, <2>2, <2>3, <1>b
  <2>4. CASE ~orphan
    <3> DEFINE c == file \o buf
    <3>1. c \in Seq(Chunk) /\ TextOK(c, queue, kept, next)
      BY <2>1, <2>4, <1>0 DEF FileOrder
    <3>2. Head(queue) \in Msg
      BY <2>1, <1>0
    <3>3. \/ file' \o buf' = c
          \/ file' \o buf' = Append(c, Line(Head(queue)))
          \/ file' \o buf' = Append(c, [m |-> Head(queue), nl |-> FALSE])
      BY <2>1, <2>4, <3>2, WrittenText
    <3>4. /\ Line(Head(queue)) \in Chunk /\ Line(Head(queue)).m = Head(queue)
          /\ [m |-> Head(queue), nl |-> FALSE] \in Chunk
          /\ [m |-> Head(queue), nl |-> FALSE].m = Head(queue)
      BY <3>2 DEF Chunk, Line
    <3> HIDE DEF c
    <3>5. /\ TextOK(c, Tail(queue), Push(kept, Head(queue)), next)
          /\ \A x \in Chunk :
               x.m = Head(queue) =>
                 TextOK(Append(c, x), Tail(queue), Push(kept, Head(queue)), next)
      BY <2>1, <3>1, <1>0, TextWritten
    <3>6. TextOK(file' \o buf', queue', kept', next')
      BY <2>1, <3>3, <3>4, <3>5
    <3>7. QED BY <3>6, <2>2, <1>a
  <2>5. QED BY <2>3, <2>4
<1>5. CASE EndBatch
  <2>1. /\ Running /\ queue' = queue /\ kept' = kept /\ orphan' = orphan /\ next' = next
        /\ (file' = Sink(buf) /\ buf' = << >>) \/ PartialFlush(buf)
    BY <1>5 DEF EndBatch
  <2>2. CASE orphan
    <3>1. file' = file
      BY <2>1, <2>2 DEF PartialFlush, Sink
    <3>2. QED BY <3>1, <2>1, <2>2, <1>0, <1>b
  <2>3. CASE ~orphan
    <3>1. file' \o buf' = file \o buf
      <4>1. (file \o buf) \o << >> = file \o buf
        BY <1>0
      <4>2. QED BY <4>1, <2>1, <2>3, <1>0, FlushedText DEF Sink
    <3>2. TextOK(file \o buf, queue, kept, next)
      BY <2>1, <2>3 DEF FileOrder
    <3>3. QED BY <3>1, <3>2, <2>1, <1>0, <1>a
  <2>4. QED BY <2>2, <2>3
<1>6. CASE Compact
  <2>1. /\ Running /\ queue' = queue /\ kept' = kept /\ next' = next /\ mode' = mode
        /\ \/ file' = Lines(kept) /\ buf' = << >>
           \/ file' = file /\ buf' = buf /\ orphan' = orphan
           \/ file' = Lines(kept) /\ orphan' = TRUE
    BY <1>6 DEF Compact
  <2>2. TextOK(Lines(kept), queue, kept, next) /\ Lines(kept) \in Seq(Chunk)
    BY <1>0, TextRewritten
  <2>3. Lines(kept) \o << >> = Lines(kept)
    BY <2>2
  <2>4. CASE file' = Lines(kept) /\ buf' = << >>
    BY <2>1, <2>2, <2>3, <2>4, <1>0, <1>a
  <2>5. CASE file' = file /\ buf' = buf /\ orphan' = orphan
    BY <2>1, <2>5 DEF OrderOK, FileOrder, Running, Ordered, RisingText, Rising, TextOK
  <2>6. CASE file' = Lines(kept) /\ orphan' = TRUE
    <3>1. RisingText(file') /\ \A i \in 1 .. Len(file') : file'[i].m < next
      BY <2>2, <2>6 DEF TextOK
    <3>2. QED BY <3>1, <2>1, <2>6 DEF OrderOK, FileOrder, Ordered, RisingText, Rising
  <2>7. QED BY <2>1, <2>4, <2>5, <2>6
<1>7. CASE WriterExit
  <2>1. /\ Running /\ ~Running' /\ queue' = queue /\ kept' = kept /\ next' = next
        /\ file' = Sink(buf) \/ WriteCutShort
    BY <1>7 DEF WriterExit, Running
  <2>2. RisingText(file') /\ \A i \in 1 .. Len(file') : file'[i].m < next
    BY <2>1, CutRises DEF Sink, FileOrder, TextOK
  <2>3. QED BY <2>1, <2>2 DEF OrderOK, FileOrder, Ordered, RisingText, Rising
<1>8. CASE Crash
  <2>1. /\ Running /\ ~Running' /\ queue' = << >> /\ kept' = << >> /\ next' = next
        /\ WriteCutShort
    BY <1>8 DEF Crash, Running
  <2>2. RisingText(file') /\ \A i \in 1 .. Len(file') : file'[i].m < next
    BY <2>1, CutRises
  <2>3. QED BY <2>1, <2>2 DEF OrderOK, FileOrder, Ordered, RisingText, Rising
<1>9. CASE UNCHANGED vars
  BY <1>9 DEF vars, memory, OrderOK, FileOrder, Running, Ordered, RisingText, Rising, TextOK
<1>10. QED
  BY <1>1, <1>2, <1>3, <1>4, <1>5, <1>6, <1>7, <1>8, <1>9 DEF Next, Writer
-----------------------------------------------------------------------------
(* The cost of errors. *)

LEMMA SpoiledFinite ==
    ASSUME NEW c \in Seq(Chunk), NEW s \in Seq(Msg)
    PROVE  IsFiniteSet(Spoiled(c, s)) /\ Cardinality(Spoiled(c, s)) \in Nat
<1>1. IsFiniteSet(ToSet(s)) /\ Spoiled(c, s) \in SUBSET ToSet(s)
  BY ToSetFinite DEF Spoiled
<1>2. IsFiniteSet(Spoiled(c, s))
  BY <1>1, FS_Subset
<1>3. QED BY <1>2, FS_CardinalityType

\* What a write adds to the thread's copy.
LEMMA PushAdds ==
    ASSUME NEW s \in Seq(Msg), NEW m \in Msg
    PROVE  ToSet(Push(s, m)) \in SUBSET (ToSet(s) \cup {m})
<1> DEFINE p == Push(s, m)
<1>1. PICK d \in {0, 1} :
        /\ Len(p) = Len(s) + 1 - d
        /\ \A i \in 1 .. Len(s) + 1 - d : p[i] = IF i = Len(s) + 1 - d THEN m ELSE s[i + d]
  BY PushShift
<1>2. p \in Seq(Msg) /\ Len(s) \in Nat
  BY PushShift
<1> HIDE DEF p
<1>3. ToSet(p) = {p[i] : i \in 1 .. Len(p)} /\ ToSet(s) = {s[i] : i \in 1 .. Len(s)}
  BY <1>2, ToSetFinite
<1>4. ASSUME NEW i \in 1 .. Len(p) PROVE p[i] \in ToSet(s) \cup {m}
  <2>1. CASE i = Len(p)
    BY <2>1, <1>1
  <2>2. CASE i # Len(p)
    <3>1. i + d \in 1 .. Len(s)
      BY <2>2, <1>1, <1>2
    <3>2. p[i] = s[i + d]
      BY <2>2, <1>1
    <3>3. QED BY <3>1, <3>2, <1>3
  <2>3. QED BY <2>1, <2>2
<1>5. QED BY <1>3, <1>4 DEF p

\* A text that is continued keeps its safe messages.
LEMMA SafeGrows ==
    ASSUME NEW c \in Seq(Chunk), NEW x \in Chunk
    PROVE  /\ Append(c, x) \in Seq(Chunk)
           /\ Safe(c) \in SUBSET Safe(Append(c, x))
           /\ Unended(Append(c, x)) <=> ~x.nl
           /\ x.nl /\ ~Unended(c) => x.m \in Safe(Append(c, x))
<1> DEFINE a == Append(c, x)
<1>1. /\ a \in Seq(Chunk) /\ Len(c) \in Nat /\ Len(a) = Len(c) + 1
      /\ \A i \in 1 .. Len(c) : a[i] = c[i]
      /\ a[Len(c) + 1] = x
  OBVIOUS
<1>e. a # << >> /\ (c = << >> <=> Len(c) = 0)
  <2>1. a # << >>
    BY <1>1, EmptySeq
  <2>2. c = << >> <=> Len(c) = 0
    BY EmptySeq
  <2>3. QED BY <2>1, <2>2
<1> HIDE DEF a
<1>2. ASSUME NEW i \in Whole(c) PROVE i \in Whole(a) /\ a[i].m = c[i].m
  <2>1. i \in 1 .. Len(c) /\ c[i].nl /\ (i = 1 \/ c[i - 1].nl)
    BY DEF Whole
  <2>2. i \in 1 .. Len(a) /\ a[i] = c[i] /\ (i = 1 \/ i - 1 \in 1 .. Len(c))
    BY <2>1, <1>1
  <2>3. i = 1 \/ a[i - 1].nl
    BY <2>1, <2>2, <1>1
  <2>4. QED BY <2>1, <2>2, <2>3 DEF Whole
<1>3. Safe(c) \in SUBSET Safe(a)
  BY <1>2 DEF Safe
<1>4. Unended(a) <=> ~x.nl
  BY <1>1, <1>e DEF Unended
<1>5. ASSUME x.nl, ~Unended(c) PROVE x.m \in Safe(a)
  <2> DEFINE n == Len(c) + 1
  <2>1. n \in 1 .. Len(a) /\ a[n] = x /\ n - 1 = Len(c)
    BY <1>1
  <2>2. n = 1 \/ a[n - 1].nl
    <3>1. CASE c = << >>
      BY <3>1, <1>e
    <3>2. CASE c # << >>
      <4>1. c[Len(c)].nl /\ Len(c) \in 1 .. Len(c)
        BY <3>2, <1>5, <1>1, <1>e DEF Unended
      <4>2. QED BY <4>1, <2>1, <1>1
    <3>3. QED BY <3>1, <3>2
  <2> HIDE DEF n
  <2>3. n \in Whole(a)
    BY <2>1, <2>2, <1>5 DEF Whole
  <2>4. QED BY <2>1, <2>3 DEF Safe
<1>6. QED BY <1>1, <1>3, <1>4, <1>5 DEF a

\* A message written costs nothing, one not written costs itself, one written in
\* part may cost the next as well.
LEMMA CostOfWrite ==
    ASSUME NEW c \in Seq(Chunk), NEW s \in Seq(Msg), NEW m \in Msg
    PROVE  /\ Cost(c, s) \in Nat
           /\ Cost(c, Push(s, m)) \in Nat /\ Cost(c, Push(s, m)) <= Cost(c, s) + 1
           /\ \A x \in Chunk :
                 x.m = m =>
                   /\ Cost(Append(c, x), Push(s, m)) \in Nat
                   /\ Cost(Append(c, x), Push(s, m)) <= Cost(c, s) + 2
                   /\ x.nl => Cost(Append(c, x), Push(s, m)) <= Cost(c, s)
<1> DEFINE p == Push(s, m)
           S == Spoiled(c, s)
<1>1. p \in Seq(Msg) /\ ToSet(p) \in SUBSET (ToSet(s) \cup {m})
  BY PushAdds, PushShift
<1> HIDE DEF p
<1>2. /\ IsFiniteSet(S) /\ Cardinality(S) \in Nat
      /\ IsFiniteSet(S \cup {m}) /\ Cardinality(S \cup {m}) \in Nat
      /\ Cardinality(S \cup {m}) <= Cardinality(S) + 1
  <2>1. IsFiniteSet(S) /\ Cardinality(S) \in Nat
    BY SpoiledFinite
  <2> HIDE DEF S
  <2>2. /\ IsFiniteSet(S \cup {m})
        /\ Cardinality(S \cup {m}) = IF m \in S THEN Cardinality(S) ELSE Cardinality(S) + 1
    BY <2>1, FS_AddElement
  <2>3. QED BY <2>1, <2>2
<1>3. ASSUME NEW a \in Seq(Chunk), Safe(c) \in SUBSET Safe(a)
      PROVE  /\ Cardinality(Spoiled(a, p)) \in Nat
             /\ Cardinality(Spoiled(a, p)) <= Cardinality(S) + 1
             /\ m \in Safe(a) => Cardinality(Spoiled(a, p)) <= Cardinality(S)
  <2>1. Spoiled(a, p) \in SUBSET (S \cup {m})
    BY <1>1, <1>3 DEF Spoiled
  <2>2. m \in Safe(a) => Spoiled(a, p) \in SUBSET S
    BY <1>1, <1>3 DEF Spoiled
  <2>3. Cardinality(Spoiled(a, p)) \in Nat
    BY <1>1, SpoiledFinite
  <2> HIDE DEF S
  <2>4. Cardinality(Spoiled(a, p)) <= Cardinality(S \cup {m})
    BY <2>1, <1>2, FS_Subset
  <2>5. m \in Safe(a) => Cardinality(Spoiled(a, p)) <= Cardinality(S)
    BY <2>2, <1>2, FS_Subset
  <2>6. QED BY <2>3, <2>4, <2>5, <1>2
<1>4. Cost(c, s) \in Nat /\ Cost(c, p) \in Nat /\ Cost(c, p) <= Cost(c, s) + 1
  <2>1. Cardinality(Spoiled(c, p)) \in Nat /\ Cardinality(Spoiled(c, p)) <= Cardinality(S) + 1
    BY <1>3
  <2>2. CASE Unended(c)
    BY <2>1, <2>2, <1>2 DEF Cost
  <2>3. CASE ~Unended(c)
    BY <2>1, <2>3, <1>2 DEF Cost
  <2>4. QED BY <2>2, <2>3
<1>5. ASSUME NEW x \in Chunk, x.m = m
      PROVE  /\ Cost(Append(c, x), p) \in Nat
             /\ Cost(Append(c, x), p) <= Cost(c, s) + 2
             /\ x.nl => Cost(Append(c, x), p) <= Cost(c, s)
  <2> DEFINE a == Append(c, x)
             n == Cardinality(Spoiled(a, p))
  <2>1. /\ a \in Seq(Chunk) /\ Safe(c) \in SUBSET Safe(a)
        /\ Unended(a) <=> ~x.nl
        /\ x.nl /\ ~Unended(c) => m \in Safe(a)
    BY <1>5, SafeGrows
  <2> HIDE DEF a
  <2>2. n \in Nat /\ n <= Cardinality(S) + 1 /\ (m \in Safe(a) => n <= Cardinality(S))
    BY <2>1, <1>3
  <2>3. Cost(a, p) = n + (IF Unended(a) THEN 1 ELSE 0)
        /\ Cost(c, s) = Cardinality(S) + (IF Unended(c) THEN 1 ELSE 0)
    BY DEF Cost
  <2> HIDE DEF n, S
  <2>4. CASE x.nl
    <3>1. Cost(a, p) = n
      BY <2>1, <2>2, <2>3, <2>4
    <3>2. CASE Unended(c)
      BY <3>1, <3>2, <2>2, <2>3, <1>2 DEF a
    <3>3. CASE ~Unended(c)
      BY <3>1, <3>3, <2>1, <2>2, <2>3, <2>4, <1>2 DEF a
    <3>4. QED BY <3>2, <3>3
  <2>5. CASE ~x.nl
    <3>1. Cost(a, p) = n + 1
      BY <2>1, <2>3, <2>5
    <3>2. CASE Unended(c)
      BY <3>1, <3>2, <2>2, <2>3, <2>5, <1>2 DEF a
    <3>3. CASE ~Unended(c)
      BY <3>1, <3>3, <2>2, <2>3, <2>5, <1>2 DEF a
    <3>4. QED BY <3>2, <3>3
  <2>6. QED BY <2>4, <2>5
<1>6. QED BY <1>4, <1>5 DEF p

\* A file just rewritten has everything.
LEMMA CostOfRewrite ==
    ASSUME NEW s \in Seq(Msg)
    PROVE  Cost(Lines(s), s) = 0
<1> DEFINE c == Lines(s)
<1>1. c \in Seq(Chunk) /\ Len(c) = Len(s) /\ Len(s) \in Nat
  BY LinesAreChunks
<1>2. \A i \in 1 .. Len(s) : c[i].m = s[i] /\ c[i].nl
  BY DEF Lines, Line
<1> HIDE DEF c
<1>3. \A i \in 1 .. Len(s) : i \in Whole(c)
  <2>1. ASSUME NEW i \in 1 .. Len(s) PROVE i \in Whole(c)
    <3>1. i = 1 \/ i - 1 \in 1 .. Len(s)
      BY <1>1
    <3>2. QED BY <3>1, <1>1, <1>2 DEF Whole
  <2>2. QED BY <2>1
<1>4. Spoiled(c, s) = {}
  <2>1. ToSet(s) = {s[i] : i \in 1 .. Len(s)}
    BY ToSetFinite
  <2>2. QED BY <2>1, <1>2, <1>3 DEF Spoiled, Safe
<1>5. ~Unended(c)
  <2>1. CASE c = << >>
    BY <2>1 DEF Unended
  <2>2. CASE c # << >>
    <3>1. Len(c) \in 1 .. Len(s)
      BY <2>2, <1>1
    <3>2. QED BY <3>1, <1>2 DEF Unended
  <2>3. QED BY <2>1, <2>2
<1>6. QED BY <1>4, <1>5, FS_EmptySet DEF Cost, c

LEMMA LossNext == TypeOK /\ LossOK /\ [Next]_vars => LossOK'
<1> SUFFICES ASSUME TypeOK, LossOK, [Next]_vars, Running', ~orphan'
             PROVE  Cost(file' \o buf', kept') <= 2 * errors'
  BY DEF LossOK, Cost, Spoiled, Safe, Whole, Unended
<1>0. /\ queue \in Seq(Msg) /\ kept \in Seq(Msg) /\ errors \in Nat
      /\ file \in Seq(Chunk) /\ buf \in Seq(Chunk) /\ file \o buf \in Seq(Chunk)
      /\ file' \in Seq(Chunk) /\ buf' \in Seq(Chunk) /\ kept' \in Seq(Msg) /\ errors' \in Nat
  BY TypeNext DEF TypeOK
<1> DEFINE c == file \o buf
<1>a. ASSUME Running, ~orphan PROVE Cost(c, kept) <= 2 * errors
  BY <1>a DEF LossOK
<1>b. Cost(c, kept) \in Nat
  <2> HIDE DEF c
  <2>1. c \in Seq(Chunk)
    BY <1>0 DEF c
  <2>2. Cardinality(Spoiled(c, kept)) \in Nat
    BY <2>1, <1>0, SpoiledFinite
  <2>3. QED BY <2>2 DEF Cost
<1>c. ASSUME file' = Lines(kept'), buf' = << >> PROVE Cost(file' \o buf', kept') <= 2 * errors'
  <2>1. file' \o buf' = file'
    BY <1>0, <1>c
  <2>2. Cost(file' \o buf', kept') = 0
    BY <2>1, <1>0, <1>c, CostOfRewrite
  <2>3. errors' \in Nat /\ \A n \in Nat : 0 <= 2 * n
    BY <1>0
  <2>4. 0 <= 2 * errors'
    BY <2>3
  <2>5. QED BY <2>2, <2>4, Zenon
<1>1. CASE Open
  BY <1>1, <1>c DEF Open
<1>2. CASE Record
  BY <1>2, <1>a DEF Record, Running
<1>3. CASE Close
  BY <1>3, <1>a DEF Close, memory, stats, Running
<1>4. CASE WriteNext
  <2> DEFINE m == Head(queue)
  <2>1. /\ Running /\ ~orphan /\ queue # << >> /\ kept' = Push(kept, m)
        /\ WriteOk(m) \/ WriteFails(m)
    BY <1>4 DEF WriteNext
  <2>2. m \in Msg
    BY <2>1, <1>0
  <2> DEFINE line == Line(m)
             half == [m |-> m, nl |-> FALSE]
  <2>3. \/ errors' = errors /\ file' \o buf' = Append(c, line)
        \/ errors' = errors + 1 /\ \/ file' \o buf' = c
                                   \/ file' \o buf' = Append(c, half)
    BY <2>1, <2>2, WrittenText
  <2>4. line \in Chunk /\ line.m = m /\ line.nl /\ half \in Chunk /\ half.m = m
    BY <2>2 DEF Chunk, Line
  <2> HIDE DEF m, c, line, half
  <2>5. c \in Seq(Chunk) /\ Cost(c, kept) <= 2 * errors
    BY <2>1, <1>0, <1>a DEF c
  <2>6. /\ Cost(c, kept') \in Nat /\ Cost(c, kept') <= Cost(c, kept) + 1
        /\ Cost(Append(c, line), kept') \in Nat /\ Cost(Append(c, line), kept') <= Cost(c, kept)
        /\ Cost(Append(c, half), kept') \in Nat /\ Cost(Append(c, half), kept') <= Cost(c, kept) + 2
    BY <2>1, <2>2, <2>4, <2>5, <1>0, CostOfWrite
  <2>7. CASE errors' = errors /\ file' \o buf' = Append(c, line)
    BY <2>5, <2>6, <2>7, <1>0, <1>b
  <2>8. CASE errors' = errors + 1 /\ file' \o buf' = c
    <3>1. Cost(c, kept') <= Cost(c, kept) + 2
      BY <2>6, <1>b
    <3>2. QED BY <3>1, <2>5, <2>6, <2>8, <1>0, <1>b, TwoMore
  <2>9. CASE errors' = errors + 1 /\ file' \o buf' = Append(c, half)
    BY <2>5, <2>6, <2>9, <1>0, <1>b, TwoMore
  <2>10. QED BY <2>3, <2>7, <2>8, <2>9
<1>5. CASE EndBatch
  <2>1. /\ Running /\ kept' = kept /\ ~orphan
        /\ \/ file' = Sink(buf) /\ buf' = << >> /\ errors' = errors
           \/ errors' = errors + 1 /\ PartialFlush(buf)
    BY <1>5 DEF EndBatch, Failing
  <2>2. file' \o buf' = c
    <3>1. (file \o buf) \o << >> = file \o buf
      BY <1>0
    <3>2. QED BY <3>1, <2>1, <1>0, FlushedText DEF Sink
  <2>3. QED BY <2>1, <2>2, <1>0, <1>a, <1>b
<1>6. CASE Compact
  <2>1. /\ Running /\ kept' = kept
        /\ \/ file' = Lines(kept) /\ buf' = << >>
           \/ file' = file /\ buf' = buf /\ ~orphan /\ errors' = errors + 1
    BY <1>6 DEF Compact, Failing
  <2>2. CASE file' = Lines(kept) /\ buf' = << >>
    BY <2>1, <2>2, <1>c
  <2>3. CASE file' = file /\ buf' = buf /\ ~orphan /\ errors' = errors + 1
    BY <2>1, <2>3, <1>0, <1>a, <1>b
  <2>4. QED BY <2>1, <2>2, <2>3
<1>7. CASE WriterExit
  BY <1>7 DEF WriterExit, Running
<1>8. CASE Crash
  BY <1>8 DEF Crash, Running
<1>9. CASE UNCHANGED vars
  BY <1>9, <1>a DEF vars, memory, stats, Running
<1>10. QED
  BY <1>1, <1>2, <1>3, <1>4, <1>5, <1>6, <1>7, <1>8, <1>9 DEF Next, Writer

LEMMA LossInit == Init => OrderOK /\ FileOrder /\ LossOK
BY DEF Init, OrderOK, FileOrder, LossOK, Running, Ordered, Rising, RisingText

\* The history with the order of its messages and the cost of its errors
\* (HistoryStore::open, record, close, writer_loop).
THEOREM LossInvariance == Spec => []LossInv
<1>1. Init => LossInv
  BY InvInit, LossInit DEF LossInv
<1>2. LossInv /\ [Next]_vars => LossInv'
  BY InvNext, OrderNext, LossNext DEF LossInv, HInv
<1>3. QED BY <1>1, <1>2, PTL DEF Spec

\* A failed write costs two messages at most of those a restart should find: the
\* one written and the next one (append_record, compact_file in writer_loop).
THEOREM ErrorsCostTwoAtMost == Spec => []LossBoundedByErrors
<1>1. ASSUME LossInv, Running, ~orphan
      PROVE  Cardinality(ToSet(kept) \ ToSet(Reload(file \o buf))) <= 2 * errors
  <2> DEFINE c == file \o buf
             L == ToSet(kept) \ ToSet(Reload(c))
  <2>1. /\ kept \in Seq(Msg) /\ Len(kept) <= Capacity /\ c \in Seq(Chunk) /\ errors \in Nat
        /\ TextOK(c, queue, kept, next) /\ Cost(c, kept) <= 2 * errors
    BY <1>1 DEF LossInv, HInv, TypeOK, FileOrder, LossOK
  <2> HIDE DEF c
  <2>2. \A i \in Whole(c) : c[i].m \in ToSet(kept) => c[i].m \in ToSet(Reload(c))
    BY <2>1, SafeIsReloaded
  <2>3. L \in SUBSET Spoiled(c, kept)
    BY <2>2 DEF Spoiled, Safe
  <2>4. IsFiniteSet(Spoiled(c, kept)) /\ Cardinality(Spoiled(c, kept)) \in Nat
    BY <2>1, SpoiledFinite
  <2> HIDE DEF L
  <2>5. Cardinality(L) <= Cardinality(Spoiled(c, kept)) /\ Cardinality(L) \in Nat
    BY <2>3, <2>4, FS_Subset, FS_CardinalityType
  <2>6. Cardinality(Spoiled(c, kept)) <= Cost(c, kept) /\ Cost(c, kept) \in Nat
    BY <2>4 DEF Cost
  <2>7. Cardinality(L) <= 2 * errors
    BY <2>1, <2>4, <2>5, <2>6
  <2>8. QED BY <2>7 DEF L, c
<1>2. LossInv => LossBoundedByErrors
  BY <1>1 DEF LossBoundedByErrors
<1>3. QED BY <1>2, LossInvariance, PTL
-----------------------------------------------------------------------------
(* What a restart would reload stays until newer messages displace it. *)

\* Of whole lines in order, continued by others and perhaps by a torn one, a reload
\* loses a message only with Capacity newer ones in its place, or one less.
LEMMA OnlyNewerDisplace ==
    ASSUME NEW c \in Seq(WholeLine), NEW d \in Seq(WholeLine), RisingText(c \o d),
           NEW y, y = c \o d \/ y = Append(c \o d, [m |-> Torn, nl |-> FALSE]),
           NEW m \in ToSet(Reload(c)) \ ToSet(Reload(y))
    PROVE  Cardinality({k \in ToSet(Reload(y)) : k > m}) >= Capacity - 1
<1> DEFINE x == c \o d
           n == Len(x)
           torn == [m |-> Torn, nl |-> FALSE]
           N == Len(y)
<1>0. WholeLine \in SUBSET Chunk /\ torn \in Chunk
  BY DEF WholeLine, Chunk
<1>1. /\ c \in Seq(Chunk) /\ x \in Seq(WholeLine) /\ x \in Seq(Chunk)
      /\ Len(c) \in Nat /\ n \in Nat /\ Len(c) <= n
      /\ \A i \in 1 .. Len(c) : x[i] = c[i]
  <2>1. x \in Seq(WholeLine) /\ n = Len(c) + Len(d) /\ Len(c) \in Nat /\ Len(d) \in Nat
        /\ \A i \in 1 .. Len(c) : x[i] = c[i]
    OBVIOUS
  <2>2. \A s \in Seq(WholeLine) : s \in Seq(Chunk)
    BY <1>0
  <2> HIDE DEF x, n
  <2>3. QED BY <2>1, <2>2
<1>2. \A i \in 1 .. n : x[i].m \in Msg /\ x[i].nl
  <2> HIDE DEF x
  <2>1. QED BY <1>1, TextsType
<1> HIDE DEF x, torn
<1>3. /\ y \in Seq(Chunk) /\ N \in {n, n + 1} /\ N \in Nat
      /\ \A i \in 1 .. n : y[i] = x[i]
  <2>1. CASE y = x
    BY <2>1, <1>1
  <2>2. CASE y = Append(x, torn)
    <3>1. /\ Append(x, torn) \in Seq(Chunk) /\ Len(Append(x, torn)) = n + 1
          /\ \A i \in 1 .. n : Append(x, torn)[i] = x[i]
      BY <1>0, <1>1
    <3>2. QED BY <2>2, <3>1, <1>1
  <2>3. QED BY <2>1, <2>2 DEF x, torn
<1> HIDE DEF n, N
<1>4. Ends(y) = 1 .. N
  <2>1. ASSUME NEW i \in 1 .. N PROVE y[i].nl \/ i = N
    BY <1>1, <1>2, <1>3
  <2>2. QED BY <2>1 DEF Ends, N
<1>5. ASSUME NEW i \in 1 .. n, N - i < Capacity PROVE x[i].m \in ToSet(Reload(y))
  <2>1. i \in 1 .. N /\ i \in Nat
    BY <1>1, <1>3
  <2>2. {j \in Ends(y) : j > i} = i + 1 .. N
    BY <2>1, <1>3, <1>4
  <2>3. Cardinality(i + 1 .. N) = N - i
    BY <2>1, <1>3, FS_Interval
  <2>4. i \in TailEnds(y)
    BY <2>1, <2>2, <2>3, <1>4, <1>5 DEF TailEnds
  <2>5. y[i].m # Torn
    BY <1>2, <1>3, MsgAreNumbers
  <2>6. i = 1 \/ y[i - 1].nl
    <3>1. i = 1 \/ i - 1 \in 1 .. n
      BY <1>1
    <3>2. QED BY <3>1, <1>2, <1>3
  <2>7. i \in Good(y)
    BY <2>4, <2>5, <2>6 DEF Good, Parses
  <2>8. QED BY <2>7, <1>3, ReloadSet
<1>6. PICK i \in 1 .. n : m = x[i].m
  <2>1. ToSet(Reload(c)) = {c[i].m : i \in Good(c)} /\ Good(c) \in SUBSET (1 .. Len(c))
    BY <1>1, ReloadSet, GoodType
  <2>2. PICK i \in 1 .. Len(c) : m = c[i].m
    BY <2>1
  <2>3. i \in 1 .. n /\ m = x[i].m
    BY <2>2, <1>1
  <2>4. QED BY <2>3
<1>7. N - i >= Capacity
  BY <1>1, <1>3, <1>5, <1>6, HistoryAssumption
<1> DEFINE T == N - Capacity + 1 .. n
           K == {k \in ToSet(Reload(y)) : k > m}
<1>8. T \in SUBSET (1 .. n) /\ Cardinality(T) >= Capacity - 1
  <2>1. Cardinality(T) = IF N - Capacity + 1 > n THEN 0 ELSE n - (N - Capacity + 1) + 1
    BY <1>1, <1>3, FS_Interval, HistoryAssumption
  <2>2. N - Capacity + 1 >= 1
    BY <1>3, <1>6, <1>7, HistoryAssumption
  <2>3. T \in SUBSET (1 .. n)
    BY <2>2, <1>1, <1>3, HistoryAssumption
  <2>4. Cardinality(T) >= Capacity - 1
    <3> HIDE DEF T
    <3>1. QED BY <2>1, <1>1, <1>3, HistoryAssumption
  <2>5. QED BY <2>3, <2>4
<1>9. ASSUME NEW j \in T PROVE x[j].m # Torn /\ x[j].m \in K
  <2>1. j \in 1 .. n /\ N - j < Capacity /\ i < j
    BY <1>1, <1>3, <1>6, <1>7, <1>8, HistoryAssumption
  <2>2. x[j].m # Torn
    BY <2>1, <1>2, MsgAreNumbers
  <2>3. x[i].m < x[j].m /\ x[i].m \in Nat /\ x[j].m \in Nat
    <3>1. x[i].m < x[j].m
      BY <2>1, <2>2, <1>1, <1>6 DEF RisingText, n, x
    <3>2. QED BY <3>1, <2>1, <1>2, <1>6, MsgAreNumbers
  <2>4. x[j].m \in ToSet(Reload(y))
    BY <2>1, <1>5
  <2>5. QED BY <2>2, <2>3, <2>4, <1>6
<1>10. IsFiniteSet(K) /\ Cardinality(K) \in Nat
  <2>1. IsFiniteSet(ToSet(Reload(y)))
    BY <1>3, ReloadType, ToSetFinite
  <2>2. QED BY <2>1, FS_Subset, FS_CardinalityType
<1>11. Cardinality(T) <= Cardinality(K) /\ IsFiniteSet(T)
  <2> HIDE DEF T, K
  <2>1. RisingText(x)
    BY DEF x
  <2>2. QED BY <2>1, <1>1, <1>8, <1>9, <1>10, AsManyMessages DEF n
<1>12. Cardinality(T) \in Nat
  BY <1>11, FS_CardinalityType
<1> HIDE DEF T
<1>13. Cardinality(K) >= Capacity - 1
  <2> HIDE DEF K
  <2>1. QED BY <1>8, <1>10, <1>11, <1>12, HistoryAssumption
<1>14. QED BY <1>13

\* What writes the buffer, or a part of it, in order.
LEMMA FileContinued ==
    ASSUME TypeOK, ~orphan, buf \in Seq(WholeLine),
           \/ file' = Sink(buf)
           \/ PartialFlush(buf)
           \/ \E m \in Msg : PartialFlush(Append(buf, [m |-> m, nl |-> FALSE]))
           \/ WriteCutShort
    PROVE  \E k \in 0 .. Len(buf) :
              \/ file' = file \o SubSeq(buf, 1, k)
              \/ file' = Append(file \o SubSeq(buf, 1, k), [m |-> Torn, nl |-> FALSE])
<1>1. file \in Seq(Chunk) /\ buf \in Seq(Chunk) /\ Len(buf) \in Nat
  BY DEF TypeOK
<1>2. CASE file' = Sink(buf)
  <2>1. SubSeq(buf, 1, Len(buf)) = buf /\ Len(buf) \in 0 .. Len(buf)
    BY <1>1, SubSeqFull
  <2>2. QED BY <2>1, <1>2 DEF Sink
<1>3. CASE PartialFlush(buf)
  <2>1. PICK k \in 0 .. Len(buf) - 1 : file' = Sink(SubSeq(buf, 1, k))
    BY <1>3 DEF PartialFlush
  <2>2. k \in 0 .. Len(buf)
    BY <2>1, <1>1
  <2>3. QED BY <2>1, <2>2 DEF Sink
<1>4. CASE \E m \in Msg : PartialFlush(Append(buf, [m |-> m, nl |-> FALSE]))
  <2>1. PICK m \in Msg : PartialFlush(Append(buf, [m |-> m, nl |-> FALSE]))
    BY <1>4
  <2> DEFINE half == [m |-> m, nl |-> FALSE]
             b == Append(buf, half)
  <2>2. half \in Chunk
    BY DEF Chunk
  <2> HIDE DEF half
  <2>3. /\ b \in Seq(Chunk) /\ Len(b) = Len(buf) + 1
        /\ \A i \in 1 .. Len(buf) : b[i] = buf[i]
    BY <1>1, <2>2
  <2>4. PICK k \in 0 .. Len(b) - 1 : file' = Sink(SubSeq(b, 1, k))
    BY <2>1 DEF PartialFlush, half
  <2>5. k \in 0 .. Len(buf) /\ k \in Nat
    BY <2>3, <2>4, <1>1
  <2>6. SubSeq(b, 1, k) = SubSeq(buf, 1, k)
    <3>1. \A i \in 1 .. k : b[i] = buf[i] /\ b[i] \in Chunk /\ buf[i] \in Chunk
      <4>1. ASSUME NEW i \in 1 .. k PROVE i \in 1 .. Len(buf)
        BY <2>5, <1>1
      <4>2. \A i \in 1 .. Len(buf) : buf[i] \in Chunk
        BY <1>1, ElementOfSeq
      <4>3. QED BY <4>1, <4>2, <2>3
    <3> HIDE DEF b
    <3>2. QED BY <3>1, <2>5
  <2>7. QED BY <2>4, <2>5, <2>6 DEF Sink
<1>5. CASE WriteCutShort
  <2>1. PICK k \in 0 .. Len(buf) :
          \/ file' = Sink(SubSeq(buf, 1, k))
          \/ file' = Sink(Append(SubSeq(buf, 1, k), [m |-> Torn, nl |-> FALSE]))
    BY <1>5 DEF WriteCutShort
  <2>2. [m |-> Torn, nl |-> FALSE] \in Chunk
    BY DEF Chunk
  <2>3. SubSeq(buf, 1, k) \in Seq(Chunk)
    <3>1. \A i \in 1 .. Len(buf) : buf[i] \in Chunk
      BY <1>1, ElementOfSeq
    <3>2. QED BY <3>1, <2>1, <1>1, SubSeqProperties
  <2>4. file \o Append(SubSeq(buf, 1, k), [m |-> Torn, nl |-> FALSE])
          = Append(file \o SubSeq(buf, 1, k), [m |-> Torn, nl |-> FALSE])
    BY <2>2, <2>3, <1>1, SeqEqual
  <2>5. QED BY <2>1, <2>4 DEF Sink
<1>6. QED BY <1>2, <1>3, <1>4, <1>5

\* A flush, a compaction, a crash or a restart takes from a reload only what newer
\* messages displace, but for the one place a torn line may take (append_record,
\* compact_file, load_persisted).
THEOREM ReloadsLoseNothing == Spec => NoDurableLoss
<1>1. ASSUME LossInv, [Next]_vars, file' # file,
             NEW m \in ToSet(Reload(file)) \ ToSet(Reload(file')), ~(errors > 0)
      PROVE  Cardinality({n \in ToSet(Reload(file')) : n > m}) >= Capacity - 1
  <2>1. TypeOK /\ ThreadOK /\ FileSound /\ FileOrder /\ errors = 0
    BY <1>1 DEF LossInv, HInv, TypeOK
  <2>2. ASSUME Running
        PROVE  /\ ~orphan /\ file \in Seq(WholeLine) /\ buf \in Seq(WholeLine)
               /\ Newest(Texts(file \o buf)) = kept
               /\ pc # "batch" => buf = << >>
    BY <2>1, <2>2 DEF FileSound, HasProcess, Running
  <2>3. ASSUME Running,
               \/ file' = Sink(buf)
               \/ PartialFlush(buf)
               \/ \E x \in Msg : PartialFlush(Append(buf, [m |-> x, nl |-> FALSE]))
               \/ WriteCutShort
        PROVE  Cardinality({n \in ToSet(Reload(file')) : n > m}) >= Capacity - 1
    <3>1. PICK k \in 0 .. Len(buf) :
            \/ file' = file \o SubSeq(buf, 1, k)
            \/ file' = Append(file \o SubSeq(buf, 1, k), [m |-> Torn, nl |-> FALSE])
      BY <2>1, <2>2, <2>3, FileContinued
    <3> DEFINE d == SubSeq(buf, 1, k)
    <3>2. d \in Seq(WholeLine)
      <4>1. buf \in Seq(WholeLine) /\ Len(buf) \in Nat /\ k \in 0 .. Len(buf)
        BY <2>2, <2>3, <3>1
      <4>2. \A i \in 1 .. Len(buf) : buf[i] \in WholeLine
        BY <4>1, ElementOfSeq
      <4>3. QED BY <4>1, <4>2, SubSeqProperties
    <3>3. RisingText(file \o d)
      BY <2>1, <2>2, <2>3, <3>1, FrontOfText
    <3> HIDE DEF d
    <3>4. file' = file \o d \/ file' = Append(file \o d, [m |-> Torn, nl |-> FALSE])
      BY <3>1 DEF d
    <3>5. QED BY <3>2, <3>3, <3>4, <2>2, <2>3, OnlyNewerDisplace
  <2>4. CASE Open
    <3>1. Reload(file) \in Seq(Msg) /\ Len(Reload(file)) <= Capacity
      BY <2>1, ReloadType DEF TypeOK
    <3>2. Reload(file') = Reload(file)
      BY <3>1, <2>4, ReloadLines DEF Open
    <3>3. QED BY <3>2
  <2>5. CASE Record
    BY <2>5, <1>1 DEF Record
  <2>6. CASE Close
    BY <2>6, <1>1 DEF Close
  <2>7. CASE WriteNext
    <3>1. Running /\ Head(queue) \in Msg /\ (WriteOk(Head(queue)) \/ WriteFails(Head(queue)))
      BY <2>1, <2>7 DEF WriteNext, TypeOK
    <3>2. QED BY <3>1, <2>3, <1>1 DEF WriteOk, WriteFails
  <2>8. CASE EndBatch
    BY <2>3, <2>8 DEF EndBatch
  <2>9. CASE Compact
    <3>1. Running /\ buf = << >> /\ file' = Lines(kept)
      BY <1>1, <2>2, <2>9 DEF Compact
    <3>2. kept \in Seq(Msg) /\ Len(kept) <= Capacity
      BY <2>1 DEF TypeOK
    <3>3. Reload(file') = kept
      BY <3>1, <3>2, ReloadLines
    <3>4. Reload(file) = kept
      <4>1. file \o buf = file
        BY <2>2, <3>1
      <4>2. QED BY <4>1, <2>2, <3>1, ReloadWhole
    <3>5. QED BY <3>3, <3>4
  <2>10. CASE WriterExit
    BY <2>3, <2>10 DEF WriterExit, Running
  <2>11. CASE Crash
    BY <2>3, <2>11 DEF Crash
  <2>12. CASE UNCHANGED vars
    BY <2>12, <1>1 DEF vars
  <2>13. QED
    BY <1>1, <2>4, <2>5, <2>6, <2>7, <2>8, <2>9, <2>10, <2>11, <2>12 DEF Next, Writer
<1>2. LossInv /\ [Next]_vars
        => [\A m \in ToSet(Reload(file)) \ ToSet(Reload(file')) :
              errors > 0 \/ Cardinality({n \in ToSet(Reload(file')) : n > m}) >= Capacity - 1]_file
  BY <1>1
<1>3. QED BY <1>2, LossInvariance, PTL DEF Spec, NoDurableLoss
=============================================================================

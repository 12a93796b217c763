----------------------------- MODULE TmLinkProofs -----------------------------
(* Octets of two packets never meet, for every layout, channel and fault.      *)
EXTENDS TmLink, FiniteSetTheorems, WellFoundedInduction, TLAPS

-----------------------------------------------------------------------------
(* Counters that wrap. *)

LEMMA ModType ==
    ASSUME NEW a \in Int
    PROVE  a % Modulus \in 0 .. Modulus - 1
BY FormatAssumption

LEMMA ModIs ==
    ASSUME NEW a \in Int, NEW q \in Int, NEW r \in 0 .. Modulus - 1, a = Modulus * q + r
    PROVE  a % Modulus = r
<1> DEFINE d == a \div Modulus
           s == a % Modulus
<1>1. s \in 0 .. Modulus - 1 /\ a = Modulus * d + s /\ d \in Int
  BY ModType, FormatAssumption
<1>2. Modulus * (d - q) = r - s
  BY <1>1, FormatAssumption
<1>3. ~(d - q >= 1)
  <2> SUFFICES ASSUME d - q >= 1 PROVE FALSE
    OBVIOUS
  <2>1. Modulus * (d - q) >= Modulus
    BY <1>1, FormatAssumption
  <2>2. QED BY <1>1, <1>2, <2>1, FormatAssumption
<1>4. ~(d - q <= -1)
  <2> SUFFICES ASSUME d - q <= -1 PROVE FALSE
    OBVIOUS
  <2>1. Modulus * (d - q) <= -Modulus
    BY <1>1, FormatAssumption
  <2>2. QED BY <1>1, <1>2, <2>1, FormatAssumption
<1>5. d = q
  BY <1>1, <1>3, <1>4
<1>6. QED BY <1>1, <1>2, <1>5, FormatAssumption

LEMMA SuccessorOfCount ==
    ASSUME NEW n \in Nat
    PROVE  Successor(n % Modulus) = (n + 1) % Modulus
<1> DEFINE q == n \div Modulus
           r == n % Modulus
<1>1. n = Modulus * q + r /\ q \in Int /\ r \in 0 .. Modulus - 1
  BY ModType, FormatAssumption
<1> HIDE DEF q, r
<1>2. CASE r + 1 < Modulus
  <2>1. n + 1 = Modulus * q + (r + 1)
    BY <1>1, FormatAssumption
  <2>2. (n + 1) % Modulus = r + 1
    BY <1>1, <1>2, <2>1, FormatAssumption, ModIs
  <2>3. (r + 1) % Modulus = r + 1
    BY <1>1, <1>2, FormatAssumption
  <2>4. QED BY <2>2, <2>3 DEF r, Successor
<1>3. CASE r + 1 = Modulus
  <2>1. n + 1 = Modulus * (q + 1) + 0
    BY <1>1, <1>3, FormatAssumption
  <2>2. (n + 1) % Modulus = 0
    BY <1>1, <1>3, <2>1, FormatAssumption, ModIs
  <2>3. (r + 1) % Modulus = 0
    BY <1>1, <1>3, FormatAssumption
  <2>4. QED BY <2>2, <2>3 DEF r, Successor
<1>4. QED BY <1>1, <1>2, <1>3, FormatAssumption

LEMMA SuccessorType ==
    ASSUME NEW n \in Nat
    PROVE  Successor(n) \in Nat
<1>1. n + 1 \in Int
  OBVIOUS
<1>2. (n + 1) % Modulus \in 0 .. Modulus - 1
  BY <1>1, ModType
<1>3. QED BY <1>2, FormatAssumption DEF Successor

\* Within the window, equal counts are the same frame.
LEMMA CountTells ==
    ASSUME NEW a \in Nat, NEW b \in Nat, a % Modulus = b % Modulus,
           a - b < Modulus, b - a < Modulus
    PROVE  a = b
<1> DEFINE d == a \div Modulus
           e == b \div Modulus
<1>1. /\ a = Modulus * d + (a % Modulus) /\ d \in Int
      /\ b = Modulus * e + (b % Modulus) /\ e \in Int
  BY FormatAssumption
<1>2. a % Modulus \in Int /\ b % Modulus \in Int
  BY ModType
<1> HIDE DEF d, e
<1>3. Modulus * (d - e) = a - b
  BY <1>1, <1>2, FormatAssumption
<1>4. ~(d - e >= 1)
  <2> SUFFICES ASSUME d - e >= 1 PROVE FALSE
    OBVIOUS
  <2>1. Modulus * (d - e) >= Modulus
    BY <1>1, FormatAssumption
  <2>2. QED BY <1>1, <1>3, <2>1, FormatAssumption
<1>5. ~(d - e <= -1)
  <2> SUFFICES ASSUME d - e <= -1 PROVE FALSE
    OBVIOUS
  <2>1. Modulus * (d - e) <= -Modulus
    BY <1>1, FormatAssumption
  <2>2. QED BY <1>1, <1>3, <2>1, FormatAssumption
<1>6. d = e
  BY <1>1, <1>4, <1>5
<1>7. QED BY <1>1, <1>6

LEMMA LeastNumber ==
    ASSUME NEW S \in SUBSET Nat, S # {}
    PROVE  \E n \in S : \A k \in S : n <= k
<1> DEFINE R == OpToRel(<, Nat)
<1>1. IsWellFoundedOn(R, Nat)
  BY NatLessThanWellFounded
<1>2. \A x, y \in Nat : x < y => <<x, y>> \in R
  BY DEF OpToRel
<1> HIDE DEF R
<1>3. PICK n \in S : \A k \in S : <<k, n>> \notin R
  BY <1>1, WFMin
<1>4. \A k \in S : ~(k < n)
  BY <1>2, <1>3
<1>5. QED BY <1>4

-----------------------------------------------------------------------------
(* Stretches of a channel's octets. *)

\* s is what follows the first a octets of S.
Piece(S, s, a) ==
    /\ s \in Seq(Octet) /\ a \in Nat /\ a + Len(s) <= Len(S)
    /\ \A i \in 1 .. Len(s) : s[i] = S[a + i]

\* The octets of one channel are whole packets, one after the other.
Whole(S) ==
    /\ S \in Seq(Octet)
    /\ \A i \in 1 .. Len(S) :
        LET p == S[i].pkt
            k == S[i].at
        IN /\ p.len > HdrLen /\ k < p.len /\ k < i /\ i - k + p.len - 1 <= Len(S)
           /\ \A j \in 0 .. p.len - 1 : S[i - k + j] = [pkt |-> p, at |-> j]

\* A packet starts behind the first a octets, or none has started there yet.
Boundary(S, a) == a \in 0 .. Len(S) /\ (a < Len(S) => S[a + 1].at = 0)

LEMMA OctetParts ==
    ASSUME NEW o \in Octet
    PROVE  o.pkt \in Packet /\ o.at \in Nat /\ o.pkt.len \in Nat
BY DEF Octet, Packet

LEMMA PieceEmpty ==
    ASSUME NEW S \in Seq(Octet), NEW a \in 0 .. Len(S)
    PROVE  Piece(S, <<>>, a)
BY DEF Piece

LEMMA PieceJoin ==
    ASSUME NEW S \in Seq(Octet), NEW s, NEW t, NEW a, Piece(S, s, a), Piece(S, t, a + Len(s))
    PROVE  Piece(S, s \o t, a) /\ Len(s \o t) = Len(s) + Len(t)
<1>1. s \in Seq(Octet) /\ t \in Seq(Octet) /\ a \in Nat
  BY DEF Piece
<1>2. s \o t \in Seq(Octet) /\ Len(s \o t) = Len(s) + Len(t)
  BY <1>1
<1>3. \A i \in 1 .. Len(s) + Len(t) :
        (s \o t)[i] = IF i <= Len(s) THEN s[i] ELSE t[i - Len(s)]
  BY <1>1
<1>4. \A i \in 1 .. Len(s) + Len(t) : (s \o t)[i] = S[a + i]
  <2> SUFFICES ASSUME NEW i \in 1 .. Len(s) + Len(t) PROVE (s \o t)[i] = S[a + i]
    OBVIOUS
  <2>1. CASE i <= Len(s)
    <3>1. i \in 1 .. Len(s)
      BY <1>1, <2>1
    <3>2. QED BY <1>3, <2>1, <3>1 DEF Piece
  <2>2. CASE ~(i <= Len(s))
    <3>1. i - Len(s) \in 1 .. Len(t) /\ (a + Len(s)) + (i - Len(s)) = a + i
      BY <1>1, <2>2
    <3>2. t[i - Len(s)] = S[(a + Len(s)) + (i - Len(s))]
      BY <3>1 DEF Piece
    <3>3. QED BY <1>3, <2>2, <3>1, <3>2
  <2>3. QED BY <2>1, <2>2
<1>5. a + (Len(s) + Len(t)) <= Len(S)
  BY <1>1 DEF Piece
<1> DEFINE u == s \o t
<1> HIDE DEF u
<1>6. Piece(S, u, a)
  BY <1>1, <1>2, <1>4, <1>5 DEF Piece, u
<1>7. QED BY <1>2, <1>6 DEF u

LEMMA PieceCut ==
    ASSUME NEW S \in Seq(Octet), NEW s, NEW a, Piece(S, s, a),
           NEW m \in Nat, NEW n \in Nat, m <= n, n <= Len(s)
    PROVE  Piece(S, SubSeq(s, m + 1, n), a + m) /\ Len(SubSeq(s, m + 1, n)) = n - m
<1> DEFINE u == SubSeq(s, m + 1, n)
<1>1. s \in Seq(Octet) /\ a \in Nat
  BY DEF Piece
<1>2. u \in Seq(Octet) /\ Len(u) = n - m /\ \A i \in 1 .. n - m : u[i] = s[m + i]
  BY <1>1
<1> HIDE DEF u
<1>3. \A i \in 1 .. n - m : u[i] = S[(a + m) + i]
  <2> SUFFICES ASSUME NEW i \in 1 .. n - m PROVE u[i] = S[(a + m) + i]
    OBVIOUS
  <2>1. m + i \in 1 .. Len(s) /\ a + (m + i) = (a + m) + i
    BY <1>1
  <2>2. QED BY <1>2, <2>1 DEF Piece
<1>4. (a + m) + (n - m) <= Len(S)
  BY <1>1 DEF Piece
<1>5. QED BY <1>1, <1>2, <1>3, <1>4 DEF Piece, u

LEMMA PieceStays ==
    ASSUME NEW S \in Seq(Octet), NEW T \in Seq(Octet), NEW s, NEW a, Piece(S, s, a)
    PROVE  Piece(S \o T, s, a)
<1>1. Len(S \o T) = Len(S) + Len(T) /\ \A i \in 1 .. Len(S) : (S \o T)[i] = S[i]
  OBVIOUS
<1>2. \A i \in 1 .. Len(s) : a + i \in 1 .. Len(S)
  BY DEF Piece
<1>3. QED BY <1>1, <1>2 DEF Piece

LEMMA BoundaryStays ==
    ASSUME NEW S \in Seq(Octet), NEW T \in Seq(Octet), T # <<>> => T[1].at = 0,
           NEW a, Boundary(S, a)
    PROVE  Boundary(S \o T, a)
<1>1. /\ Len(S \o T) = Len(S) + Len(T)
      /\ \A i \in 1 .. Len(S) + Len(T) :
            (S \o T)[i] = IF i <= Len(S) THEN S[i] ELSE T[i - Len(S)]
  OBVIOUS
<1>2. a \in 0 .. Len(S) /\ Len(S) \in Nat /\ Len(T) \in Nat
  BY DEF Boundary
<1>3. CASE a < Len(S)
  <2>1. (S \o T)[a + 1] = S[a + 1]
    BY <1>1, <1>2, <1>3
  <2>2. QED BY <1>1, <1>2, <1>3, <2>1 DEF Boundary
<1>4. CASE a = Len(S) /\ T # <<>>
  <2>1. Len(T) > 0
    BY <1>4
  <2>2. (S \o T)[a + 1] = T[1]
    BY <1>1, <1>2, <1>4, <2>1
  <2>3. QED BY <1>1, <1>2, <1>4, <2>2 DEF Boundary
<1>5. CASE a = Len(S) /\ T = <<>>
  BY <1>1, <1>2, <1>5 DEF Boundary
<1>6. QED BY <1>2, <1>3, <1>4, <1>5

LEMMA OctetsType ==
    ASSUME NEW p \in Packet
    PROVE  /\ Octets(p) \in Seq(Octet) /\ Len(Octets(p)) = p.len
           /\ \A i \in 1 .. p.len : Octets(p)[i] = [pkt |-> p, at |-> i - 1]
<1>1. p.len \in Nat
  BY DEF Packet
<1>2. \A i \in 1 .. p.len : [pkt |-> p, at |-> i - 1] \in Octet
  BY <1>1 DEF Octet
<1>3. QED BY <1>1, <1>2 DEF Octets

\* A packet more.
LEMMA WholeGrows ==
    ASSUME NEW S, Whole(S), NEW p \in Packet, p.len > HdrLen
    PROVE  Whole(S \o Octets(p))
<1> DEFINE T == Octets(p)
           U == S \o T
<1>1. /\ S \in Seq(Octet) /\ T \in Seq(Octet) /\ Len(T) = p.len /\ p.len \in Nat
      /\ \A i \in 1 .. p.len : T[i] = [pkt |-> p, at |-> i - 1]
  BY OctetsType DEF Whole, Packet
<1> HIDE DEF T
<1>2. /\ U \in Seq(Octet) /\ Len(U) = Len(S) + p.len /\ Len(S) \in Nat
      /\ \A i \in 1 .. Len(S) + p.len : U[i] = IF i <= Len(S) THEN S[i] ELSE T[i - Len(S)]
  BY <1>1, SMTT(30)
<1> HIDE DEF U
<1>3. ASSUME NEW i \in 1 .. Len(U)
      PROVE  LET q == U[i].pkt
                 k == U[i].at
             IN /\ q.len > HdrLen /\ k < q.len /\ k < i /\ i - k + q.len - 1 <= Len(U)
                /\ \A j \in 0 .. q.len - 1 : U[i - k + j] = [pkt |-> q, at |-> j]
  <2> DEFINE q == U[i].pkt
             k == U[i].at
  <2>1. U[i] \in Octet /\ k \in Nat /\ q.len \in Nat
    BY <1>2, <1>3, OctetParts
  <2>2. CASE i <= Len(S)
    <3>1. U[i] = S[i] /\ i \in 1 .. Len(S)
      BY <1>2, <2>2
    <3>2. /\ q.len > HdrLen /\ k < q.len /\ k < i /\ i - k + q.len - 1 <= Len(S)
          /\ \A j \in 0 .. q.len - 1 : S[i - k + j] = [pkt |-> q, at |-> j]
      BY <3>1 DEF Whole
    <3> HIDE DEF q, k
    <3>3. \A j \in 0 .. q.len - 1 : i - k + j \in 1 .. Len(S)
      BY <1>2, <2>1, <3>1, <3>2
    <3>4. \A j \in 0 .. q.len - 1 : U[i - k + j] = S[i - k + j]
      <4> SUFFICES ASSUME NEW j \in 0 .. q.len - 1 PROVE U[i - k + j] = S[i - k + j]
        OBVIOUS
      <4>1. i - k + j \in 1 .. Len(S)
        BY <3>3
      <4>2. i - k + j \in 1 .. Len(S) + p.len /\ i - k + j <= Len(S)
        BY <1>1, <1>2, <4>1
      <4>3. QED BY <1>2, <4>2
    <3>5. i - k + q.len - 1 <= Len(U)
      BY <1>1, <1>2, <2>1, <3>2, SMTT(30)
    <3>6. QED BY <3>2, <3>4, <3>5 DEF q, k
  <2>3. CASE ~(i <= Len(S))
    <3>1. i - Len(S) \in 1 .. p.len /\ U[i] = T[i - Len(S)]
      BY <1>1, <1>2, <2>3
    <3>2. q = p /\ k = i - Len(S) - 1
      <4>1. T[i - Len(S)] = [pkt |-> p, at |-> (i - Len(S)) - 1]
        BY <1>1, <3>1
      <4>2. QED BY <3>1, <4>1
    <3> HIDE DEF q, k
    <3>3. /\ q.len > HdrLen /\ k < q.len /\ k < i /\ i - k + q.len - 1 <= Len(U)
      BY <1>1, <1>2, <3>1, <3>2, SMTT(30)
    <3>4. \A j \in 0 .. q.len - 1 :
             i - k + j = Len(S) + (j + 1) /\ j + 1 \in 1 .. p.len
      BY <1>1, <1>2, <3>1, <3>2
    <3>5. \A j \in 0 .. q.len - 1 : U[i - k + j] = T[j + 1]
      <4> SUFFICES ASSUME NEW j \in 0 .. q.len - 1 PROVE U[i - k + j] = T[j + 1]
        OBVIOUS
      <4>1. Len(S) + (j + 1) \in 1 .. Len(S) + p.len /\ ~(Len(S) + (j + 1) <= Len(S))
            /\ Len(S) + (j + 1) - Len(S) = j + 1
        BY <1>1, <1>2, <3>2, SMTT(30)
      <4>2. QED BY <1>2, <3>4, <4>1
    <3>6. \A j \in 0 .. q.len - 1 : T[j + 1] = [pkt |-> q, at |-> j]
      <4> SUFFICES ASSUME NEW j \in 0 .. q.len - 1 PROVE T[j + 1] = [pkt |-> q, at |-> j]
        OBVIOUS
      <4>1. T[j + 1] = [pkt |-> p, at |-> (j + 1) - 1] /\ (j + 1) - 1 = j
        BY <1>1, <3>4
      <4>2. QED BY <3>2, <4>1
    <3>7. QED BY <3>3, <3>5, <3>6 DEF q, k
  <2>4. QED BY <2>2, <2>3
<1>4. QED BY <1>2, <1>3 DEF Whole, U, T

\* From one boundary to the next: a whole packet.
LEMMA WholePacket ==
    ASSUME NEW S, Whole(S), NEW a, Boundary(S, a), a < Len(S)
    PROVE  LET p == S[a + 1].pkt IN
           /\ p \in Packet /\ p.len > HdrLen /\ a + p.len <= Len(S)
           /\ \A j \in 0 .. p.len - 1 : S[a + 1 + j] = [pkt |-> p, at |-> j]
           /\ Boundary(S, a + p.len)
<1> DEFINE p == S[a + 1].pkt
<1>1. S \in Seq(Octet) /\ a \in Nat /\ a + 1 \in 1 .. Len(S) /\ S[a + 1].at = 0
  BY DEF Whole, Boundary
<1>2. S[a + 1] \in Octet /\ p \in Packet /\ p.len \in Nat
  <2>1. S[a + 1] \in Octet
    BY <1>1
  <2>2. QED BY <2>1, OctetParts
<1>3. /\ p.len > HdrLen /\ a + 1 - 0 + p.len - 1 <= Len(S)
      /\ \A j \in 0 .. p.len - 1 : S[a + 1 - 0 + j] = [pkt |-> p, at |-> j]
  BY <1>1 DEF Whole
<1>4. a + p.len <= Len(S) /\ p.len > 0
  BY <1>1, <1>2, <1>3, FormatAssumption
<1>5. \A j \in 0 .. p.len - 1 : S[a + 1 + j] = [pkt |-> p, at |-> j]
  BY <1>1, <1>3
<1>6. Boundary(S, a + p.len)
  <2> SUFFICES ASSUME a + p.len < Len(S) PROVE S[a + p.len + 1].at = 0
    BY <1>1, <1>2, <1>4 DEF Boundary
  <2> DEFINE i == a + p.len + 1
             q == S[i].pkt
             k == S[i].at
  <2>1. i \in 1 .. Len(S) /\ S[i] \in Octet /\ k \in Nat /\ q.len \in Nat
    <3>1. i \in 1 .. Len(S)
      BY <1>1, <1>2
    <3> HIDE DEF i
    <3>2. S[i] \in Octet
      BY <1>1, <3>1
    <3>3. QED BY <3>1, <3>2, OctetParts
  <2>2. /\ k < q.len
        /\ \A j \in 0 .. q.len - 1 : S[i - k + j] = [pkt |-> q, at |-> j]
    BY <2>1 DEF Whole
  <2>3. S[a + 1 + (p.len - 1)] = [pkt |-> p, at |-> p.len - 1]
    BY <1>2, <1>4, <1>5
  <2>4. ASSUME k # 0 PROVE FALSE
    <3>1. k - 1 \in 0 .. q.len - 1 /\ i - k + (k - 1) = a + 1 + (p.len - 1)
      <4>1. k \in Nat /\ k # 0 /\ k < q.len /\ q.len \in Nat
        BY <2>1, <2>2, <2>4
      <4> HIDE DEF k, q
      <4>2. k - 1 \in 0 .. q.len - 1
        BY <4>1
      <4>3. i = a + p.len + 1 /\ a \in Nat /\ p.len \in Nat
        BY <1>1, <1>2
      <4> HIDE DEF i, p
      <4>4. i - k + (k - 1) = a + 1 + (p.len - 1)
        BY <4>1, <4>3, SMTT(30)
      <4>5. QED BY <4>2, <4>4
    <3>2. S[i - k + (k - 1)] = [pkt |-> q, at |-> k - 1]
      BY <2>2, <3>1
    <3> HIDE DEF i, q, k, p
    <3>3. q = p /\ k - 1 = p.len - 1
      BY <2>3, <3>1, <3>2
    <3>4. QED BY <1>2, <2>1, <2>2, <3>3
  <2>5. QED BY <2>4
<1>7. QED BY <1>2, <1>3, <1>4, <1>5, <1>6
-----------------------------------------------------------------------------
(***************************************************************************)
(* The inductive invariant.  It is of links whose pointers arrive as they  *)
(* were sent.                                                              *)
(***************************************************************************)

\* What is queued is the end of what was packed, and every start is one.
SenderOK ==
    /\ queued \in [VCs -> Seq(Octet)] /\ stream \in [VCs -> Seq(Octet)]
    /\ starts \in [VCs -> Seq(Nat)]
    /\ emitted \in [VCs -> Nat] /\ packets \in [VCs -> Nat] /\ seqs \in [VCs -> Nat]
    /\ frameCount \in [VCs -> Nat] /\ mcCount \in Nat
    /\ \A v \in VCs :
        /\ Whole(stream[v])
        /\ Piece(stream[v], queued[v], emitted[v])
        /\ emitted[v] + Len(queued[v]) = Len(stream[v])
        /\ \A i \in DOMAIN starts[v] :
              starts[v][i] < Len(stream[v]) /\ stream[v][starts[v][i] + 1].at = 0
        /\ frameCount[v] = seqs[v] % Modulus

\* A frame carries a stretch of its channel and points at a start.
FrameOK(f) ==
    /\ f \in Frame
    /\ f.count = f.seq % Modulus /\ f.seq < seqs[f.vc]
    /\ Piece(stream[f.vc], f.data, f.from)
    /\ f.from + Len(f.data) <= emitted[f.vc]
    /\ f.seq + 1 = seqs[f.vc] => f.from + Len(f.data) = emitted[f.vc]
    /\ f.fhp < Len(f.data) => stream[f.vc][f.from + f.fhp + 1].at = 0
    /\ f.fhp = OnlyIdle => f.data = <<>>

Follows(f, g) == f.vc = g.vc /\ g.seq = f.seq + 1 => g.from = f.from + Len(f.data)

\* The frames that still count: under way, or the last taken.
Known == ToSet(channel) \cup ({lastFrame[v] : v \in VCs} \ {None})

FramesOK ==
    /\ channel \in Seq(Frame)
    /\ lastFrame \in [VCs -> Frame \cup {None}]
    /\ \A v \in VCs : lastFrame[v] # None => lastFrame[v].vc = v
    /\ \A f \in Known : FrameOK(f)
    /\ \A f, g \in Known : Follows(f, g)

\* Where the last frame taken ends, and how far a channel's octets were looked at.
End(v) == lastFrame[v].from + Len(lastFrame[v].data)
Mark(v) == IF pc = "finish" /\ cur = v THEN End(v) - Len(rest) ELSE End(v)

\* What is pending starts with a packet and ends with what came last.
AtPacket(v) ==
    \E a \in Nat :
        /\ Piece(stream[v], pending[v], a) /\ Boundary(stream[v], a)
        /\ a + Len(pending[v]) = Mark(v)

ReceiverTypes ==
    /\ pc \in {"ready", "finish", "last"} /\ rest \in Seq(Octet)
    /\ pending \in [VCs -> Seq(Octet)] /\ inSync \in [VCs -> BOOLEAN]
    /\ lastCount \in [VCs -> Nat \cup {None}]
    /\ delivered \in [VCs -> Seq(Seq(Octet))]

ReceiverOK ==
    /\ ReceiverTypes
    /\ \A v \in VCs :
        /\ lastCount[v] = IF lastFrame[v] = None THEN None ELSE lastFrame[v].count
        /\ inSync[v] => lastFrame[v] # None /\ AtPacket(v)
        /\ ~inSync[v] => pending[v] = <<>>
    /\ pc # "ready" => cur \in VCs /\ lastFrame[cur] # None
    /\ pc = "finish" =>
        /\ Piece(stream[cur], rest, End(cur) - Len(rest))
        /\ Boundary(stream[cur], End(cur) - Len(rest))

\* What was emitted is a packet of its channel.
Genuine(v, s) == s = Octets(s[1].pkt) /\ s[1] \in ToSet(stream[v]) /\ ~s[1].pkt.idle
DeliveredOK == \A v \in VCs : \A s \in ToSet(delivered[v]) : Genuine(v, s)

LInv == SenderOK /\ FramesOK /\ ReceiverOK /\ DeliveredOK
Protected == ~scene.unprotected

-----------------------------------------------------------------------------
(* The sender. *)

LEMMA RemoveAtType ==
    ASSUME NEW S, NEW s \in Seq(S), NEW i \in 1 .. Len(s)
    PROVE  RemoveAt(s, i) \in Seq(S) /\ ToSet(RemoveAt(s, i)) \subseteq ToSet(s)
<1> DEFINE a == SubSeq(s, 1, i - 1)
           b == SubSeq(s, i + 1, Len(s))
<1>1. /\ a \in Seq(S) /\ Len(a) = i - 1 /\ \A k \in 1 .. Len(a) : a[k] = s[k]
      /\ b \in Seq(S) /\ Len(b) = Len(s) - i /\ \A k \in 1 .. Len(b) : b[k] = s[i + k]
  OBVIOUS
<1>2. RemoveAt(s, i) = a \o b
  BY DEF RemoveAt
<1> HIDE DEF a, b
<1>3. /\ a \o b \in Seq(S) /\ DOMAIN (a \o b) = 1 .. Len(a) + Len(b)
      /\ \A k \in 1 .. Len(a) + Len(b) :
            (a \o b)[k] = IF k <= Len(a) THEN a[k] ELSE b[k - Len(a)]
  <2>1. a \in Seq(S) /\ b \in Seq(S)
    BY <1>1
  <2>2. a \o b \in Seq(S) /\ Len(a \o b) = Len(a) + Len(b)
    BY <2>1
  <2>3. QED BY <2>1, <2>2
<1>4. \A k \in 1 .. Len(a) + Len(b) : (a \o b)[k] \in ToSet(s)
  <2> SUFFICES ASSUME NEW k \in 1 .. Len(a) + Len(b)
               PROVE  \E n \in 1 .. Len(s) : (a \o b)[k] = s[n]
    BY DEF ToSet
  <2>1. CASE k <= Len(a)
    BY <1>1, <1>3, <2>1
  <2>2. CASE ~(k <= Len(a))
    <3>1. k - Len(a) \in 1 .. Len(b) /\ i + (k - Len(a)) \in 1 .. Len(s)
      BY <1>1, <2>2
    <3>2. QED BY <1>1, <1>3, <2>2, <3>1
  <2>3. QED BY <2>1, <2>2
<1>5. QED BY <1>2, <1>3, <1>4 DEF ToSet

\* What a start says stays true.
LEMMA StartStays ==
    ASSUME NEW S \in Seq(Octet), NEW T \in Seq(Octet), NEW n \in 1 .. Len(S)
    PROVE  (S \o T)[n] = S[n] /\ Len(S \o T) = Len(S) + Len(T)
OBVIOUS

\* A packet is queued behind the others.
LEMMA QueueKeepsSender ==
    ASSUME SenderOK, NEW v \in VCs, NEW len \in Nat, len > HdrLen, NEW idle \in BOOLEAN,
           Queue(v, len, idle)
    PROVE  /\ SenderOK'
           /\ \A u \in VCs : \E T \in Seq(Octet) :
                stream'[u] = stream[u] \o T /\ (T # <<>> => T[1].at = 0)
           /\ UNCHANGED <<emitted, seqs>>
<1> DEFINE p == [id |-> packets[v] + 1, len |-> len, idle |-> idle]
           T == Octets(p)
<1>1. p \in Packet /\ p.len = len
  BY DEF Packet, SenderOK
<1>2. /\ T \in Seq(Octet) /\ Len(T) = len
      /\ \A i \in 1 .. len : T[i] = [pkt |-> p, at |-> i - 1]
  BY <1>1, OctetsType
<1>3. Whole(stream[v] \o T)
  BY <1>1, WholeGrows DEF SenderOK
<1>4. /\ starts' = [starts EXCEPT ![v] = Append(@, emitted[v] + Len(queued[v]))]
      /\ queued' = [queued EXCEPT ![v] = @ \o T]
      /\ stream' = [stream EXCEPT ![v] = @ \o T]
      /\ packets' = [packets EXCEPT ![v] = @ + 1]
      /\ UNCHANGED <<emitted, frameCount, mcCount, seqs>>
  BY DEF Queue
<1> HIDE DEF p, T
<1>5. T[1].at = 0
  <2>1. T[1] = [pkt |-> p, at |-> 1 - 1]
    BY <1>2, FormatAssumption
  <2>2. QED BY <2>1
<1>6. /\ stream[v] \in Seq(Octet) /\ queued[v] \in Seq(Octet) /\ emitted[v] \in Nat
      /\ Piece(stream[v], queued[v], emitted[v])
      /\ emitted[v] + Len(queued[v]) = Len(stream[v])
  BY DEF SenderOK
<1>7. /\ Piece(stream[v] \o T, queued[v] \o T, emitted[v])
      /\ Len(queued[v] \o T) = Len(queued[v]) + len
      /\ Len(stream[v] \o T) = Len(stream[v]) + len
      /\ stream[v] \o T \in Seq(Octet)
  <2>1. Piece(stream[v] \o T, queued[v], emitted[v])
    BY <1>2, <1>6, PieceStays
  <2>2. Piece(stream[v] \o T, T, emitted[v] + Len(queued[v]))
    <3> DEFINE S == stream[v]
    <3>1. S \in Seq(Octet) /\ T \in Seq(Octet)
      BY <1>2, <1>6
    <3> HIDE DEF S
    <3>2. \A i \in 1 .. Len(T) : T[i] = (S \o T)[Len(S) + i]
      BY <3>1
    <3>3. Len(S \o T) = Len(S) + Len(T) /\ Len(S) \in Nat
      BY <3>1
    <3>4. Piece(S \o T, T, Len(S))
      BY <3>1, <3>2, <3>3 DEF Piece
    <3>5. QED BY <1>6, <3>4 DEF S
  <2>3. stream[v] \o T \in Seq(Octet) /\ Len(stream[v] \o T) = Len(stream[v]) + len
    <3>1. stream[v] \in Seq(Octet) /\ T \in Seq(Octet) /\ Len(T) = len
      BY <1>2, <1>6
    <3>2. QED BY <3>1
  <2>4. QED BY <1>2, <2>1, <2>2, <2>3, PieceJoin
<1>8. /\ queued' \in [VCs -> Seq(Octet)] /\ stream' \in [VCs -> Seq(Octet)]
      /\ starts' \in [VCs -> Seq(Nat)] /\ packets' \in [VCs -> Nat]
  BY <1>2, <1>4, <1>6, SMTT(30) DEF SenderOK
<1>9. ASSUME NEW i \in DOMAIN starts'[v]
      PROVE  starts'[v][i] < Len(stream[v] \o T) /\ (stream[v] \o T)[starts'[v][i] + 1].at = 0
  <2> DEFINE n == emitted[v] + Len(queued[v])
             z == starts[v]
  <2>1. z \in Seq(Nat) /\ n \in Nat /\ starts'[v] = Append(z, n) /\ n = Len(stream[v])
    BY <1>4, <1>6 DEF SenderOK
  <2>2. i \in 1 .. Len(z) + 1 /\ starts'[v][i] = IF i <= Len(z) THEN z[i] ELSE n
    BY <2>1, <1>9
  <2>3. CASE i <= Len(z)
    <3>1. i \in DOMAIN z /\ z[i] \in Nat /\ starts'[v][i] = z[i]
      BY <2>1, <2>2, <2>3, SMTT(30)
    <3>2. z[i] < Len(stream[v]) /\ stream[v][z[i] + 1].at = 0
      BY <3>1 DEF SenderOK
    <3>3. z[i] + 1 \in 1 .. Len(stream[v])
      BY <1>6, <3>1, <3>2
    <3>4. (stream[v] \o T)[z[i] + 1] = stream[v][z[i] + 1]
      BY <1>2, <1>6, <3>3, StartStays
    <3>5. z[i] < Len(stream[v]) + len
      BY <1>6, <3>1, <3>2
    <3>6. QED BY <1>7, <3>1, <3>2, <3>4, <3>5
  <2>4. CASE ~(i <= Len(z))
    <3>1. (stream[v] \o T)[Len(stream[v]) + 1] = T[1]
      BY <1>2, <1>6, FormatAssumption
    <3>2. Len(stream[v]) < Len(stream[v]) + len
      <4>1. Len(stream[v]) \in Nat /\ len > 0
        BY <1>6, FormatAssumption
      <4>2. QED BY <4>1
    <3>3. QED BY <1>5, <1>7, <2>1, <2>2, <2>4, <3>1, <3>2
  <2>5. QED BY <2>3, <2>4
<1>10. ASSUME NEW u \in VCs
       PROVE  /\ Whole(stream'[u]) /\ Piece(stream'[u], queued'[u], emitted'[u])
              /\ emitted'[u] + Len(queued'[u]) = Len(stream'[u])
              /\ \A i \in DOMAIN starts'[u] :
                    starts'[u][i] < Len(stream'[u]) /\ stream'[u][starts'[u][i] + 1].at = 0
              /\ frameCount'[u] = seqs'[u] % Modulus
  <2>1. CASE u = v
    <3>1. stream'[v] = stream[v] \o T /\ queued'[v] = queued[v] \o T /\ emitted'[v] = emitted[v]
      BY <1>4 DEF SenderOK
    <3>2. emitted[v] + (Len(queued[v]) + len) = Len(stream[v]) + len
      <4> DEFINE e == emitted[v]
                 q == Len(queued[v])
                 l == Len(stream[v])
      <4>1. e \in Nat /\ q \in Nat /\ e + q = l
        BY <1>6
      <4> HIDE DEF e, q, l
      <4>2. e + (q + len) = l + len
        BY <4>1
      <4>3. QED BY <4>2 DEF e, q, l
    <3>3. frameCount'[v] = seqs'[v] % Modulus
      BY <1>4 DEF SenderOK
    <3>4. emitted'[v] + Len(queued'[v]) = Len(stream'[v])
      BY <1>7, <3>1, <3>2
    <3>5. QED BY <1>3, <1>7, <1>9, <2>1, <3>1, <3>3, <3>4
  <2>2. CASE u # v
    BY <1>4, <2>2 DEF SenderOK
  <2>3. QED BY <2>1, <2>2
<1>11. \A u \in VCs : \E R \in Seq(Octet) :
          stream'[u] = stream[u] \o R /\ (R # <<>> => R[1].at = 0)
  <2> SUFFICES ASSUME NEW u \in VCs
               PROVE  \E R \in Seq(Octet) :
                        stream'[u] = stream[u] \o R /\ (R # <<>> => R[1].at = 0)
    OBVIOUS
  <2>1. CASE u = v
    BY <1>2, <1>4, <1>5, <2>1 DEF SenderOK
  <2>2. CASE u # v
    <3>1. stream'[u] = stream[u] /\ stream[u] \in Seq(Octet)
      BY <1>4, <2>2 DEF SenderOK
    <3>2. stream[u] \o <<>> = stream[u] /\ <<>> \in Seq(Octet)
      BY <3>1
    <3>3. QED BY <3>1, <3>2
  <2>3. QED BY <2>1, <2>2
<1>12. QED BY <1>4, <1>8, <1>10, <1>11 DEF SenderOK

\* What is left of the starts begins where the frame does, or later.
LEMMA AheadOfEmitted ==
    ASSUME NEW v \in VCs, starts[v] \in Seq(Nat), emitted[v] \in Nat
    PROVE  /\ Ahead(v) \in Seq(Nat)
           /\ Ahead(v) # <<>> =>
                \E k \in DOMAIN starts[v] :
                    Head(Ahead(v)) = starts[v][k] /\ starts[v][k] >= emitted[v]
           /\ \A i \in DOMAIN Ahead(v) : \E k \in DOMAIN starts[v] : Ahead(v)[i] = starts[v][k]
           /\ \E k \in 1 .. Len(starts[v]) + 1 :
                 /\ DOMAIN Ahead(v) = 1 .. Len(starts[v]) - k + 1
                 /\ \A i \in DOMAIN Ahead(v) : Ahead(v)[i] = starts[v][k + i - 1]
                 /\ \A i \in 1 .. k - 1 : starts[v][i] < emitted[v]
<1> DEFINE s == starts[v]
           l == Len(s)
           P == {i \in DOMAIN s : \A j \in 1 .. i : s[j] < emitted[v]}
           B == {i \in 1 .. l + 1 : i = l + 1 \/ s[i] >= emitted[v]}
           c == Cardinality(P)
<1>1. s \in Seq(Nat) /\ l \in Nat /\ DOMAIN s = 1 .. l
  OBVIOUS
<1>2. B \in SUBSET Nat /\ l + 1 \in B
  BY <1>1
<1>3. PICK b \in B : \A i \in B : b <= i
  BY <1>2, LeastNumber
<1>4. b \in 1 .. l + 1
  BY <1>3
<1>5. P = 1 .. b - 1
  <2>1. ASSUME NEW i \in 1 .. b - 1 PROVE i \in P
    <3>1. i \in 1 .. l /\ \A j \in 1 .. i : j \in 1 .. l /\ j < b
      BY <1>1, <1>4
    <3>2. \A j \in 1 .. i : ~(s[j] >= emitted[v]) /\ s[j] \in Nat
      BY <1>1, <1>3, <3>1, SMTT(30)
    <3>3. QED BY <1>1, <3>1, <3>2, SMTT(30)
  <2>2. ASSUME NEW i \in P PROVE i \in 1 .. b - 1
    <3>1. i \in 1 .. l /\ \A j \in 1 .. i : s[j] < emitted[v]
      BY <1>1
    <3>2. ASSUME b <= i PROVE FALSE
      <4>1. b \in 1 .. i /\ b # l + 1
        BY <1>1, <1>4, <3>1, <3>2
      <4>2. s[b] < emitted[v] /\ s[b] >= emitted[v] /\ s[b] \in Nat
        BY <1>1, <1>3, <3>1, <4>1
      <4>3. QED BY <4>2
    <3>3. QED BY <1>4, <3>1, <3>2
  <2>3. QED BY <2>1, <2>2
<1>6. c = b - 1
  <2> DEFINE m == b - 1
  <2>1. m \in Nat /\ 1 \in Int
    BY <1>1, <1>4
  <2> HIDE DEF m
  <2>2. Cardinality(1 .. m) = IF 1 > m THEN 0 ELSE m - 1 + 1
    BY <2>1, FS_Interval
  <2>3. Cardinality(1 .. m) = m
    BY <2>1, <2>2
  <2>4. QED BY <1>5, <2>3 DEF m
<1>7. Ahead(v) = SubSeq(s, c + 1, l)
  BY DEF Ahead
<1> HIDE DEF P, c
<1>8. Ahead(v) = SubSeq(s, b, l)
  <2>1. c + 1 = b
    BY <1>1, <1>4, <1>6
  <2>2. QED BY <1>7, <2>1
<1> DEFINE a == SubSeq(s, b, l)
<1>9. /\ a \in Seq(Nat) /\ DOMAIN a = 1 .. l - b + 1
      /\ \A i \in 1 .. l - b + 1 : a[i] = s[b + i - 1] /\ b + i - 1 \in DOMAIN s
  BY <1>1, <1>4
<1> HIDE DEF a
<1>10. ASSUME a # <<>>
       PROVE  Head(a) = s[b] /\ b \in DOMAIN s /\ s[b] >= emitted[v]
  <2>1. Head(a) = a[1] /\ 1 \in 1 .. l - b + 1
    BY <1>9, <1>10
  <2>2. b + 1 - 1 = b /\ b # l + 1
    BY <1>1, <1>4, <2>1
  <2>3. QED BY <1>3, <1>9, <2>1, <2>2
<1>11. \A i \in 1 .. b - 1 : s[i] < emitted[v]
  <2>1. \A i \in 1 .. b - 1 : \A j \in 1 .. i : s[j] < emitted[v]
    BY <1>5 DEF P
  <2>2. \A i \in 1 .. b - 1 : i \in 1 .. i
    BY <1>4
  <2>3. QED BY <2>1, <2>2
<1>12. QED BY <1>1, <1>4, <1>8, <1>9, <1>10, <1>11 DEF a

\* A frame is cut off: it is where it says, and points at a start.
LEMMA EmitKeepsSender ==
    ASSUME SenderOK, NEW v \in VCs, EmitFrame(v), NEW f, f = NextFrame(v)
    PROVE  /\ SenderOK' /\ UNCHANGED stream
           /\ emitted' = [emitted EXCEPT ![v] = @ + DataLen]
           /\ seqs' = [seqs EXCEPT ![v] = @ + 1]
           /\ FrameOK(f)' /\ f.vc = v /\ f.seq = seqs[v] /\ f.from = emitted[v]
<1> DEFINE q == queued[v]
           d == SubSeq(q, 1, DataLen)
           r == SubSeq(q, DataLen + 1, Len(q))
           e == emitted[v]
           n == seqs[v]
<1>1. /\ Len(q) >= DataLen /\ DataLen \in Nat /\ DataLen > 0
      /\ starts' = [starts EXCEPT ![v] = Ahead(v)]
      /\ queued' = [queued EXCEPT ![v] = r]
      /\ emitted' = [emitted EXCEPT ![v] = @ + DataLen]
      /\ mcCount' = Successor(mcCount)
      /\ frameCount' = [frameCount EXCEPT ![v] = Successor(@)]
      /\ seqs' = [seqs EXCEPT ![v] = @ + 1]
      /\ UNCHANGED <<stream, packets, idles>>
  <2>1. DataLen \in Nat /\ DataLen > 0
    BY FormatAssumption
  <2>2. QED BY <2>1 DEF EmitFrame, Count
<1>2. /\ q \in Seq(Octet) /\ stream[v] \in Seq(Octet) /\ e \in Nat /\ n \in Nat
      /\ Piece(stream[v], q, e) /\ e + Len(q) = Len(stream[v])
      /\ frameCount[v] = n % Modulus /\ starts[v] \in Seq(Nat)
      /\ mcCount \in Nat /\ frameCount[v] \in Nat
      /\ \A i \in DOMAIN starts[v] :
            starts[v][i] < Len(stream[v]) /\ stream[v][starts[v][i] + 1].at = 0
  BY DEF SenderOK
<1>3. /\ Piece(stream[v], d, e) /\ Len(d) = DataLen
      /\ Piece(stream[v], r, e + DataLen) /\ Len(r) = Len(q) - DataLen
  <2>1. Piece(stream[v], SubSeq(q, 0 + 1, DataLen), e + 0)
        /\ Len(SubSeq(q, 0 + 1, DataLen)) = DataLen - 0
    BY <1>1, <1>2, PieceCut
  <2>2. Piece(stream[v], r, e + DataLen) /\ Len(r) = Len(q) - DataLen
    <3>1. DataLen <= Len(q) /\ Len(q) \in Nat /\ Len(q) <= Len(q)
      BY <1>1, <1>2
    <3> DEFINE S == stream[v]
    <3>2. S \in Seq(Octet) /\ Piece(S, q, e) /\ DataLen \in Nat
      BY <1>1, <1>2
    <3> HIDE DEF S, q, e
    <3>3. Piece(S, SubSeq(q, DataLen + 1, Len(q)), e + DataLen)
          /\ Len(SubSeq(q, DataLen + 1, Len(q))) = Len(q) - DataLen
      BY <3>1, <3>2, PieceCut
    <3>4. QED BY <3>3 DEF S
  <2>3. e + 0 = e /\ 0 + 1 = 1 /\ DataLen - 0 = DataLen
    BY <1>1, <1>2
  <2>4. QED BY <2>1, <2>2, <2>3
<1>4. /\ Ahead(v) \in Seq(Nat)
      /\ Ahead(v) # <<>> =>
            \E k \in DOMAIN starts[v] : Head(Ahead(v)) = starts[v][k] /\ starts[v][k] >= e
  BY <1>2, AheadOfEmitted
<1>5. /\ f.vc = v /\ f.mc = mcCount /\ f.count = frameCount[v] /\ f.fhp = Pointer(v)
      /\ f.data = d /\ f.ours = TRUE /\ f.ok = TRUE /\ f.seq = n /\ f.from = e
      /\ f = [vc |-> v, mc |-> mcCount, count |-> frameCount[v], fhp |-> Pointer(v), data |-> d,
              ours |-> TRUE, ok |-> TRUE, seq |-> n, from |-> e]
  BY DEF NextFrame, MakeFrame
<1> DEFINE h == Head(Ahead(v))
<1>6. \/ Pointer(v) = NoStart
      \/ /\ Pointer(v) = h - e /\ h \in Nat /\ h < e + DataLen
         /\ h >= e /\ \E k \in DOMAIN starts[v] : h = starts[v][k]
  <2>1. CASE Ahead(v) # <<>> /\ h < e + DataLen
    <3>1. PICK k \in DOMAIN starts[v] : h = starts[v][k] /\ starts[v][k] >= e
      BY <1>4, <2>1
    <3>2. starts[v][k] \in Nat
      BY <1>2, <3>1
    <3>3. QED BY <2>1, <3>1, <3>2 DEF Pointer
  <2>2. CASE ~(Ahead(v) # <<>> /\ h < e + DataLen)
    BY <2>2 DEF Pointer
  <2>3. QED BY <2>1, <2>2
<1>7. f.fhp \in Nat /\ (f.fhp < DataLen => stream[v][e + f.fhp + 1].at = 0)
  <2>1. CASE Pointer(v) = NoStart
    BY <1>5, <2>1, FormatAssumption DEF NoStart
  <2>2. CASE Pointer(v) = h - e /\ h \in Nat /\ h < e + DataLen /\ h >= e
               /\ \E k \in DOMAIN starts[v] : h = starts[v][k]
    <3>1. stream[v][h + 1].at = 0
      BY <1>2, <2>2
    <3> HIDE DEF h
    <3>2. h - e \in Nat /\ e + (h - e) + 1 = h + 1
      BY <1>2, <2>2, SMTT(30)
    <3>3. QED BY <1>5, <2>2, <3>1, <3>2
  <2>3. QED BY <1>6, <2>1, <2>2
<1>8. f \in Frame
  <2>1. d \in Seq(Octet)
    BY <1>3 DEF Piece
  <2>2. Pointer(v) \in Nat
    BY <1>5, <1>7
  <2> HIDE DEF d
  <2>3. QED BY <1>2, <1>5, <2>1, <2>2 DEF Frame
<1>9. emitted'[v] = e + DataLen /\ seqs'[v] = n + 1 /\ frameCount'[v] = Successor(frameCount[v])
  BY <1>1 DEF SenderOK
<1> HIDE DEF d, r, q, e, n
<1>10. FrameOK(f)'
  <2>1. f.seq + 1 = seqs'[v] /\ f.seq < seqs'[v] /\ f.count = f.seq % Modulus
    BY <1>2, <1>5, <1>9
  <2>2. Piece(stream'[v], f.data, f.from) /\ f.from + Len(f.data) = emitted'[v]
    BY <1>1, <1>3, <1>5, <1>9
  <2>3. f.from + Len(f.data) <= emitted'[v]
    BY <1>1, <1>2, <1>9, <2>2
  <2>4. f.fhp < Len(f.data) => stream'[v][f.from + f.fhp + 1].at = 0
    BY <1>1, <1>3, <1>5, <1>7
  <2>5. f.fhp # OnlyIdle
    <3>1. CASE Pointer(v) = NoStart
      BY <1>5, <3>1 DEF NoStart, OnlyIdle
    <3>2. CASE Pointer(v) = h - e /\ h \in Nat /\ h < e + DataLen
      <4> HIDE DEF h, e
      <4>1. h - e < 2042
        <5>1. DataLen \in Nat /\ DataLen <= 2042 /\ e \in Nat
          BY <1>2, FormatAssumption
        <5>2. QED BY <3>2, <5>1
      <4>2. QED BY <1>5, <3>2, <4>1 DEF OnlyIdle
    <3>3. QED BY <1>6, <3>1, <3>2
  <2>6. QED BY <1>5, <1>8, <2>1, <2>2, <2>3, <2>4, <2>5 DEF FrameOK
<1>11. SenderOK'
  <2>1. /\ queued' \in [VCs -> Seq(Octet)] /\ starts' \in [VCs -> Seq(Nat)]
        /\ emitted' \in [VCs -> Nat] /\ seqs' \in [VCs -> Nat]
        /\ frameCount' \in [VCs -> Nat] /\ mcCount' \in Nat
    <3>1. r \in Seq(Octet)
      BY <1>3 DEF Piece
    <3>2. Successor(mcCount) \in Nat /\ Successor(frameCount[v]) \in Nat
      BY <1>2, SuccessorType
    <3>3. /\ e + DataLen \in Nat /\ n + 1 \in Nat /\ Ahead(v) \in Seq(Nat)
      BY <1>1, <1>2, <1>4, SMTT(30)
    <3>4. /\ queued \in [VCs -> Seq(Octet)] /\ starts \in [VCs -> Seq(Nat)]
          /\ emitted \in [VCs -> Nat] /\ seqs \in [VCs -> Nat]
          /\ frameCount \in [VCs -> Nat]
      BY DEF SenderOK
    <3>5. queued' \in [VCs -> Seq(Octet)] /\ starts' \in [VCs -> Seq(Nat)]
      BY <1>1, <3>1, <3>3, <3>4
    <3>6. emitted' \in [VCs -> Nat] /\ seqs' \in [VCs -> Nat]
      BY <1>1, <3>3, <3>4 DEF e, n
    <3>7. frameCount' \in [VCs -> Nat] /\ mcCount' \in Nat
      BY <1>1, <3>2, <3>4
    <3>8. QED BY <3>5, <3>6, <3>7
  <2>2. ASSUME NEW u \in VCs
        PROVE  /\ Whole(stream'[u]) /\ Piece(stream'[u], queued'[u], emitted'[u])
               /\ emitted'[u] + Len(queued'[u]) = Len(stream'[u])
               /\ \A i \in DOMAIN starts'[u] :
                     starts'[u][i] < Len(stream'[u]) /\ stream'[u][starts'[u][i] + 1].at = 0
               /\ frameCount'[u] = seqs'[u] % Modulus
    <3>1. CASE u = v
      <4>1. queued'[v] = r /\ starts'[v] = Ahead(v) /\ stream' = stream
        BY <1>1 DEF SenderOK
      <4>2. frameCount'[v] = seqs'[v] % Modulus
        BY <1>2, <1>9, SuccessorOfCount
      <4>3. (e + DataLen) + (Len(q) - DataLen) = Len(stream[v])
        <5>1. Len(q) \in Nat /\ e \in Nat /\ DataLen \in Nat /\ e + Len(q) = Len(stream[v])
          BY <1>1, <1>2
        <5>2. QED BY <5>1
      <4>4. \A i \in DOMAIN Ahead(v) :
               Ahead(v)[i] < Len(stream[v]) /\ stream[v][Ahead(v)[i] + 1].at = 0
        <5> SUFFICES ASSUME NEW i \in DOMAIN Ahead(v)
                     PROVE  Ahead(v)[i] < Len(stream[v]) /\ stream[v][Ahead(v)[i] + 1].at = 0
          OBVIOUS
        <5>1. PICK k \in DOMAIN starts[v] : Ahead(v)[i] = starts[v][k]
          BY <1>2, AheadOfEmitted DEF e, SenderOK
        <5>2. QED BY <1>2, <5>1
      <4>5. Whole(stream[v])
        BY DEF SenderOK
      <4>6. Piece(stream'[v], queued'[v], emitted'[v])
            /\ emitted'[v] + Len(queued'[v]) = Len(stream'[v])
        BY <1>3, <1>9, <4>1, <4>3
      <4>7. QED BY <3>1, <4>1, <4>2, <4>4, <4>5, <4>6
    <3>2. CASE u # v
      BY <1>1, <3>2 DEF SenderOK
    <3>3. QED BY <3>1, <3>2
  <2>3. QED BY <1>1, <2>1, <2>2 DEF SenderOK
<1>12. QED BY <1>1, <1>5, <1>10, <1>11 DEF e, n

\* An idle frame is counted and carries nothing.
LEMMA IdleKeepsSender ==
    ASSUME SenderOK, NEW v \in VCs, EmitIdle(v), NEW f, f = MakeFrame(v, OnlyIdle, <<>>)
    PROVE  /\ SenderOK' /\ UNCHANGED <<stream, emitted>>
           /\ seqs' = [seqs EXCEPT ![v] = @ + 1]
           /\ FrameOK(f)' /\ f.vc = v /\ f.seq = seqs[v] /\ f.from = emitted[v]
<1> DEFINE e == emitted[v]
           n == seqs[v]
<1>1. /\ mcCount' = Successor(mcCount)
      /\ frameCount' = [frameCount EXCEPT ![v] = Successor(@)]
      /\ seqs' = [seqs EXCEPT ![v] = @ + 1]
      /\ UNCHANGED <<queued, starts, emitted, stream, packets>>
  BY DEF EmitIdle, Count
<1>2. /\ stream[v] \in Seq(Octet) /\ e \in Nat /\ n \in Nat
      /\ frameCount[v] = n % Modulus /\ mcCount \in Nat /\ frameCount[v] \in Nat
      /\ e + Len(queued[v]) = Len(stream[v]) /\ Len(queued[v]) \in Nat
  BY DEF SenderOK
<1>3. /\ f.vc = v /\ f.mc = mcCount /\ f.count = frameCount[v] /\ f.fhp = OnlyIdle
      /\ f.data = <<>> /\ f.ours = TRUE /\ f.ok = TRUE /\ f.seq = n /\ f.from = e
      /\ f = [vc |-> v, mc |-> mcCount, count |-> frameCount[v], fhp |-> OnlyIdle, data |-> <<>>,
              ours |-> TRUE, ok |-> TRUE, seq |-> n, from |-> e]
  BY DEF MakeFrame
<1>4. f \in Frame
  <2>1. OnlyIdle \in Nat /\ <<>> \in Seq(Octet)
    BY DEF OnlyIdle
  <2>2. QED BY <1>2, <1>3, <2>1 DEF Frame
<1>5. seqs'[v] = n + 1 /\ frameCount'[v] = Successor(frameCount[v])
  BY <1>1 DEF SenderOK
<1>6. FrameOK(f)'
  <2>1. Piece(stream[v], <<>>, e)
    BY <1>2, PieceEmpty
  <2>2. f.seq + 1 = seqs'[v] /\ f.seq < seqs'[v] /\ f.count = f.seq % Modulus
    BY <1>2, <1>3, <1>5
  <2>3. Len(f.data) = 0 /\ f.from + Len(f.data) = emitted'[v] /\ emitted'[v] \in Nat
    BY <1>1, <1>2, <1>3
  <2>4. ~(f.fhp < Len(f.data))
    BY <1>3, <2>3 DEF OnlyIdle
  <2>5. Piece(stream'[v], f.data, f.from)
    BY <1>1, <1>3, <2>1
  <2>6. QED BY <1>3, <1>4, <2>2, <2>3, <2>4, <2>5 DEF FrameOK
<1>7. SenderOK'
  <2>1. /\ queued' \in [VCs -> Seq(Octet)] /\ starts' \in [VCs -> Seq(Nat)]
        /\ stream' \in [VCs -> Seq(Octet)] /\ emitted' \in [VCs -> Nat] /\ packets' \in [VCs -> Nat]
    BY <1>1 DEF SenderOK
  <2>2. seqs' \in [VCs -> Nat] /\ frameCount' \in [VCs -> Nat] /\ mcCount' \in Nat
    <3>1. Successor(mcCount) \in Nat /\ Successor(frameCount[v]) \in Nat
      BY <1>2, SuccessorType
    <3>2. seqs \in [VCs -> Nat] /\ frameCount \in [VCs -> Nat] /\ n + 1 \in Nat
      BY <1>2 DEF SenderOK
    <3>3. QED BY <1>1, <3>1, <3>2
  <2>3. \A u \in VCs : frameCount'[u] = seqs'[u] % Modulus
    <3> SUFFICES ASSUME NEW u \in VCs PROVE frameCount'[u] = seqs'[u] % Modulus
      OBVIOUS
    <3>1. CASE u = v
      BY <1>2, <1>5, <3>1, SuccessorOfCount
    <3>2. CASE u # v
      BY <1>1, <3>2 DEF SenderOK
    <3>3. QED BY <3>1, <3>2
  <2>4. QED BY <1>1, <2>1, <2>2, <2>3, SMTT(30) DEF SenderOK
<1>8. QED BY <1>1, <1>3, <1>6, <1>7

-----------------------------------------------------------------------------
(* The frames. *)

\* Frames that say the same of their channel.
Alike(f, g) ==
    /\ f \in Frame
    /\ f.vc = g.vc /\ f.count = g.count /\ f.fhp = g.fhp /\ f.data = g.data
    /\ f.seq = g.seq /\ f.from = g.from

\* Under way frames are lost, marked and repeated, and say what they said.
LEMMA FramesStay ==
    ASSUME FramesOK, channel' \in Seq(Frame), lastFrame' \in [VCs -> Frame \cup {None}],
           \A v \in VCs : lastFrame'[v] # None => lastFrame'[v].vc = v,
           \A f \in Known' : \E g \in Known : Alike(f, g),
           UNCHANGED <<stream, emitted, seqs>>
    PROVE  FramesOK'
<1>1. ASSUME NEW f \in Known' PROVE FrameOK(f)'
  <2>1. PICK g \in Known : Alike(f, g)
    BY <1>1
  <2>2. FrameOK(g)
    BY DEF FramesOK
  <2>3. QED BY <2>1, <2>2 DEF Alike, FrameOK
<1>2. ASSUME NEW f \in Known', NEW h \in Known' PROVE Follows(f, h)
  <2>1. PICK g \in Known : Alike(f, g)
    OBVIOUS
  <2>2. PICK k \in Known : Alike(h, k)
    OBVIOUS
  <2>3. Follows(g, k)
    BY DEF FramesOK
  <2>4. QED BY <2>1, <2>2, <2>3 DEF Alike, Follows
<1>3. QED BY <1>1, <1>2 DEF FramesOK

\* More is packed: what frames carry stays where it is.
LEMMA FramesAfterQueue ==
    ASSUME FramesOK, SenderOK, UNCHANGED <<channel, lastFrame, emitted, seqs>>,
           \A u \in VCs : \E T \in Seq(Octet) :
                stream'[u] = stream[u] \o T /\ (T # <<>> => T[1].at = 0)
    PROVE  FramesOK'
<1>1. Known' = Known
  BY DEF Known
<1>2. ASSUME NEW f \in Known PROVE FrameOK(f)'
  <2>1. FrameOK(f)
    BY DEF FramesOK
  <2> DEFINE v == f.vc
             S == stream[v]
  <2>2. f \in Frame /\ v \in VCs /\ f.fhp \in Nat /\ f.from \in Nat /\ f.data \in Seq(Octet)
    BY <2>1 DEF FrameOK, Frame
  <2>3. PICK T \in Seq(Octet) : stream'[v] = S \o T
    BY <2>2
  <2>4. S \in Seq(Octet) /\ Piece(S, f.data, f.from)
    BY <2>1, <2>2 DEF FrameOK, SenderOK
  <2>5. Piece(stream'[v], f.data, f.from)
    BY <2>3, <2>4, PieceStays
  <2>6. ASSUME f.fhp < Len(f.data)
        PROVE  stream'[v][f.from + f.fhp + 1].at = 0
    <3>1. S[f.from + f.fhp + 1].at = 0
      BY <2>1, <2>6 DEF FrameOK
    <3>2. f.from + f.fhp + 1 \in 1 .. Len(S)
      BY <2>2, <2>4, <2>6, SMTT(30) DEF Piece
    <3>3. QED BY <2>3, <2>4, <3>1, <3>2, StartStays
  <2>7. QED BY <2>1, <2>5, <2>6 DEF FrameOK
<1>3. QED BY <1>1, <1>2 DEF FramesOK

\* A frame is sent: it follows the one before it.
LEMMA FramesAfterSend ==
    ASSUME FramesOK, SenderOK, NEW f, FrameOK(f)', f.seq = seqs[f.vc], f.from = emitted[f.vc],
           f.vc \in VCs, channel' = Append(channel, f), UNCHANGED <<lastFrame, stream>>,
           seqs' = [seqs EXCEPT ![f.vc] = @ + 1],
           \A u \in VCs : u # f.vc => emitted'[u] = emitted[u]
    PROVE  FramesOK'
<1>1. f \in Frame /\ channel \in Seq(Frame)
  BY DEF FrameOK, FramesOK
<1>2. channel' \in Seq(Frame) /\ ToSet(channel') = ToSet(channel) \cup {f}
  <2>1. /\ Append(channel, f) \in Seq(Frame) /\ Len(Append(channel, f)) = Len(channel) + 1
        /\ \A i \in 1 .. Len(channel) : Append(channel, f)[i] = channel[i]
        /\ Append(channel, f)[Len(channel) + 1] = f
        /\ DOMAIN Append(channel, f) = 1 .. Len(channel) + 1 /\ DOMAIN channel = 1 .. Len(channel)
        /\ Len(channel) \in Nat
    BY <1>1
  <2>2. QED BY <2>1 DEF ToSet
<1>3. Known' = Known \cup {f}
  <2>1. f # None
    BY <1>1, LinkAssumption
  <2>2. QED BY <1>2, <2>1 DEF Known
<1>4. /\ emitted'[f.vc] \in Nat /\ emitted[f.vc] \in Nat /\ f.from \in Nat /\ Len(f.data) \in Nat
      /\ f.from + Len(f.data) = emitted'[f.vc] /\ emitted[f.vc] <= emitted'[f.vc]
  <2>1. f.seq \in Nat /\ f.from \in Nat /\ f.data \in Seq(Octet)
    BY <1>1 DEF Frame
  <2>2. f.seq + 1 = seqs'[f.vc] /\ emitted[f.vc] \in Nat
    BY <2>1 DEF SenderOK
  <2>3. f.from + Len(f.data) = emitted'[f.vc]
    BY <2>2 DEF FrameOK
  <2>4. Len(f.data) \in Nat
    BY <2>1
  <2>5. QED BY <2>1, <2>2, <2>3, <2>4
<1>5. ASSUME NEW g \in Known
      PROVE  /\ FrameOK(g)' /\ g.seq \in Nat /\ g.seq < seqs[g.vc] /\ g.vc \in VCs
             /\ g.seq + 1 = seqs[g.vc] => g.from + Len(g.data) = emitted[g.vc]
  <2>1. FrameOK(g)
    BY DEF FramesOK
  <2>2. g \in Frame /\ g.vc \in VCs /\ g.seq \in Nat /\ g.from \in Nat /\ g.data \in Seq(Octet)
    BY <2>1 DEF FrameOK, Frame
  <2>3. seqs[g.vc] \in Nat /\ emitted[g.vc] \in Nat /\ g.seq < seqs[g.vc]
    BY <2>1, <2>2 DEF FrameOK, SenderOK
  <2>4. CASE g.vc = f.vc
    <3>1. seqs'[g.vc] = seqs[g.vc] + 1
      BY <2>2, <2>4 DEF SenderOK
    <3>2. g.seq < seqs'[g.vc] /\ ~(g.seq + 1 = seqs'[g.vc])
      BY <2>2, <2>3, <3>1
    <3>3. g.from + Len(g.data) <= emitted[g.vc] /\ Len(g.data) \in Nat
      BY <2>1, <2>2 DEF FrameOK
    <3>4. g.from + Len(g.data) <= emitted'[g.vc]
      BY <1>4, <2>2, <2>3, <2>4, <3>3, SMTT(30)
    <3>5. QED BY <2>1, <2>2, <2>3, <3>2, <3>4 DEF FrameOK
  <2>5. CASE g.vc # f.vc
    <3>1. seqs'[g.vc] = seqs[g.vc] /\ emitted'[g.vc] = emitted[g.vc]
      BY <2>2, <2>5 DEF SenderOK
    <3>2. QED BY <2>1, <2>2, <2>3, <3>1 DEF FrameOK
  <2>6. QED BY <2>4, <2>5
<1>6. ASSUME NEW g \in Known PROVE Follows(g, f) /\ Follows(f, g)
  <2>1. Follows(g, f)
    BY <1>5 DEF Follows
  <2>2. Follows(f, g)
    <3>1. f.vc = g.vc => ~(g.seq = f.seq + 1)
      BY <1>5 DEF SenderOK
    <3>2. QED BY <3>1 DEF Follows
  <2>3. QED BY <2>1, <2>2
<1>7. Follows(f, f)
  <2>1. f.seq \in Nat
    BY <1>1 DEF Frame
  <2>2. QED BY <2>1 DEF Follows
<1>8. \A g, h \in Known : Follows(g, h)
  BY DEF FramesOK
<1>9. QED BY <1>2, <1>3, <1>5, <1>6, <1>7, <1>8 DEF FramesOK

-----------------------------------------------------------------------------
(* The receiver. *)

\* More is packed: what is pending stays where it is.
LEMMA ReceiverStays ==
    ASSUME ReceiverOK, SenderOK, UNCHANGED <<deframer, lastFrame>>,
           \A u \in VCs : \E T \in Seq(Octet) :
                stream'[u] = stream[u] \o T /\ (T # <<>> => T[1].at = 0)
    PROVE  ReceiverOK'
<1>1. /\ pc' = pc /\ cur' = cur /\ rest' = rest /\ pending' = pending /\ inSync' = inSync
      /\ lastCount' = lastCount /\ delivered' = delivered /\ lastFrame' = lastFrame
  BY DEF deframer
<1>2. ASSUME NEW v \in VCs PROVE End(v)' = End(v) /\ Mark(v)' = Mark(v)
  BY <1>1 DEF End, Mark
<1>3. ASSUME NEW v \in VCs, NEW s, NEW a, Piece(stream[v], s, a), Boundary(stream[v], a)
      PROVE  Piece(stream'[v], s, a) /\ Boundary(stream'[v], a)
  <2>1. PICK T \in Seq(Octet) : stream'[v] = stream[v] \o T /\ (T # <<>> => T[1].at = 0)
    OBVIOUS
  <2>2. stream[v] \in Seq(Octet)
    BY DEF SenderOK
  <2>3. Piece(stream[v] \o T, s, a)
    BY <1>3, <2>2, PieceStays
  <2>4. Boundary(stream[v] \o T, a)
    BY <1>3, <2>1, <2>2, BoundaryStays
  <2>5. QED BY <2>1, <2>3, <2>4
<1>4. ReceiverTypes'
  BY <1>1 DEF ReceiverOK, ReceiverTypes
<1>5. ASSUME NEW v \in VCs, AtPacket(v) PROVE AtPacket(v)'
  <2>1. PICK a \in Nat : /\ Piece(stream[v], pending[v], a) /\ Boundary(stream[v], a)
                         /\ a + Len(pending[v]) = Mark(v)
    BY <1>5 DEF AtPacket
  <2>2. Piece(stream'[v], pending[v], a) /\ Boundary(stream'[v], a)
    BY <1>3, <2>1
  <2>3. /\ Piece(stream'[v], pending'[v], a) /\ Boundary(stream'[v], a)
        /\ a + Len(pending'[v]) = Mark(v)'
    BY <1>1, <1>2, <2>1, <2>2
  <2>4. QED BY <2>3 DEF AtPacket
<1>6. ASSUME NEW v \in VCs
      PROVE  /\ lastCount'[v] = IF lastFrame'[v] = None THEN None ELSE lastFrame'[v].count
             /\ inSync'[v] => lastFrame'[v] # None /\ AtPacket(v)'
             /\ ~inSync'[v] => pending'[v] = <<>>
  BY <1>1, <1>5 DEF ReceiverOK
<1>7. pc' # "ready" => cur' \in VCs /\ lastFrame'[cur'] # None
  BY <1>1 DEF ReceiverOK
<1>8. ASSUME pc' = "finish"
      PROVE  /\ Piece(stream'[cur'], rest', End(cur)' - Len(rest'))
             /\ Boundary(stream'[cur'], End(cur)' - Len(rest'))
  <2>1. pc = "finish" /\ cur \in VCs
    BY <1>1, <1>8 DEF ReceiverOK
  <2>2. /\ Piece(stream[cur], rest, End(cur) - Len(rest))
        /\ Boundary(stream[cur], End(cur) - Len(rest))
    BY <2>1 DEF ReceiverOK
  <2>3. /\ Piece(stream'[cur], rest, End(cur) - Len(rest))
        /\ Boundary(stream'[cur], End(cur) - Len(rest))
    BY <1>3, <2>1, <2>2
  <2>4. QED BY <1>1, <1>2, <2>1, <2>3
<1>9. QED BY <1>4, <1>6, <1>7, <1>8 DEF ReceiverOK

LEMMA DeliveredStay ==
    ASSUME DeliveredOK, SenderOK, UNCHANGED delivered,
           \A u \in VCs : \E T \in Seq(Octet) :
                stream'[u] = stream[u] \o T /\ (T # <<>> => T[1].at = 0)
    PROVE  DeliveredOK'
<1>1. ASSUME NEW v \in VCs, NEW s, Genuine(v, s) PROVE Genuine(v, s)'
  <2>1. PICK T \in Seq(Octet) : stream'[v] = stream[v] \o T
    OBVIOUS
  <2>2. stream[v] \in Seq(Octet)
    BY DEF SenderOK
  <2>3. PICK n \in DOMAIN stream[v] : s[1] = stream[v][n]
    <3>1. s[1] \in ToSet(stream[v])
      BY <1>1 DEF Genuine
    <3>2. QED BY <3>1 DEF ToSet
  <2>4. stream'[v][n] = s[1] /\ n \in DOMAIN stream'[v]
    <3>1. n \in 1 .. Len(stream[v]) /\ DOMAIN stream'[v] = 1 .. Len(stream[v]) + Len(T)
      BY <2>1, <2>2
    <3>2. QED BY <2>1, <2>2, <2>3, <3>1, StartStays
  <2>5. s[1] \in ToSet(stream'[v])
    BY <2>4 DEF ToSet
  <2>6. QED BY <1>1, <2>5 DEF Genuine
<1>2. QED BY <1>1 DEF DeliveredOK

\* A gap is seen exactly when the frame is not the next one.
LEMMA GapTells ==
    ASSUME FramesOK, ReceiverOK, NEW f \in Known, Takes(f), Window(f), lastFrame[f.vc] # None
    PROVE  /\ f.vc \in VCs /\ f \in Frame /\ f.seq \in Nat /\ lastFrame[f.vc].seq \in Nat
           /\ ~Gap(f) <=> f.seq = lastFrame[f.vc].seq + 1
           /\ ~Gap(f) => f.from = End(f.vc)
<1> DEFINE v == f.vc
           g == lastFrame[v]
<1>1. FrameOK(f) /\ f \in Frame /\ v \in VCs /\ f.seq \in Nat
  BY DEF FramesOK, FrameOK, Frame
<1>2. g # None /\ lastCount[v] = g.count
  BY <1>1 DEF ReceiverOK
<1>3. g \in Known /\ g.vc = v
  BY <1>1, <1>2 DEF Known, FramesOK
<1>4. FrameOK(g) /\ g \in Frame /\ g.seq \in Nat /\ g.count \in Nat
  BY <1>3 DEF FramesOK, FrameOK, Frame
<1>5. ~Gap(f) <=> f.count = Successor(g.count)
  <2>1. g.count # None
    BY <1>4, LinkAssumption
  <2>2. QED BY <1>2, <2>1 DEF Gap, Breaks
<1>6. ~Gap(f) <=> f.seq % Modulus = (g.seq + 1) % Modulus
  <2>1. f.count = f.seq % Modulus /\ g.count = g.seq % Modulus
    BY <1>1, <1>4 DEF FrameOK
  <2>2. QED BY <1>4, <1>5, <2>1, SuccessorOfCount
<1>7. f.seq \in g.seq - Modulus + 2 .. g.seq + Modulus
  BY <1>2 DEF Window
<1>8. ~Gap(f) <=> f.seq = g.seq + 1
  <2> DEFINE a == f.seq
             b == g.seq + 1
  <2>1. a \in Nat /\ b \in Nat /\ a - b < Modulus /\ b - a < Modulus
    BY <1>1, <1>4, <1>7, FormatAssumption
  <2>2. ~Gap(f) <=> a % Modulus = b % Modulus
    BY <1>6
  <2> HIDE DEF a, b
  <2>3. a % Modulus = b % Modulus => a = b
    BY <2>1, CountTells
  <2>4. ~Gap(f) <=> a = b
    BY <2>2, <2>3
  <2>5. QED BY <2>4 DEF a, b
<1>9. Follows(g, f)
  BY <1>3 DEF FramesOK
<1>10. ~Gap(f) => f.from = End(v)
  BY <1>3, <1>8, <1>9 DEF Follows, End
<1>11. QED BY <1>1, <1>4, <1>8, <1>10

\* Without a gap within the window, the frame is the one behind the last taken.
LEMMA NoGapFollows ==
    ASSUME FramesOK, ReceiverOK, NEW f \in Known, Takes(f), Window(f), Synced(f)
    PROVE  /\ lastFrame[f.vc] # None /\ f.vc \in VCs /\ f \in Frame
           /\ AtPacket(f.vc) /\ f.from = End(f.vc)
<1>1. f.vc \in VCs
  BY DEF FramesOK, FrameOK, Frame
<1>2. inSync[f.vc] /\ ~Gap(f)
  BY DEF Synced
<1>3. lastFrame[f.vc] # None /\ AtPacket(f.vc)
  BY <1>1, <1>2 DEF ReceiverOK
<1>4. QED BY <1>2, <1>3, GapTells

\* A frame is taken: what is left of its channel is at a packet, or nothing.
LEMMA TakeKeepsReceiver ==
    ASSUME ReceiverOK, pc = "ready", NEW f \in Frame, NEW octets \in Seq(Octet),
           NEW sync \in BOOLEAN, ~sync => octets = <<>>,
           lastFrame \in [VCs -> Frame \cup {None}],
           lastFrame' = [lastFrame EXCEPT ![f.vc] = f],
           lastCount' = [lastCount EXCEPT ![f.vc] = f.count],
           pending' = [pending EXCEPT ![f.vc] = octets],
           inSync' = [inSync EXCEPT ![f.vc] = sync],
           UNCHANGED <<stream, delivered>>,
           pc' \in {"ready", "finish", "last"}, rest' \in Seq(Octet),
           pc' # "ready" => cur' = f.vc,
           NEW end, end = f.from + Len(f.data),
           sync => \E a \in Nat :
                /\ Piece(stream[f.vc], octets, a) /\ Boundary(stream[f.vc], a)
                /\ a + Len(octets) = IF pc' = "finish" THEN end - Len(rest') ELSE end,
           pc' = "finish" =>
                /\ Piece(stream[f.vc], rest', end - Len(rest'))
                /\ Boundary(stream[f.vc], end - Len(rest'))
    PROVE  ReceiverOK'
<1> DEFINE w == f.vc
<1>1. w \in VCs /\ f.count \in Nat /\ f # None
  BY LinkAssumption DEF Frame
<1>2. /\ pending \in [VCs -> Seq(Octet)] /\ inSync \in [VCs -> BOOLEAN]
      /\ lastCount \in [VCs -> Nat \cup {None}] /\ delivered \in [VCs -> Seq(Seq(Octet))]
  BY DEF ReceiverOK, ReceiverTypes
<1>3. /\ lastFrame'[w] = f /\ lastCount'[w] = f.count /\ pending'[w] = octets /\ inSync'[w] = sync
      /\ \A v \in VCs \ {w} : /\ lastFrame'[v] = lastFrame[v] /\ lastCount'[v] = lastCount[v]
                              /\ pending'[v] = pending[v] /\ inSync'[v] = inSync[v]
  BY <1>1, <1>2
<1>4. ReceiverTypes'
  <2>1. /\ pending' \in [VCs -> Seq(Octet)] /\ inSync' \in [VCs -> BOOLEAN]
        /\ lastCount' \in [VCs -> Nat \cup {None}]
    BY <1>1, <1>2
  <2>2. delivered' \in [VCs -> Seq(Seq(Octet))]
    BY <1>2
  <2>3. QED BY <2>1, <2>2 DEF ReceiverTypes
<1>5. End(w)' = end
  BY <1>3 DEF End
<1>6. ASSUME sync PROVE AtPacket(w)'
  <2>1. PICK a \in Nat :
           /\ Piece(stream[w], octets, a) /\ Boundary(stream[w], a)
           /\ a + Len(octets) = IF pc' = "finish" THEN end - Len(rest') ELSE end
    BY <1>6
  <2>2. Mark(w)' = IF pc' = "finish" THEN end - Len(rest') ELSE end
    BY <1>5 DEF Mark
  <2>3. /\ Piece(stream'[w], pending'[w], a) /\ Boundary(stream'[w], a)
        /\ a + Len(pending'[w]) = Mark(w)'
    BY <1>3, <2>1, <2>2
  <2>4. QED BY <2>3 DEF AtPacket
<1>7. ASSUME NEW v \in VCs \ {w}, AtPacket(v) PROVE AtPacket(v)'
  <2>1. PICK a \in Nat : /\ Piece(stream[v], pending[v], a) /\ Boundary(stream[v], a)
                         /\ a + Len(pending[v]) = Mark(v)
    BY <1>7 DEF AtPacket
  <2>2. Mark(v) = End(v) /\ End(v)' = End(v)
    BY <1>3 DEF Mark, End
  <2>3. Mark(v)' = End(v)'
    BY <1>1 DEF Mark
  <2>4. /\ Piece(stream'[v], pending'[v], a) /\ Boundary(stream'[v], a)
        /\ a + Len(pending'[v]) = Mark(v)'
    BY <1>3, <2>1, <2>2, <2>3
  <2>5. QED BY <2>4 DEF AtPacket
<1>8. ASSUME NEW v \in VCs
      PROVE  /\ lastCount'[v] = IF lastFrame'[v] = None THEN None ELSE lastFrame'[v].count
             /\ inSync'[v] => lastFrame'[v] # None /\ AtPacket(v)'
             /\ ~inSync'[v] => pending'[v] = <<>>
  <2>1. CASE v = w
    BY <1>1, <1>3, <1>6, <2>1
  <2>2. CASE v # w
    <3>1. /\ lastCount[v] = IF lastFrame[v] = None THEN None ELSE lastFrame[v].count
          /\ inSync[v] => lastFrame[v] # None /\ AtPacket(v)
          /\ ~inSync[v] => pending[v] = <<>>
      BY DEF ReceiverOK
    <3>2. QED BY <1>3, <1>7, <2>2, <3>1
  <2>3. QED BY <2>1, <2>2
<1>9. pc' # "ready" => cur' \in VCs /\ lastFrame'[cur'] # None
  BY <1>1, <1>3
<1>10. pc' = "finish" =>
          /\ Piece(stream'[cur'], rest', End(cur)' - Len(rest'))
          /\ Boundary(stream'[cur'], End(cur)' - Len(rest'))
  <2> SUFFICES ASSUME pc' = "finish"
               PROVE  /\ Piece(stream'[cur'], rest', End(cur)' - Len(rest'))
                      /\ Boundary(stream'[cur'], End(cur)' - Len(rest'))
    OBVIOUS
  <2>1. cur' = w /\ lastFrame'[cur'] = f
    BY <1>3
  <2>2. End(cur)' = end
    BY <2>1 DEF End
  <2>3. QED BY <2>1, <2>2
<1>11. QED BY <1>4, <1>8, <1>9, <1>10 DEF ReceiverOK

\* What a gap and a loss of sync leave: nothing.
LEMMA NothingHeld ==
    ASSUME ReceiverOK, NEW f, f.vc \in VCs, ~Synced(f)
    PROVE  Held(f) = <<>>
BY DEF ReceiverOK, Held, Synced

LEMMA HeldType ==
    ASSUME ReceiverOK, NEW f, f.vc \in VCs
    PROVE  /\ Held(f) \in Seq(Octet) /\ Synced(f) \in BOOLEAN
           /\ Synced(f) => Held(f) = pending[f.vc]
<1>1. pending[f.vc] \in Seq(Octet) /\ inSync[f.vc] \in BOOLEAN
  BY DEF ReceiverOK, ReceiverTypes
<1>2. Gap(f) \in BOOLEAN
  BY DEF Gap, Breaks
<1>3. QED BY <1>1, <1>2 DEF Held, Synced

\* A frame leaves the receiver at a packet.
LEMMA HandleKeepsReceiver ==
    ASSUME SenderOK, FramesOK, ReceiverOK, NEW f \in Known, Window(f), HandleFrame(f), Note(f),
           UNCHANGED stream
    PROVE  ReceiverOK' /\ UNCHANGED delivered
<1> DEFINE v == f.vc
           S == stream[v]
           d == f.data
           p == f.fhp
           end == f.from + Len(d)
           m == SubSeq(d, 1, p)
           r == SubSeq(d, p + 1, Len(d))
<1>1. /\ f \in Frame /\ v \in VCs /\ d \in Seq(Octet) /\ Len(d) \in Nat /\ p \in Nat /\ f.from \in Nat
      /\ Piece(S, d, f.from) /\ S \in Seq(Octet) /\ Len(S) \in Nat
      /\ p < Len(d) => S[f.from + p + 1].at = 0
      /\ p = OnlyIdle => d = <<>>
  <2>1. FrameOK(f)
    BY DEF FramesOK
  <2>2. f \in Frame
    BY <2>1 DEF FrameOK
  <2>3. v \in VCs /\ d \in Seq(Octet) /\ p \in Nat /\ f.from \in Nat
    BY <2>2 DEF Frame
  <2>4. S \in Seq(Octet)
    BY <2>3 DEF SenderOK
  <2>5. Len(d) \in Nat /\ Len(S) \in Nat
    BY <2>3, <2>4
  <2>6. QED BY <2>1, <2>2, <2>3, <2>4, <2>5 DEF FrameOK
<1>2. /\ lastFrame \in [VCs -> Frame \cup {None}] /\ rest \in Seq(Octet)
      /\ pending \in [VCs -> Seq(Octet)] /\ inSync \in [VCs -> BOOLEAN]
  BY DEF FramesOK, ReceiverOK, ReceiverTypes
<1>3. Held(f) \in Seq(Octet) /\ Synced(f) \in BOOLEAN /\ (~Synced(f) => Held(f) = <<>>)
  BY <1>1, HeldType, NothingHeld
<1>4. ASSUME Takes(f), Synced(f)
      PROVE  \E a \in Nat : /\ Piece(S, Held(f), a) /\ Boundary(S, a)
                            /\ a + Len(Held(f)) = f.from
  <2>1. AtPacket(v) /\ f.from = End(v) /\ pc = "ready"
    BY <1>4, NoGapFollows DEF Takes
  <2>2. Mark(v) = f.from /\ Held(f) = pending[v]
    BY <1>1, <1>4, <2>1, HeldType DEF Mark
  <2>3. QED BY <2>1, <2>2 DEF AtPacket
<1>5. ASSUME Takes(f)
      PROVE  pc = "ready" /\ lastFrame' = [lastFrame EXCEPT ![f.vc] = f]
  BY <1>5 DEF Note, Takes
<1>6. ASSUME p < Len(d)
      PROVE  /\ Piece(S, m, f.from) /\ Len(m) = p /\ m \in Seq(Octet)
             /\ Piece(S, r, f.from + p) /\ Len(r) = Len(d) - p /\ r \in Seq(Octet)
             /\ end - Len(r) = f.from + p /\ f.from + p + Len(r) = end
             /\ Boundary(S, f.from + p)
  <2>1. Piece(S, SubSeq(d, 0 + 1, p), f.from + 0) /\ Len(SubSeq(d, 0 + 1, p)) = p - 0
    BY <1>1, <1>6, PieceCut
  <2>2. Piece(S, m, f.from) /\ Len(m) = p
    BY <1>1, <2>1
  <2>3. p <= Len(d) /\ Len(d) <= Len(d)
    BY <1>1, <1>6
  <2>4. Piece(S, r, f.from + p) /\ Len(r) = Len(d) - p
    <3> HIDE DEF S, d, p
    <3>1. Piece(S, SubSeq(d, p + 1, Len(d)), f.from + p)
          /\ Len(SubSeq(d, p + 1, Len(d))) = Len(d) - p
      BY <1>1, <2>3, PieceCut
    <3>2. QED BY <3>1
  <2>5. end - Len(r) = f.from + p /\ f.from + p + Len(r) = end
    <3>1. Len(r) = Len(d) - p
      BY <2>4
    <3> HIDE DEF r
    <3>2. QED BY <1>1, <3>1
  <2>6. Boundary(S, f.from + p)
    <3>1. f.from + Len(d) <= Len(S)
      BY <1>1 DEF Piece
    <3>2. f.from + p \in 0 .. Len(S)
      BY <1>1, <1>6, <3>1
    <3>3. QED BY <1>1, <1>6, <3>2 DEF Boundary
  <2>7. QED BY <2>2, <2>4, <2>5, <2>6 DEF Piece
<1> HIDE DEF r, m
<1>7. CASE Reject(f)
  <2>1. UNCHANGED <<deframer, lastFrame>>
    BY <1>7 DEF Reject, Note, Takes
  <2>2. \A u \in VCs : \E T \in Seq(Octet) :
           stream'[u] = stream[u] \o T /\ (T # <<>> => T[1].at = 0)
    <3> SUFFICES ASSUME NEW u \in VCs
                 PROVE  \E T \in Seq(Octet) : stream'[u] = stream[u] \o T /\ (T # <<>> => T[1].at = 0)
      OBVIOUS
    <3>1. stream[u] \in Seq(Octet)
      BY DEF SenderOK
    <3>2. stream[u] \o <<>> = stream[u] /\ <<>> \in Seq(Octet)
      BY <3>1
    <3>3. QED BY <3>2
  <2>3. ReceiverOK'
    BY <2>1, <2>2, ReceiverStays
  <2>4. QED BY <2>1, <2>3 DEF deframer
<1>8. CASE Filter(f)
  <2>1. /\ UNCHANGED <<pc, cur, rest, pending, inSync, lastCount, delivered>>
        /\ lastFrame' = lastFrame
    BY <1>8 DEF Filter, Note, Takes
  <2>2. \A u \in VCs : End(u)' = End(u) /\ Mark(u)' = Mark(u)
    BY <2>1 DEF End, Mark
  <2>3. \A u \in VCs : AtPacket(u)' = AtPacket(u)
    BY <2>1, <2>2 DEF AtPacket
  <2>4. ReceiverTypes'
    BY <2>1 DEF ReceiverOK, ReceiverTypes
  <2>5. pc' = "finish" =>
          /\ Piece(stream'[cur'], rest', End(cur)' - Len(rest'))
          /\ Boundary(stream'[cur'], End(cur)' - Len(rest'))
    BY <2>1, <2>2 DEF ReceiverOK
  <2>6. \A u \in VCs :
          /\ lastCount'[u] = IF lastFrame'[u] = None THEN None ELSE lastFrame'[u].count
          /\ inSync'[u] => lastFrame'[u] # None /\ AtPacket(u)'
          /\ ~inSync'[u] => pending'[u] = <<>>
    BY <2>1, <2>3 DEF ReceiverOK
  <2>7. pc' # "ready" => cur' \in VCs /\ lastFrame'[cur'] # None
    BY <2>1 DEF ReceiverOK
  <2>8. QED BY <2>1, <2>4, <2>5, <2>6, <2>7 DEF ReceiverOK
<1>9. CASE AcceptIdle(f)
  <2>1. /\ Takes(f) /\ p = OnlyIdle
        /\ lastCount' = [lastCount EXCEPT ![f.vc] = f.count]
        /\ pending' = [pending EXCEPT ![f.vc] = Held(f)]
        /\ inSync' = [inSync EXCEPT ![f.vc] = Synced(f)]
        /\ UNCHANGED <<pc, cur, rest, delivered>>
    BY <1>9 DEF AcceptIdle, Counted, Leave
  <2>2. end = f.from
    BY <1>1, <2>1
  <2>3. pc = "ready" /\ pc' = "ready"
    BY <1>5, <2>1
  <2>4. Synced(f) => \E a \in Nat : /\ Piece(S, Held(f), a) /\ Boundary(S, a)
                                    /\ a + Len(Held(f)) = end
    BY <1>4, <2>1, <2>2
  <2> HIDE DEF end
  <2>5. end = f.from + Len(f.data)
    BY DEF end
  <2> DEFINE o == Held(f)
             y == Synced(f)
  <2>6. /\ y => \E a \in Nat : Piece(S, o, a) /\ Boundary(S, a) /\ a + Len(o) = end
        /\ o \in Seq(Octet) /\ y \in BOOLEAN /\ (~y => o = <<>>)
        /\ pending' = [pending EXCEPT ![f.vc] = o] /\ inSync' = [inSync EXCEPT ![f.vc] = y]
    BY <1>3, <2>1, <2>4
  <2> HIDE DEF o, y
  <2>7. /\ UNCHANGED <<stream, delivered>> /\ rest' \in Seq(Octet)
        /\ lastFrame' = [lastFrame EXCEPT ![f.vc] = f]
        /\ lastCount' = [lastCount EXCEPT ![f.vc] = f.count]
    BY <1>2, <1>5, <2>1
  <2>8. ReceiverOK'
    BY <1>1, <1>2, <2>3, <2>5, <2>6, <2>7, TakeKeepsReceiver
  <2>9. QED BY <2>1, <2>8
<1>10. CASE AcceptBadPointer(f)
  <2>1. /\ Takes(f)
        /\ lastCount' = [lastCount EXCEPT ![f.vc] = f.count]
        /\ pending' = [pending EXCEPT ![f.vc] = <<>>]
        /\ inSync' = [inSync EXCEPT ![f.vc] = FALSE]
        /\ UNCHANGED <<pc, cur, rest, delivered>>
    BY <1>10 DEF AcceptBadPointer, Counted, Leave
  <2>2. pc = "ready" /\ pc' = "ready" /\ <<>> \in Seq(Octet) /\ FALSE \in BOOLEAN
    BY <1>5, <2>1
  <2>3. ReceiverOK'
    BY <1>1, <1>2, <1>5, <2>1, <2>2, TakeKeepsReceiver
  <2>4. QED BY <2>1, <2>3
<1>11. CASE AcceptNoStart(f)
  <2>1. /\ Takes(f)
        /\ lastCount' = [lastCount EXCEPT ![f.vc] = f.count]
        /\ UNCHANGED delivered
    BY <1>11 DEF AcceptNoStart, Counted
  <2>2. CASE /\ Synced(f)
             /\ Leave(f, Held(f) \o f.data, TRUE)
             /\ Continue("last", f, <<>>)
    <3>1. /\ pending' = [pending EXCEPT ![f.vc] = Held(f) \o f.data]
          /\ inSync' = [inSync EXCEPT ![f.vc] = TRUE]
          /\ pc' = "last" /\ cur' = f.vc /\ rest' = <<>>
      BY <2>2 DEF Leave, Continue
    <3>2. PICK a \in Nat : /\ Piece(S, Held(f), a) /\ Boundary(S, a)
                           /\ a + Len(Held(f)) = f.from
      BY <1>4, <2>1, <2>2
    <3>3. Piece(S, Held(f) \o d, a) /\ Len(Held(f) \o d) = Len(Held(f)) + Len(d)
      BY <1>1, <3>2, PieceJoin
    <3>4. Held(f) \o d \in Seq(Octet)
      BY <1>1, <1>3
    <3> DEFINE o == Held(f) \o d
    <3> HIDE DEF o
    <3>5. a + Len(o) = end
      <4>1. Len(o) = Len(Held(f)) + Len(d) /\ Len(Held(f)) \in Nat
        BY <1>3, <3>3 DEF o
      <4>2. QED BY <1>1, <3>2, <4>1
    <3>6. \E b \in Nat : Piece(S, o, b) /\ Boundary(S, b) /\ b + Len(o) = end
      BY <3>2, <3>3, <3>5 DEF o
    <3>7. pending' = [pending EXCEPT ![f.vc] = o] /\ o \in Seq(Octet)
      BY <3>1, <3>4 DEF o
    <3>8. end = f.from + Len(f.data) /\ pc' # "finish" /\ rest' \in Seq(Octet)
          /\ pc' \in {"ready", "finish", "last"}
      BY <3>1
    <3> HIDE DEF end
    <3>9. ReceiverOK'
      BY <1>1, <1>2, <1>5, <2>1, <3>1, <3>6, <3>7, <3>8, TakeKeepsReceiver
    <3>10. QED BY <2>1, <3>9
  <2>3. CASE /\ ~Synced(f)
             /\ Leave(f, Held(f), FALSE)
             /\ UNCHANGED <<pc, cur, rest>>
    <3>1. /\ pending' = [pending EXCEPT ![f.vc] = <<>>]
          /\ inSync' = [inSync EXCEPT ![f.vc] = FALSE]
          /\ UNCHANGED <<pc, cur, rest>>
      BY <1>3, <2>3 DEF Leave
    <3>2. pc = "ready" /\ pc' = "ready" /\ <<>> \in Seq(Octet) /\ FALSE \in BOOLEAN
      BY <1>5, <2>1, <3>1
    <3>3. ReceiverOK'
      BY <1>1, <1>2, <1>5, <2>1, <3>1, <3>2, TakeKeepsReceiver
    <3>4. QED BY <2>1, <3>3
  <2>4. QED BY <1>11, <2>2, <2>3 DEF AcceptNoStart
<1>12. CASE AcceptPointer(f)
  <2>1. /\ Takes(f) /\ p < Len(d)
        /\ lastCount' = [lastCount EXCEPT ![f.vc] = f.count]
        /\ UNCHANGED delivered
    BY <1>12 DEF AcceptPointer, Counted
  <2>2. CASE /\ Synced(f)
             /\ Leave(f, Held(f) \o SubSeq(f.data, 1, f.fhp), TRUE)
             /\ Continue("finish", f, SubSeq(f.data, f.fhp + 1, Len(f.data)))
    <3>1. /\ pending' = [pending EXCEPT ![f.vc] = Held(f) \o m]
          /\ inSync' = [inSync EXCEPT ![f.vc] = TRUE]
          /\ pc' = "finish" /\ cur' = f.vc /\ rest' = r
      BY <2>2 DEF Leave, Continue, m, r
    <3>2. PICK a \in Nat : /\ Piece(S, Held(f), a) /\ Boundary(S, a)
                           /\ a + Len(Held(f)) = f.from
      BY <1>4, <2>1, <2>2
    <3>3. Piece(S, Held(f) \o m, a) /\ Len(Held(f) \o m) = Len(Held(f)) + Len(m)
      <4>1. Piece(S, m, a + Len(Held(f))) /\ S \in Seq(Octet)
        BY <1>1, <1>6, <2>1, <3>2
      <4>2. QED BY <3>2, <4>1, PieceJoin
    <3>4. Held(f) \o m \in Seq(Octet)
      BY <1>3, <1>6, <2>1
    <3> DEFINE o == Held(f) \o m
    <3> HIDE DEF o
    <3>5. a + Len(o) = end - Len(r)
      <4>1. Len(o) = Len(Held(f)) + Len(m) /\ Len(Held(f)) \in Nat
        BY <1>3, <3>3 DEF o
      <4>2. Len(m) = p /\ end - Len(r) = f.from + p
        BY <1>6, <2>1
      <4>3. QED BY <1>1, <3>2, <4>1, <4>2
    <3>6. \E b \in Nat : Piece(S, o, b) /\ Boundary(S, b) /\ b + Len(o) = end - Len(r)
      BY <3>2, <3>3, <3>5 DEF o
    <3>7. pending' = [pending EXCEPT ![f.vc] = o] /\ o \in Seq(Octet)
      BY <3>1, <3>4 DEF o
    <3>8. /\ end = f.from + Len(f.data) /\ rest' = r /\ rest' \in Seq(Octet)
          /\ pc' \in {"ready", "finish", "last"} /\ pc' = "finish"
          /\ Piece(S, rest', end - Len(rest')) /\ Boundary(S, end - Len(rest'))
      <4>1. rest' = r /\ pc' = "finish"
        BY <3>1
      <4>2. Piece(S, r, end - Len(r)) /\ Boundary(S, end - Len(r)) /\ r \in Seq(Octet)
        BY <1>6, <2>1
      <4>3. QED BY <4>1, <4>2
    <3> HIDE DEF end
    <3>9. ReceiverOK'
      <4>1. \E b \in Nat : /\ Piece(S, o, b) /\ Boundary(S, b)
                            /\ b + Len(o) = IF pc' = "finish" THEN end - Len(rest') ELSE end
        BY <3>6, <3>8
      <4>2. /\ pc = "ready" /\ f \in Frame /\ o \in Seq(Octet)
            /\ lastFrame' = [lastFrame EXCEPT ![f.vc] = f]
            /\ lastCount' = [lastCount EXCEPT ![f.vc] = f.count]
            /\ pending' = [pending EXCEPT ![f.vc] = o]
            /\ inSync' = [inSync EXCEPT ![f.vc] = TRUE]
            /\ UNCHANGED <<stream, delivered>> /\ cur' = f.vc
        BY <1>1, <1>5, <2>1, <3>1, <3>7
      <4>3. /\ Piece(stream[f.vc], rest', end - Len(rest'))
            /\ Boundary(stream[f.vc], end - Len(rest'))
            /\ \E b \in Nat : /\ Piece(stream[f.vc], o, b) /\ Boundary(stream[f.vc], b)
                              /\ b + Len(o) = IF pc' = "finish" THEN end - Len(rest') ELSE end
        BY <3>8, <4>1
      <4> HIDE DEF v, S, d, p
      <4>4. QED BY <1>2, <3>8, <4>2, <4>3, TakeKeepsReceiver
    <3>10. QED BY <2>1, <3>9
  <2>3. CASE /\ ~Synced(f)
             /\ Leave(f, SubSeq(f.data, f.fhp + 1, Len(f.data)), TRUE)
             /\ Continue("last", f, <<>>)
    <3>1. /\ pending' = [pending EXCEPT ![f.vc] = r]
          /\ inSync' = [inSync EXCEPT ![f.vc] = TRUE]
          /\ pc' = "last" /\ cur' = f.vc /\ rest' = <<>>
      BY <2>3 DEF Leave, Continue, r
    <3>2. /\ Piece(S, r, f.from + p) /\ Boundary(S, f.from + p) /\ f.from + p + Len(r) = end
          /\ f.from + p \in Nat /\ r \in Seq(Octet)
      BY <1>1, <1>6, <2>1, SMTT(30)
    <3>3. \E b \in Nat : Piece(S, r, b) /\ Boundary(S, b) /\ b + Len(r) = end
      BY <3>2
    <3>4. end = f.from + Len(f.data) /\ pc' # "finish" /\ rest' \in Seq(Octet)
          /\ pc' \in {"ready", "finish", "last"}
      BY <3>1
    <3> HIDE DEF end
    <3>5. ReceiverOK'
      BY <1>1, <1>2, <1>5, <2>1, <3>1, <3>2, <3>3, <3>4, TakeKeepsReceiver
    <3>6. QED BY <2>1, <3>5
  <2>4. QED BY <1>12, <2>2, <2>3 DEF AcceptPointer
<1>13. QED BY <1>7, <1>8, <1>9, <1>10, <1>11, <1>12 DEF HandleFrame

\* Octets that start at a boundary read as the packet they are.
LEMMA PieceReads ==
    ASSUME NEW S, Whole(S), NEW q, NEW a, Piece(S, q, a), Boundary(S, a), Len(q) >= HdrLen
    PROVE  LET p == q[1].pkt IN
           /\ a < Len(S) /\ p \in Packet /\ p.len > HdrLen /\ a + p.len <= Len(S)
           /\ Boundary(S, a + p.len)
           /\ \A j \in 0 .. p.len - 1 : S[a + 1 + j] = [pkt |-> p, at |-> j]
           /\ Readings(q) = {[version0 |-> TRUE, len |-> p.len, idle |-> p.idle]}
<1>1. /\ q \in Seq(Octet) /\ a \in Nat /\ Len(q) \in Nat /\ S \in Seq(Octet) /\ Len(S) \in Nat
      /\ a + Len(q) <= Len(S)
  BY DEF Piece, Whole
<1>2. Len(q) > 0 /\ HdrLen \in Nat /\ HdrLen > 0
  BY <1>1, FormatAssumption
<1>3. a < Len(S)
  BY <1>1, <1>2
<1> DEFINE p == S[a + 1].pkt
<1>4. /\ p \in Packet /\ p.len > HdrLen /\ a + p.len <= Len(S)
      /\ \A j \in 0 .. p.len - 1 : S[a + 1 + j] = [pkt |-> p, at |-> j]
      /\ Boundary(S, a + p.len)
  BY <1>3, WholePacket
<1>5. p.len \in Nat
  BY <1>4 DEF Packet
<1> HIDE DEF p
<1>6. \A i \in 1 .. HdrLen : q[i] = [pkt |-> p, at |-> i - 1]
  <2> SUFFICES ASSUME NEW i \in 1 .. HdrLen PROVE q[i] = [pkt |-> p, at |-> i - 1]
    OBVIOUS
  <2>1. i \in 1 .. Len(q) /\ i - 1 \in 0 .. p.len - 1 /\ a + 1 + (i - 1) = a + i
    BY <1>1, <1>2, <1>4, <1>5
  <2>2. q[i] = S[a + i]
    BY <2>1 DEF Piece
  <2>3. QED BY <1>4, <2>1, <2>2
<1>7. q[1].pkt = p
  <2>1. q[1] = [pkt |-> p, at |-> 1 - 1]
    BY <1>2, <1>6
  <2>2. QED BY <2>1
<1>8. Readings(q) = {[version0 |-> TRUE, len |-> p.len, idle |-> p.idle]}
  <2>1. Intact(q)
    BY <1>6, <1>7 DEF Intact
  <2>2. QED BY <1>7, <2>1 DEF Readings
<1>9. QED BY <1>3, <1>4, <1>7, <1>8

\* A header at the front is one packet's own.
LEMMA HeaderReads ==
    ASSUME SenderOK, ReceiverOK, HasHeader
    PROVE  /\ cur \in VCs /\ inSync[cur]
           /\ \E a \in Nat, p \in Packet :
                /\ Piece(stream[cur], pending[cur], a) /\ Boundary(stream[cur], a)
                /\ a + Len(pending[cur]) = Mark(cur)
                /\ a < Len(stream[cur]) /\ p.len > HdrLen /\ a + p.len <= Len(stream[cur])
                /\ Boundary(stream[cur], a + p.len)
                /\ \A j \in 0 .. p.len - 1 : stream[cur][a + 1 + j] = [pkt |-> p, at |-> j]
                /\ Readings(pending[cur]) = {[version0 |-> TRUE, len |-> p.len, idle |-> p.idle]}
<1> DEFINE S == stream[cur]
           q == pending[cur]
<1>1. cur \in VCs /\ Len(q) >= HdrLen
  BY DEF HasHeader, ReceiverOK
<1>2. q \in Seq(Octet) /\ Whole(S) /\ Len(q) \in Nat
  <2>1. q \in Seq(Octet)
    BY <1>1 DEF ReceiverOK, ReceiverTypes
  <2>2. Whole(S)
    BY <1>1 DEF SenderOK
  <2>3. QED BY <2>1, <2>2
<1>3. Len(q) > 0 /\ HdrLen \in Nat /\ HdrLen > 0
  BY <1>1, <1>2, FormatAssumption
<1>4. inSync[cur]
  <2>1. q # <<>>
    BY <1>2, <1>3
  <2>2. QED BY <1>1, <2>1 DEF ReceiverOK
<1>5. AtPacket(cur)
  BY <1>1, <1>4 DEF ReceiverOK
<1>6. PICK a \in Nat : Piece(S, q, a) /\ Boundary(S, a) /\ a + Len(q) = Mark(cur)
  BY <1>5 DEF AtPacket
<1>7. QED
  <2> DEFINE p == q[1].pkt
  <2> HIDE DEF S, q
  <2>1. /\ a < Len(S) /\ p \in Packet /\ p.len > HdrLen /\ a + p.len <= Len(S)
        /\ Boundary(S, a + p.len)
        /\ \A i \in 0 .. p.len - 1 : S[a + 1 + i] = [pkt |-> p, at |-> i]
        /\ Readings(q) = {[version0 |-> TRUE, len |-> p.len, idle |-> p.idle]}
    BY <1>1, <1>2, <1>6, PieceReads
  <2>2. QED BY <1>1, <1>4, <1>6, <2>1 DEF S, q

\* A step of a drain changes one channel.
LEMMA DrainKeepsOthers ==
    ASSUME ReceiverOK, pc # "ready", NEW octets \in Seq(Octet),
           pending' = [pending EXCEPT ![cur] = octets], inSync' = [inSync EXCEPT ![cur] = TRUE],
           UNCHANGED <<cur, stream, lastFrame, lastCount>>,
           pc' \in {"ready", "finish", "last"}, pc' = "finish" => pc = "finish" /\ rest' = rest,
           rest' \in Seq(Octet), delivered' \in [VCs -> Seq(Seq(Octet))],
           \E a \in Nat : /\ Piece(stream[cur], octets, a) /\ Boundary(stream[cur], a)
                          /\ a + Len(octets) = IF pc' = "finish" THEN Mark(cur) ELSE End(cur)
    PROVE  ReceiverOK'
<1>1. cur \in VCs /\ lastFrame[cur] # None
  BY DEF ReceiverOK
<1>2. pending \in [VCs -> Seq(Octet)] /\ inSync \in [VCs -> BOOLEAN]
  BY DEF ReceiverOK, ReceiverTypes
<1>3. /\ pending'[cur] = octets /\ inSync'[cur]
      /\ \A v \in VCs \ {cur} : pending'[v] = pending[v] /\ inSync'[v] = inSync[v]
  BY <1>1, <1>2
<1>4. ReceiverTypes'
  BY <1>1, <1>2 DEF ReceiverOK, ReceiverTypes
<1>5. \A v \in VCs : End(v)' = End(v)
  BY DEF End
<1>6. ASSUME pc' = "finish"
      PROVE  Mark(cur)' = Mark(cur)
  BY <1>1, <1>5, <1>6 DEF Mark
<1>7. AtPacket(cur)'
  <2>1. Mark(cur)' = IF pc' = "finish" THEN Mark(cur) ELSE End(cur)
    BY <1>1, <1>5, <1>6 DEF Mark
  <2>2. PICK a \in Nat : /\ Piece(stream[cur], octets, a) /\ Boundary(stream[cur], a)
                         /\ a + Len(octets) = IF pc' = "finish" THEN Mark(cur) ELSE End(cur)
    OBVIOUS
  <2>3. /\ Piece(stream'[cur'], pending'[cur'], a) /\ Boundary(stream'[cur'], a)
        /\ a + Len(pending'[cur']) = Mark(cur)'
    BY <1>3, <2>1, <2>2
  <2>4. QED BY <2>3 DEF AtPacket
<1>8. ASSUME NEW v \in VCs \ {cur}, AtPacket(v) PROVE AtPacket(v)'
  <2>1. PICK a \in Nat : /\ Piece(stream[v], pending[v], a) /\ Boundary(stream[v], a)
                         /\ a + Len(pending[v]) = Mark(v)
    BY <1>8 DEF AtPacket
  <2>2. Mark(v)' = Mark(v)
    BY <1>5 DEF Mark
  <2>3. /\ Piece(stream'[v], pending'[v], a) /\ Boundary(stream'[v], a)
        /\ a + Len(pending'[v]) = Mark(v)'
    BY <1>3, <2>1, <2>2
  <2>4. QED BY <2>3 DEF AtPacket
<1>9. ASSUME NEW v \in VCs
      PROVE  /\ lastCount'[v] = IF lastFrame'[v] = None THEN None ELSE lastFrame'[v].count
             /\ inSync'[v] => lastFrame'[v] # None /\ AtPacket(v)'
             /\ ~inSync'[v] => pending'[v] = <<>>
  <2>1. /\ lastCount[v] = IF lastFrame[v] = None THEN None ELSE lastFrame[v].count
        /\ inSync[v] => lastFrame[v] # None /\ AtPacket(v)
        /\ ~inSync[v] => pending[v] = <<>>
    BY DEF ReceiverOK
  <2>2. lastCount' = lastCount /\ lastFrame' = lastFrame
    OBVIOUS
  <2>3. CASE v = cur
    <3>1. AtPacket(v)'
      BY <1>7, <2>3
    <3>2. QED BY <1>1, <1>3, <2>1, <2>2, <2>3, <3>1
  <2>4. CASE v # cur
    BY <1>3, <1>8, <2>1, <2>2, <2>4
  <2>5. QED BY <2>3, <2>4
<1>10. ASSUME pc' = "finish"
       PROVE  /\ Piece(stream'[cur'], rest', End(cur)' - Len(rest'))
              /\ Boundary(stream'[cur'], End(cur)' - Len(rest'))
  <2>1. pc = "finish" /\ rest' = rest /\ cur' = cur /\ stream' = stream
    BY <1>10
  <2>2. QED BY <1>1, <1>5, <2>1 DEF ReceiverOK
<1>11. QED BY <1>1, <1>4, <1>9, <1>10 DEF ReceiverOK

\* What is drained is whole packets.
LEMMA DrainKeeps ==
    ASSUME SenderOK, FramesOK, ReceiverOK, DeliveredOK, Drain, UNCHANGED <<stream, lastFrame>>
    PROVE  ReceiverOK' /\ DeliveredOK'
<1> DEFINE S == stream[cur]
           q == pending[cur]
<1>1. pc # "ready"
  BY DEF Drain, Extract, DrainLosesSync, DrainEnds, HasHeader
<1>2. /\ cur \in VCs /\ lastFrame[cur] # None /\ q \in Seq(Octet) /\ rest \in Seq(Octet)
      /\ pc \in {"ready", "finish", "last"} /\ delivered \in [VCs -> Seq(Seq(Octet))]
      /\ inSync \in [VCs -> BOOLEAN] /\ pending \in [VCs -> Seq(Octet)]
  BY <1>1 DEF ReceiverOK, ReceiverTypes
<1>3. End(cur) \in Nat
  <2>1. lastFrame[cur] \in Frame
    BY <1>2 DEF FramesOK
  <2>2. lastFrame[cur].from \in Nat /\ lastFrame[cur].data \in Seq(Octet)
    BY <2>1 DEF Frame
  <2>3. QED BY <2>2 DEF End
<1>4. CASE Extract
  <2>1. /\ HasHeader
        /\ UNCHANGED <<pc, cur, rest, lastCount>> /\ inSync' = inSync
    BY <1>4 DEF Extract
  <2>2. PICK a \in Nat, p \in Packet :
           /\ inSync[cur]
           /\ Piece(S, q, a) /\ Boundary(S, a) /\ a + Len(q) = Mark(cur)
           /\ a < Len(S) /\ p.len > HdrLen /\ a + p.len <= Len(S)
           /\ Boundary(S, a + p.len)
           /\ \A j \in 0 .. p.len - 1 : S[a + 1 + j] = [pkt |-> p, at |-> j]
           /\ Readings(q) = {[version0 |-> TRUE, len |-> p.len, idle |-> p.idle]}
    BY <2>1, HeaderReads
  <2> DEFINE o == SubSeq(q, p.len + 1, Len(q))
             s == SubSeq(q, 1, p.len)
  <2>3. /\ Len(q) >= p.len /\ pending' = [pending EXCEPT ![cur] = o]
        /\ delivered' = [delivered EXCEPT ![cur] = IF p.idle THEN @ ELSE Append(@, s)]
    <3>1. PICK h \in Readings(q) :
             /\ Len(q) >= h.len
             /\ pending' = [pending EXCEPT ![cur] = SubSeq(@, h.len + 1, Len(@))]
             /\ delivered' = [delivered EXCEPT ![cur] =
                                IF h.idle THEN @ ELSE Append(@, SubSeq(q, 1, h.len))]
      BY <1>4 DEF Extract
    <3>2. h.len = p.len /\ h.idle = p.idle
      BY <2>2
    <3>3. pending' = [pending EXCEPT ![cur] = o]
      BY <1>2, <3>1, <3>2
    <3>4. QED BY <3>1, <3>2, <3>3
  <2>4. p.len \in Nat /\ p.len > 0 /\ Len(q) \in Nat /\ p.idle \in BOOLEAN
    <3>1. p.len \in Nat /\ p.idle \in BOOLEAN
      BY DEF Packet
    <3>2. Len(q) \in Nat
      BY <1>2
    <3>3. QED BY <2>2, <3>1, <3>2, FormatAssumption
  <2>5. Piece(S, o, a + p.len) /\ Len(o) = Len(q) - p.len
    <3>1. S \in Seq(Octet) /\ p.len <= Len(q) /\ Len(q) <= Len(q)
      BY <1>2, <2>3, <2>4 DEF SenderOK
    <3> DEFINE n == p.len
    <3>2. n \in Nat
      BY <2>4
    <3> HIDE DEF S, q, n
    <3>3. Piece(S, SubSeq(q, n + 1, Len(q)), a + n) /\ Len(SubSeq(q, n + 1, Len(q))) = Len(q) - n
      BY <2>2, <2>4, <3>1, <3>2, PieceCut, SMTT(30) DEF n
    <3>4. QED BY <3>3 DEF n
  <2>6. Piece(S, s, a) /\ Len(s) = p.len
    <3>1. S \in Seq(Octet)
      BY <1>2 DEF SenderOK
    <3> DEFINE n == p.len
    <3>2. n \in Nat /\ n <= Len(q) /\ 0 \in Nat /\ 0 <= n
      BY <2>3, <2>4
    <3> HIDE DEF S, q, n
    <3>3. Piece(S, SubSeq(q, 0 + 1, n), a + 0) /\ Len(SubSeq(q, 0 + 1, n)) = n - 0
      BY <2>2, <3>1, <3>2, PieceCut, ZenonT(30)
    <3>4. 0 + 1 = 1 /\ a + 0 = a /\ n - 0 = n
      BY <3>2
    <3>5. QED BY <3>3, <3>4 DEF n
  <2>7. s = Octets(p)
    <3>1. s \in Seq(Octet) /\ Octets(p) \in Seq(Octet) /\ Len(Octets(p)) = p.len
      BY <2>6, OctetsType DEF Piece
    <3> HIDE DEF s
    <3>2. \A i \in 1 .. p.len : s[i] = Octets(p)[i]
      <4> SUFFICES ASSUME NEW i \in 1 .. p.len PROVE s[i] = Octets(p)[i]
        OBVIOUS
      <4>1. i - 1 \in 0 .. p.len - 1 /\ a + 1 + (i - 1) = a + i
        BY <2>4
      <4>2. s[i] = S[a + i]
        BY <2>6 DEF Piece
      <4>3. S[a + i] = [pkt |-> p, at |-> i - 1]
        BY <2>2, <4>1
      <4>4. QED BY <4>2, <4>3, OctetsType
    <3>3. QED BY <2>6, <3>1, <3>2
  <2>8. ~p.idle => Genuine(cur, s)
    <3> HIDE DEF s
    <3>1. s[1] = [pkt |-> p, at |-> 0]
      <4>1. Octets(p)[1] = [pkt |-> p, at |-> 1 - 1]
        BY <2>4, OctetsType
      <4>2. QED BY <2>7, <4>1
    <3>2. s[1] \in ToSet(S)
      <4>1. S[a + 1 + 0] = [pkt |-> p, at |-> 0] /\ a + 1 + 0 = a + 1
        BY <2>2, <2>4
      <4>2. S \in Seq(Octet)
        BY <1>2 DEF SenderOK
      <4>3. a + 1 \in DOMAIN S
        BY <2>2, <4>2
      <4>4. QED BY <3>1, <4>1, <4>3 DEF ToSet
    <3>3. s[1].pkt = p
      BY <3>1
    <3>4. QED BY <2>7, <3>2, <3>3 DEF Genuine
  <2>9. s \in Seq(Octet) /\ o \in Seq(Octet)
    BY <2>5, <2>6 DEF Piece
  <2> HIDE DEF s, o
  <2>10. DeliveredOK'
    <3> SUFFICES ASSUME NEW v \in VCs, NEW t \in ToSet(delivered'[v])
                 PROVE  Genuine(v, t)'
      BY DEF DeliveredOK
    <3>1. Genuine(v, t)
      <4>1. CASE t \in ToSet(delivered[v])
        BY <4>1 DEF DeliveredOK
      <4>2. CASE t \notin ToSet(delivered[v])
        <5>1. v = cur /\ ~p.idle /\ delivered'[v] = Append(delivered[v], s)
          BY <1>2, <2>3, <4>2
        <5>2. delivered[v] \in Seq(Seq(Octet))
          BY <1>2
        <5> DEFINE z == delivered[v]
        <5>3. z \in Seq(Seq(Octet)) /\ t \in ToSet(Append(z, s)) /\ t \notin ToSet(z)
          BY <4>2, <5>1, <5>2
        <5> HIDE DEF z
        <5>4. PICK k \in DOMAIN Append(z, s) : t = Append(z, s)[k]
          BY <5>3 DEF ToSet
        <5>5. k \in 1 .. Len(z) + 1 /\ t = IF k = Len(z) + 1 THEN s ELSE z[k]
          BY <2>9, <5>3, <5>4
        <5>6. t = s
          <6>1. k # Len(z) + 1 => k \in DOMAIN z /\ t = z[k]
            BY <5>3, <5>5
          <6>2. QED BY <5>3, <5>5, <6>1 DEF ToSet
        <5>7. QED BY <2>8, <5>1, <5>6
      <4>3. QED BY <4>1, <4>2
    <3>2. QED BY <3>1 DEF Genuine
  <2>11. ReceiverOK'
    <3>1. inSync' = [inSync EXCEPT ![cur] = TRUE]
      BY <1>2, <2>1, <2>2
    <3>2. delivered' \in [VCs -> Seq(Seq(Octet))]
      <4>1. delivered[cur] \in Seq(Seq(Octet))
        BY <1>2
      <4>2. Append(delivered[cur], s) \in Seq(Seq(Octet))
        BY <2>9, <4>1
      <4>3. QED BY <1>2, <2>3, <4>1, <4>2
    <3>3. a + p.len \in Nat /\ a + p.len + Len(o) = Mark(cur)
      BY <1>2, <2>2, <2>4, <2>5
    <3>4. Mark(cur) = IF pc' = "finish" THEN Mark(cur) ELSE End(cur)
      BY <2>1 DEF Mark
    <3>5. \E b \in Nat : /\ Piece(S, o, b) /\ Boundary(S, b)
                         /\ b + Len(o) = IF pc' = "finish" THEN Mark(cur) ELSE End(cur)
      BY <2>2, <2>5, <3>3, <3>4
    <3>6. pc' \in {"ready", "finish", "last"} /\ (pc' = "finish" => pc = "finish" /\ rest' = rest)
          /\ rest' \in Seq(Octet)
      BY <1>2, <2>1
    <3>7. QED BY <1>1, <2>1, <2>3, <2>9, <3>1, <3>2, <3>5, <3>6, DrainKeepsOthers
  <2>12. QED BY <2>10, <2>11
<1>5. CASE DrainLosesSync
  <2>1. HasHeader /\ \E h \in Readings(q) : ~h.version0
    BY <1>5 DEF DrainLosesSync
  <2>2. PICK p \in Packet : Readings(q) = {[version0 |-> TRUE, len |-> p.len, idle |-> p.idle]}
    BY <2>1, HeaderReads
  <2>3. QED BY <2>1, <2>2
<1>6. CASE DrainEnds
  <2>1. UNCHANGED <<cur, lastCount, delivered>>
    BY <1>6 DEF DrainEnds
  <2>2. DeliveredOK'
    BY <2>1 DEF DeliveredOK, Genuine
  <2>3. CASE /\ pc = "finish"
             /\ pending' = [pending EXCEPT ![cur] = rest]
             /\ inSync' = [inSync EXCEPT ![cur] = TRUE]
             /\ pc' = "last" /\ rest' = <<>>
    <3>1. /\ Piece(S, rest, End(cur) - Len(rest)) /\ Boundary(S, End(cur) - Len(rest))
      BY <2>3 DEF ReceiverOK
    <3>2. End(cur) - Len(rest) \in Nat
      BY <3>1 DEF Piece
    <3>3. (End(cur) - Len(rest)) + Len(rest) = End(cur)
      <4>1. Len(rest) \in Nat
        BY <1>2
      <4> DEFINE e == End(cur)
                 n == Len(rest)
      <4>2. e \in Nat /\ n \in Nat
        BY <1>3, <4>1
      <4> HIDE DEF e, n
      <4>3. (e - n) + n = e
        BY <4>2
      <4>4. QED BY <4>3 DEF e, n
    <3>4. \E b \in Nat : /\ Piece(S, rest, b) /\ Boundary(S, b)
                         /\ b + Len(rest) = IF pc' = "finish" THEN Mark(cur) ELSE End(cur)
      BY <2>3, <3>1, <3>2, <3>3
    <3>5. pc' \in {"ready", "finish", "last"} /\ (pc' = "finish" => pc = "finish" /\ rest' = rest)
          /\ rest' \in Seq(Octet) /\ delivered' \in [VCs -> Seq(Seq(Octet))]
      BY <1>2, <2>1, <2>3
    <3>6. ReceiverOK'
      BY <1>1, <1>2, <2>1, <2>3, <3>4, <3>5, DrainKeepsOthers
    <3>7. QED BY <2>2, <3>6
  <2>4. CASE /\ pc = "last" /\ pc' = "ready"
             /\ UNCHANGED <<pending, inSync, rest>>
    <3>1. \A v \in VCs : End(v)' = End(v) /\ Mark(v)' = Mark(v)
      BY <2>4 DEF End, Mark
    <3>2. \A v \in VCs : AtPacket(v)' = AtPacket(v)
      BY <2>4, <3>1 DEF AtPacket
    <3>3. ReceiverTypes'
      BY <2>1, <2>4 DEF ReceiverOK, ReceiverTypes
    <3>4. \A v \in VCs :
             /\ lastCount'[v] = IF lastFrame'[v] = None THEN None ELSE lastFrame'[v].count
             /\ inSync'[v] => lastFrame'[v] # None /\ AtPacket(v)'
             /\ ~inSync'[v] => pending'[v] = <<>>
      BY <2>1, <2>4, <3>2 DEF ReceiverOK
    <3>5. ReceiverOK'
      BY <2>4, <3>3, <3>4 DEF ReceiverOK
    <3>6. QED BY <2>2, <3>5
  <2>5. QED BY <1>6, <2>3, <2>4 DEF DrainEnds
<1>7. QED BY <1>4, <1>5, <1>6 DEF Drain

-----------------------------------------------------------------------------
(* The invariant. *)

LEMMA SameStream ==
    ASSUME SenderOK, UNCHANGED stream
    PROVE  \A u \in VCs : \E T \in Seq(Octet) :
                stream'[u] = stream[u] \o T /\ (T # <<>> => T[1].at = 0)
<1> SUFFICES ASSUME NEW u \in VCs
             PROVE  \E T \in Seq(Octet) : stream'[u] = stream[u] \o T /\ (T # <<>> => T[1].at = 0)
  OBVIOUS
<1>1. stream[u] \in Seq(Octet)
  BY DEF SenderOK
<1>2. stream[u] \o <<>> = stream[u] /\ <<>> \in Seq(Octet)
  BY <1>1
<1>3. QED BY <1>2

\* Sender and deframer rest: the frames under way are lost, marked, repeated.
LEMMA ChannelChanges ==
    ASSUME LInv, UNCHANGED <<framer, deframer, lastFrame>>, channel' \in Seq(Frame),
           \A f \in ToSet(channel') : \E g \in ToSet(channel) : Alike(f, g)
    PROVE  LInv'
<1>1. /\ UNCHANGED <<queued, starts, emitted, frameCount, mcCount, stream, packets, seqs>>
      /\ UNCHANGED delivered
  BY DEF framer, deframer
<1>2. SenderOK'
  BY <1>1 DEF LInv, SenderOK
<1>3. \A f \in Known' : \E g \in Known : Alike(f, g)
  <2> SUFFICES ASSUME NEW f \in Known' PROVE \E g \in Known : Alike(f, g)
    OBVIOUS
  <2>1. CASE f \in ToSet(channel')
    BY <2>1 DEF Known
  <2>2. CASE f \notin ToSet(channel')
    <3>1. f \in Known
      BY <2>2 DEF Known
    <3>2. f \in Frame
      BY <3>1 DEF LInv, FramesOK, FrameOK
    <3>3. QED BY <3>1, <3>2 DEF Alike
  <2>3. QED BY <2>1, <2>2
<1>4. FramesOK'
  <2>1. /\ lastFrame' \in [VCs -> Frame \cup {None}]
        /\ \A v \in VCs : lastFrame'[v] # None => lastFrame'[v].vc = v
    BY DEF LInv, FramesOK
  <2>2. QED BY <1>1, <1>3, <2>1, FramesStay DEF LInv
<1>5. ReceiverOK' /\ DeliveredOK'
  BY <1>1, SameStream, ReceiverStays, DeliveredStay DEF LInv
<1>6. QED BY <1>2, <1>4, <1>5 DEF LInv

\* The sender packs.
LEMMA QueueKeeps ==
    ASSUME LInv, NEW v \in VCs, NEW len \in Nat, len > HdrLen, NEW idle \in BOOLEAN,
           Queue(v, len, idle), UNCHANGED <<deframer, link>>
    PROVE  LInv'
<1>1. /\ SenderOK' /\ UNCHANGED <<emitted, seqs>>
      /\ \A u \in VCs : \E T \in Seq(Octet) :
            stream'[u] = stream[u] \o T /\ (T # <<>> => T[1].at = 0)
  BY QueueKeepsSender DEF LInv
<1>2. UNCHANGED <<channel, lastFrame, delivered>>
  BY DEF link, deframer
<1>3. FramesOK'
  BY <1>1, <1>2, FramesAfterQueue DEF LInv
<1>4. ReceiverOK' /\ DeliveredOK'
  BY <1>1, <1>2, ReceiverStays, DeliveredStay DEF LInv
<1>5. QED BY <1>1, <1>3, <1>4 DEF LInv

\* The sender emits.
LEMMA SendKeeps ==
    ASSUME LInv, NEW f, f.vc \in VCs, SenderOK', UNCHANGED stream,
           seqs' = [seqs EXCEPT ![f.vc] = @ + 1],
           \A u \in VCs : u # f.vc => emitted'[u] = emitted[u],
           FrameOK(f)', f.seq = seqs[f.vc], f.from = emitted[f.vc],
           channel' = Append(channel, f), UNCHANGED <<deframer, lastFrame>>
    PROVE  LInv'
<1>1. UNCHANGED delivered
  BY DEF deframer
<1>2. FramesOK'
  BY FramesAfterSend DEF LInv
<1>3. ReceiverOK' /\ DeliveredOK'
  BY <1>1, SameStream, ReceiverStays, DeliveredStay DEF LInv
<1>4. QED BY <1>2, <1>3 DEF LInv

\* The pipeline has missed frames and starts over.
LEMMA LaggedKeeps ==
    ASSUME LInv, Lagged
    PROVE  LInv'
<1>1. PICK n \in 1 .. Len(channel) :
         /\ Reset /\ channel' = SubSeq(channel, n + 1, Len(channel))
         /\ lastFrame' = [v \in VCs |-> None] /\ UNCHANGED framer
  BY DEF Lagged
<1>2. /\ UNCHANGED <<queued, starts, emitted, frameCount, mcCount, stream, packets, seqs>>
  BY <1>1 DEF framer
<1>3. SenderOK'
  BY <1>2 DEF LInv, SenderOK
<1>4. channel' \in Seq(Frame) /\ ToSet(channel') \subseteq ToSet(channel)
  <2>1. channel \in Seq(Frame) /\ Len(channel) \in Nat /\ n \in 1 .. Len(channel)
    BY DEF LInv, FramesOK
  <2>2. /\ SubSeq(channel, n + 1, Len(channel)) \in Seq(Frame)
        /\ Len(SubSeq(channel, n + 1, Len(channel))) = Len(channel) - n
        /\ \A i \in 1 .. Len(channel) - n :
              SubSeq(channel, n + 1, Len(channel))[i] = channel[n + i]
    BY <2>1
  <2>3. \A i \in 1 .. Len(channel) - n : n + i \in DOMAIN channel
    BY <2>1
  <2>4. QED BY <1>1, <2>2, <2>3 DEF ToSet
<1>5. \A f \in Known' : \E g \in Known : Alike(f, g)
  <2> SUFFICES ASSUME NEW f \in Known' PROVE \E g \in Known : Alike(f, g)
    OBVIOUS
  <2>1. f \in Known
    BY <1>1, <1>4 DEF Known
  <2>2. f \in Frame
    BY <2>1 DEF LInv, FramesOK, FrameOK
  <2>3. QED BY <2>1, <2>2 DEF Alike
<1>6. FramesOK'
  BY <1>1, <1>2, <1>4, <1>5, FramesStay DEF LInv
<1>7. /\ pc = "ready" /\ pc' = "ready" /\ rest' = rest /\ delivered' = delivered
      /\ pending' = [v \in VCs |-> <<>>] /\ inSync' = [v \in VCs |-> FALSE]
      /\ lastCount' = [v \in VCs |-> None]
  BY <1>1 DEF Reset
<1>8. ReceiverOK'
  <2>1. ReceiverTypes'
    <3>1. <<>> \in Seq(Octet)
      OBVIOUS
    <3>2. /\ pending' \in [VCs -> Seq(Octet)] /\ inSync' \in [VCs -> BOOLEAN]
          /\ lastCount' \in [VCs -> Nat \cup {None}]
      BY <1>7, <3>1
    <3>3. QED BY <1>7, <3>2 DEF LInv, ReceiverOK, ReceiverTypes
  <2>2. \A v \in VCs : /\ lastFrame'[v] = None /\ lastCount'[v] = None
                       /\ ~inSync'[v] /\ pending'[v] = <<>>
    BY <1>1, <1>7
  <2>3. QED BY <1>7, <2>1, <2>2 DEF ReceiverOK
<1>9. DeliveredOK'
  BY <1>2, <1>7 DEF LInv, DeliveredOK, Genuine
<1>10. QED BY <1>3, <1>6, <1>8, <1>9 DEF LInv

\* A frame is taken from the channel.
LEMMA ReceiveKeeps ==
    ASSUME LInv, Receive
    PROVE  LInv'
<1>1. PICK i \in 1 .. Len(channel) :
         /\ Window(channel[i]) /\ HandleFrame(channel[i]) /\ Note(channel[i])
         /\ channel' = RemoveAt(channel, i) /\ UNCHANGED framer
  BY DEF Receive
<1>2. PICK f : f = channel[i]
  OBVIOUS
<1>3. /\ UNCHANGED <<queued, starts, emitted, frameCount, mcCount, stream, packets, seqs>>
  BY <1>1 DEF framer
<1>4. channel \in Seq(Frame) /\ lastFrame \in [VCs -> Frame \cup {None}]
  BY DEF LInv, FramesOK
<1>5. f \in Frame /\ f \in Known /\ f.vc \in VCs
  <2>1. f \in ToSet(channel)
    BY <1>2, <1>4 DEF ToSet
  <2>2. f \in Frame
    BY <1>2, <1>4
  <2>3. f # None
    BY <2>2, LinkAssumption
  <2>4. QED BY <2>1, <2>2, <2>3 DEF Known, Frame
<1>6. channel' \in Seq(Frame) /\ ToSet(channel') \subseteq ToSet(channel)
  BY <1>1, <1>4, RemoveAtType
<1>7. SenderOK'
  BY <1>3 DEF LInv, SenderOK
<1>8. ReceiverOK' /\ UNCHANGED delivered
  BY <1>1, <1>2, <1>3, <1>5, HandleKeepsReceiver DEF LInv
<1>9. DeliveredOK'
  BY <1>3, <1>8 DEF LInv, DeliveredOK, Genuine
<1>10. \/ lastFrame' = lastFrame
       \/ lastFrame' = [lastFrame EXCEPT ![f.vc] = f]
  BY <1>1, <1>2 DEF Note
<1>11. /\ lastFrame' \in [VCs -> Frame \cup {None}]
       /\ \A v \in VCs : lastFrame'[v] # None => lastFrame'[v].vc = v
       /\ \A v \in VCs : lastFrame'[v] = lastFrame[v] \/ lastFrame'[v] = f
  <2>1. \A v \in VCs : lastFrame[v] # None => lastFrame[v].vc = v
    BY DEF LInv, FramesOK
  <2>2. CASE lastFrame' = lastFrame
    BY <1>4, <2>1, <2>2
  <2>3. CASE lastFrame' = [lastFrame EXCEPT ![f.vc] = f]
    BY <1>4, <1>5, <2>1, <2>3
  <2>4. QED BY <1>10, <2>2, <2>3
<1>12. \A g \in Known' : \E h \in Known : Alike(g, h)
  <2> SUFFICES ASSUME NEW g \in Known' PROVE \E h \in Known : Alike(g, h)
    OBVIOUS
  <2>1. g \in Known
    BY <1>5, <1>6, <1>11 DEF Known
  <2>2. g \in Frame
    BY <2>1 DEF LInv, FramesOK, FrameOK
  <2>3. QED BY <2>1, <2>2 DEF Alike
<1>13. FramesOK'
  BY <1>3, <1>6, <1>11, <1>12, FramesStay DEF LInv
<1>14. QED BY <1>7, <1>8, <1>9, <1>13 DEF LInv

\* On a link whose pointers arrive as sent.
TInv == scene \in Scenes /\ (Protected => LInv)

LEMMA IdleLenLong ==
    ASSUME NEW room \in Int
    PROVE  IdleLen(room) \in Nat /\ IdleLen(room) > HdrLen
<1> DEFINE n == IF room > HdrLen THEN room ELSE room + DataLen
<1>1. n \in Int /\ HdrLen \in Nat
  BY FormatAssumption
<1>2. IdleLen(room) = IF n > HdrLen THEN n ELSE HdrLen + 1
  BY DEF IdleLen
<1> HIDE DEF n
<1>3. QED BY <1>1, <1>2

LEMMA InvInit == Init => TInv
<1> SUFFICES ASSUME Init PROVE TInv
  OBVIOUS
<1>1. /\ scene \in Scenes /\ channel = <<>> /\ lastFrame = [v \in VCs |-> None]
      /\ FramerInit /\ DeframerInit
  BY DEF Init
<1>2. <<>> \in Seq(Octet) /\ <<>> \in Seq(Nat) /\ <<>> \in Seq(Frame) /\ <<>> \in Seq(Seq(Octet))
  OBVIOUS
<1>3. SenderOK
  <2>1. Whole(<<>>) /\ Piece(<<>>, <<>>, 0)
    BY <1>2 DEF Whole, Piece
  <2>2. 0 = 0 % Modulus
    BY FormatAssumption
  <2>3. QED BY <1>1, <1>2, <2>1, <2>2 DEF SenderOK, FramerInit
<1>4. FramesOK
  <2>1. Known = {}
    BY <1>1 DEF Known, ToSet
  <2>2. QED BY <1>1, <1>2, <2>1 DEF FramesOK
<1>5. ReceiverOK
  <2>1. ReceiverTypes
    BY <1>1, <1>2 DEF ReceiverTypes, DeframerInit
  <2>2. QED BY <1>1, <2>1 DEF ReceiverOK, DeframerInit
<1>6. DeliveredOK
  BY <1>1 DEF DeliveredOK, DeframerInit, ToSet
<1>7. QED BY <1>1, <1>3, <1>4, <1>5, <1>6 DEF TInv, LInv

LEMMA InvStep == TInv /\ [Next]_vars => TInv'
<1> SUFFICES ASSUME TInv, [Next]_vars PROVE TInv'
  OBVIOUS
<1>1. scene' = scene
  BY DEF Next, vars, link, PackPacket, FlushChannel, SendFrame, SendIdle, Lose, Damage, Mispoint,
         Duplicate, Stray, Lagged, Receive, DrainPackets
<1> SUFFICES ASSUME Protected, LInv PROVE LInv'
  BY <1>1 DEF TInv, Protected
<1>2. scene \in Scenes /\ scene.sizes \subseteq Sizes /\ scene.channels \subseteq VCs
  BY LinkAssumption DEF TInv, Scene
<1>3. channel \in Seq(Frame) /\ Len(channel) \in Nat
  BY DEF LInv, FramesOK
<1>4. CASE PackPacket
  <2>1. PICK v \in scene.channels, len \in scene.sizes :
           Queue(v, len, FALSE) /\ UNCHANGED <<deframer, link>>
    BY <1>4 DEF PackPacket, Pack
  <2>2. v \in VCs /\ len \in Nat /\ len > HdrLen /\ FALSE \in BOOLEAN
    <3>1. v \in VCs /\ len \in Sizes
      BY <1>2
    <3>2. QED BY <3>1, FormatAssumption
  <2>3. QED BY <2>1, <2>2, QueueKeeps
<1>5. CASE FlushChannel
  <2>1. PICK v \in VCs : Flush(v) /\ UNCHANGED <<deframer, link>>
    BY <1>5 DEF FlushChannel
  <2> DEFINE room == DataLen - (Len(queued[v]) % DataLen)
  <2>2. Queue(v, IdleLen(room), TRUE)
    BY <2>1 DEF Flush
  <2>3. room \in Int
    <3>1. Len(queued[v]) \in Nat
      <4>1. queued[v] \in Seq(Octet)
        BY DEF LInv, SenderOK
      <4>2. QED BY <4>1
    <3> DEFINE n == Len(queued[v])
    <3>2. n \in Nat
      BY <3>1
    <3> HIDE DEF n
    <3>3. DataLen - (n % DataLen) \in Int
      BY <3>2, FormatAssumption
    <3>4. QED BY <3>3 DEF n
  <2> HIDE DEF room
  <2>4. IdleLen(room) \in Nat /\ IdleLen(room) > HdrLen /\ TRUE \in BOOLEAN
    BY <2>3, IdleLenLong
  <2>5. QED BY <2>1, <2>2, <2>4, QueueKeeps
<1>6. CASE SendFrame
  <2>1. PICK v \in VCs : /\ EmitFrame(v) /\ channel' = Append(channel, NextFrame(v))
                         /\ UNCHANGED <<deframer, lastFrame>>
    BY <1>6 DEF SendFrame, Send
  <2>2. PICK f : f = NextFrame(v)
    OBVIOUS
  <2>3. /\ SenderOK' /\ UNCHANGED stream
        /\ emitted' = [emitted EXCEPT ![v] = @ + DataLen]
        /\ seqs' = [seqs EXCEPT ![v] = @ + 1]
        /\ FrameOK(f)' /\ f.vc = v /\ f.seq = seqs[v] /\ f.from = emitted[v]
    BY <2>1, <2>2, EmitKeepsSender DEF LInv
  <2>4. \A u \in VCs : u # v => emitted'[u] = emitted[u]
    BY <2>3 DEF LInv, SenderOK
  <2>5. QED BY <2>1, <2>2, <2>3, <2>4, SendKeeps
<1>7. CASE SendIdle
  <2>1. PICK v \in scene.channels :
           /\ EmitIdle(v) /\ channel' = Append(channel, MakeFrame(v, OnlyIdle, <<>>))
           /\ UNCHANGED <<deframer, lastFrame>>
    BY <1>7 DEF SendIdle, Send
  <2>2. PICK f : f = MakeFrame(v, OnlyIdle, <<>>)
    OBVIOUS
  <2>3. /\ SenderOK' /\ UNCHANGED <<stream, emitted>>
        /\ seqs' = [seqs EXCEPT ![v] = @ + 1]
        /\ FrameOK(f)' /\ f.vc = v /\ f.seq = seqs[v] /\ f.from = emitted[v]
    BY <1>2, <2>1, <2>2, IdleKeepsSender DEF LInv
  <2>4. \A u \in VCs : u # v => emitted'[u] = emitted[u]
    BY <2>3
  <2>5. QED BY <1>2, <2>1, <2>2, <2>3, <2>4, SendKeeps
<1>8. CASE Lose
  <2>1. PICK i \in 1 .. Len(channel) : channel' = RemoveAt(channel, i)
    BY <1>8 DEF Lose
  <2>2. channel' \in Seq(Frame) /\ ToSet(channel') \subseteq ToSet(channel)
    BY <1>3, <2>1, RemoveAtType
  <2>3. \A f \in ToSet(channel') : f \in Frame
    BY <2>2 DEF ToSet
  <2>4. UNCHANGED <<framer, deframer, lastFrame>>
    BY <1>8 DEF Lose
  <2>5. QED BY <2>2, <2>3, <2>4, ChannelChanges DEF Alike
<1>9. CASE Damage
  <2>1. PICK i \in 1 .. Len(channel) : channel' = [channel EXCEPT ![i].ok = FALSE]
    BY <1>9 DEF Damage
  <2>2. /\ DOMAIN channel' = 1 .. Len(channel)
        /\ \A k \in 1 .. Len(channel) :
              channel'[k] = IF k = i THEN [channel[i] EXCEPT !.ok = FALSE] ELSE channel[k]
    BY <1>3, <2>1
  <2>3. \A k \in 1 .. Len(channel) :
           channel[k] \in Frame /\ channel'[k] \in Frame /\ Alike(channel'[k], channel[k])
    <3> SUFFICES ASSUME NEW k \in 1 .. Len(channel)
                 PROVE  channel[k] \in Frame /\ channel'[k] \in Frame
                        /\ Alike(channel'[k], channel[k])
      OBVIOUS
    <3>1. PICK g : g = channel[k]
      OBVIOUS
    <3>2. g \in Frame
      BY <1>3, <3>1
    <3>3. [g EXCEPT !.ok = FALSE] \in Frame /\ Alike([g EXCEPT !.ok = FALSE], g) /\ Alike(g, g)
      BY <3>2 DEF Frame, Alike
    <3>4. channel'[k] = [g EXCEPT !.ok = FALSE] \/ channel'[k] = g
      BY <2>2, <3>1
    <3>5. QED BY <3>1, <3>2, <3>3, <3>4
  <2>4. channel' \in Seq(Frame)
    <3>1. channel' \in [1 .. Len(channel) -> Frame]
      BY <1>3, <2>1, <2>2, <2>3
    <3>2. QED BY <1>3, <3>1
  <2>5. \A f \in ToSet(channel') : \E g \in ToSet(channel) : Alike(f, g)
    <3>1. DOMAIN channel = 1 .. Len(channel)
      BY <1>3
    <3>2. QED BY <2>2, <2>3, <3>1 DEF ToSet
  <2>6. UNCHANGED <<framer, deframer, lastFrame>>
    BY <1>9 DEF Damage
  <2>7. QED BY <2>4, <2>5, <2>6, ChannelChanges
<1>10. CASE Mispoint
  BY <1>10 DEF Mispoint, Protected
<1>11. ASSUME NEW i \in 1 .. Len(channel), NEW f, f \in Frame, Alike(f, channel[i]),
              channel' = Append(channel, f), UNCHANGED <<framer, deframer, lastFrame>>
       PROVE  LInv'
  <2>1. DOMAIN channel = 1 .. Len(channel) /\ DOMAIN Append(channel, f) = 1 .. Len(channel) + 1
    BY <1>3
  <2>2. /\ channel' \in Seq(Frame)
        /\ \A k \in 1 .. Len(channel) + 1 :
              channel'[k] = IF k <= Len(channel) THEN channel[k] ELSE f
    BY <1>3, <1>11
  <2>3. \A k \in 1 .. Len(channel) : channel[k] \in Frame /\ Alike(channel[k], channel[k])
    BY <1>3 DEF Alike
  <2>4. \A h \in ToSet(channel') : \E g \in ToSet(channel) : Alike(h, g)
    <3> SUFFICES ASSUME NEW k \in 1 .. Len(channel) + 1
                 PROVE  \E g \in ToSet(channel) : Alike(channel'[k], g)
      BY <1>11, <2>1 DEF ToSet
    <3>1. CASE k <= Len(channel)
      <4>1. k \in 1 .. Len(channel) /\ channel'[k] = channel[k]
        BY <2>2, <1>3, <3>1
      <4>2. QED BY <2>1, <2>3, <4>1 DEF ToSet
    <3>2. CASE ~(k <= Len(channel))
      BY <1>11, <2>1, <2>2, <3>2 DEF ToSet
    <3>3. QED BY <3>1, <3>2
  <2>5. QED BY <1>11, <2>2, <2>4, ChannelChanges
<1>12. CASE Duplicate
  <2>1. PICK i \in 1 .. Len(channel) :
           channel' = Append(channel, channel[i]) /\ UNCHANGED <<framer, deframer, lastFrame>>
    BY <1>12 DEF Duplicate, Send
  <2>2. PICK f : f = channel[i]
    OBVIOUS
  <2>3. f \in Frame /\ Alike(f, channel[i])
    BY <1>3, <2>2 DEF Alike
  <2>4. QED BY <1>11, <2>1, <2>2, <2>3
<1>13. CASE Stray
  <2>1. PICK i \in 1 .. Len(channel) :
           /\ channel' = Append(channel, [channel[i] EXCEPT !.ours = FALSE])
           /\ UNCHANGED <<framer, deframer, lastFrame>>
    BY <1>13 DEF Stray, Send
  <2>2. PICK g : g = channel[i]
    OBVIOUS
  <2>3. PICK f : f = [g EXCEPT !.ours = FALSE]
    OBVIOUS
  <2>4. g \in Frame
    BY <1>3, <2>2
  <2>5. f \in Frame /\ Alike(f, g)
    BY <2>3, <2>4 DEF Frame, Alike
  <2>6. QED BY <1>11, <2>1, <2>2, <2>3, <2>5
<1>14. CASE Lagged
  BY <1>14, LaggedKeeps
<1>15. CASE Receive
  BY <1>15, ReceiveKeeps
<1>16. CASE DrainPackets
  <2>1. Drain /\ UNCHANGED <<framer, link>>
    BY <1>16 DEF DrainPackets
  <2>2. /\ UNCHANGED <<queued, starts, emitted, frameCount, mcCount, stream, packets, seqs>>
        /\ UNCHANGED <<channel, lastFrame>>
    BY <2>1 DEF framer, link
  <2>3. ReceiverOK' /\ DeliveredOK'
    BY <2>1, <2>2, DrainKeeps DEF LInv
  <2>4. SenderOK'
    BY <2>2 DEF LInv, SenderOK
  <2>5. FramesOK'
    BY <2>2 DEF LInv, FramesOK, Known, FrameOK
  <2>6. QED BY <2>3, <2>4, <2>5 DEF LInv
<1>17. CASE UNCHANGED vars
  <2>1. UNCHANGED <<framer, deframer, lastFrame, channel>>
    BY <1>17 DEF vars, link
  <2>2. \A f \in ToSet(channel') : f \in ToSet(channel) /\ f \in Frame
    BY <1>3, <2>1 DEF ToSet
  <2>3. QED BY <1>3, <2>1, <2>2, ChannelChanges DEF Alike
<1>18. QED BY <1>4, <1>5, <1>6, <1>7, <1>8, <1>9, <1>10, <1>12, <1>13, <1>14, <1>15, <1>16, <1>17
          DEF Next

\* The invariant of the link: counters, octets and starts of every channel fit
\* together from the packets packed to what the deframer holds (frames.rs).
THEOREM Invariance == Spec => []TInv
<1>1. Init => TInv
  BY InvInit
<1>2. TInv /\ [Next]_vars => TInv'
  BY InvStep
<1>3. QED BY <1>1, <1>2, PTL DEF Spec

\* Whatever is lost, damaged, doubled, late or missed, on any number of virtual
\* channels and for every frame length, counter width and packet length, the
\* deframer emits packets that were packed on that channel, whole (frames.rs,
\* TmDeframer::accept and drain_packets).
THEOREM OctetsNeverMeet == Spec => []NeverSpliced
<1>1. TInv => NeverSpliced
  BY DEF TInv, Protected, LInv, DeliveredOK, Genuine, NeverSpliced
<1>2. QED BY <1>1, Invariance, PTL

-----------------------------------------------------------------------------
(***************************************************************************)
(* On any link, disordered or with wrong pointers too: what the sender     *)
(* keeps, how much the deframer holds and where it finds its way again.    *)
(***************************************************************************)

LEMMA LongestIs ==
    /\ Longest \in Nat /\ HdrLen + DataLen <= Longest
    /\ \A n \in Sizes : n <= Longest
<1> DEFINE D == Sizes \cup {HdrLen + DataLen}
           B == PACKET_MAX_LEN + DataLen
           R == {B - n : n \in D}
<1>1. HdrLen \in Nat /\ DataLen \in Nat /\ PACKET_MAX_LEN \in Nat /\ HdrLen <= PACKET_MAX_LEN
  BY FormatAssumption DEF PACKET_MAX_LEN
<1>2. D \subseteq Nat /\ \A n \in D : n <= B
  <2>1. \A n \in Sizes : n \in Nat /\ n <= B
    BY <1>1, FormatAssumption, LengthAssumption
  <2>2. HdrLen + DataLen \in Nat /\ HdrLen + DataLen <= B
    BY <1>1
  <2> HIDE DEF B
  <2>3. QED BY <2>1, <2>2
<1>3. B \in Nat
  BY <1>1
<1> HIDE DEF B
<1>4. R \in SUBSET Nat /\ R # {}
  BY <1>2, <1>3
<1>5. PICK r \in R : \A k \in R : r <= k
  BY <1>4, LeastNumber
<1>6. PICK n \in D : r = B - n
  BY <1>5
<1>7. \A m \in D : m <= n
  <2> SUFFICES ASSUME NEW m \in D PROVE m <= n
    OBVIOUS
  <2>1. B - n <= B - m
    BY <1>5, <1>6
  <2>2. QED BY <1>2, <1>3, <2>1
<1>8. Longest \in D /\ \A m \in D : m <= Longest
  BY <1>7 DEF Longest
<1>9. QED BY <1>1, <1>2, <1>8

LEMMA Joined ==
    ASSUME NEW X, NEW s \in Seq(X), NEW t \in Seq(X)
    PROVE  /\ s \o t \in Seq(X) /\ Len(s \o t) = Len(s) + Len(t)
           /\ Len(s) \in Nat /\ Len(t) \in Nat
           /\ \A i \in 1 .. Len(s) + Len(t) :
                 (s \o t)[i] = IF i <= Len(s) THEN s[i] ELSE t[i - Len(s)]
OBVIOUS

\* Octets of packets that are not too long.
Short(s) == s \in Seq(Octet) /\ \A i \in 1 .. Len(s) : s[i].pkt.len <= Longest

\* What flush leaves is whole frames.
FlushOK(v) ==
    DataLen > HdrLen /\ stream[v] # <<>> /\ Last(stream[v]).pkt.idle
        => Len(queued[v]) \in {0, DataLen, DataLen + DataLen}

SendingOK ==
    /\ SenderOK
    /\ \A v \in VCs : Short(stream[v]) /\ FlushOK(v) /\ frameCount[v] \in 0 .. Modulus - 1
    /\ idles \in [VCs -> 0 .. MaxIdle] /\ mcCount \in 0 .. Modulus - 1

LEMMA IdleLenShort ==
    ASSUME NEW room \in Int, room <= DataLen, 1 <= room
    PROVE  IdleLen(room) <= Longest
<1>1. HdrLen \in Nat /\ HdrLen >= 1 /\ DataLen \in Nat /\ DataLen >= 2
  BY FormatAssumption
<1>2. Longest \in Nat /\ HdrLen + DataLen <= Longest
  BY LongestIs
<1>3. QED BY <1>1, <1>2 DEF IdleLen

LEMMA SuccessorInRange ==
    ASSUME NEW n \in Nat
    PROVE  Successor(n) \in 0 .. Modulus - 1
<1>1. n + 1 \in Int
  OBVIOUS
<1>2. QED BY <1>1, ModType DEF Successor

\* A short packet is queued.
LEMMA QueueSends ==
    ASSUME SendingOK, NEW v \in VCs, NEW len \in Nat, len > HdrLen, len <= Longest,
           NEW idle \in BOOLEAN, Queue(v, len, idle),
           idle /\ DataLen > HdrLen => Len(queued[v]) + len \in {0, DataLen, DataLen + DataLen}
    PROVE  SendingOK'
<1> DEFINE p == [id |-> packets[v] + 1, len |-> len, idle |-> idle]
           T == Octets(p)
<1>1. SenderOK'
  BY QueueKeepsSender DEF SendingOK
<1>2. p \in Packet /\ p.len = len /\ p.idle = idle
  BY DEF Packet, SenderOK, SendingOK
<1> HIDE DEF p
<1>3. /\ T \in Seq(Octet) /\ Len(T) = len
      /\ \A i \in 1 .. len : T[i] = [pkt |-> p, at |-> i - 1]
  BY <1>2, OctetsType
<1>4. /\ queued' = [queued EXCEPT ![v] = @ \o T]
      /\ stream' = [stream EXCEPT ![v] = @ \o T]
      /\ UNCHANGED <<frameCount, mcCount, idles>>
  BY DEF Queue, p
<1> HIDE DEF T
<1>5. /\ stream[v] \in Seq(Octet) /\ queued[v] \in Seq(Octet)
      /\ queued \in [VCs -> Seq(Octet)] /\ stream \in [VCs -> Seq(Octet)]
  BY DEF SenderOK, SendingOK
<1>6. stream'[v] = stream[v] \o T /\ queued'[v] = queued[v] \o T
  BY <1>4, <1>5
<1>7. \A u \in VCs \ {v} : stream'[u] = stream[u] /\ queued'[u] = queued[u]
  BY <1>4, <1>5
<1>8. Short(stream'[v])
  <2> DEFINE S == stream[v]
  <2>1. S \in Seq(Octet) /\ \A i \in 1 .. Len(S) : S[i].pkt.len <= Longest
    BY DEF SendingOK, Short
  <2> HIDE DEF S
  <2>2. /\ S \o T \in Seq(Octet) /\ Len(S \o T) = Len(S) + len
        /\ \A i \in 1 .. Len(S) + len : (S \o T)[i] = IF i <= Len(S) THEN S[i] ELSE T[i - Len(S)]
    <3>1. T \in Seq(Octet) /\ Len(T) = len
      BY <1>3
    <3>2. QED BY <2>1, <3>1, Joined
  <2>3. \A i \in 1 .. len : T[i].pkt.len <= Longest
    BY <1>2, <1>3
  <2>4. ASSUME NEW i \in 1 .. Len(S) + len PROVE (S \o T)[i].pkt.len <= Longest
    <3>1. CASE i <= Len(S)
      BY <2>1, <2>2, <3>1
    <3>2. CASE ~(i <= Len(S))
      <4>1. i - Len(S) \in 1 .. len
        BY <2>1, <3>2
      <4>2. QED BY <2>2, <2>3, <3>2, <4>1
    <3>3. QED BY <3>1, <3>2
  <2> DEFINE U == S \o T
  <2>5. U \in Seq(Octet) /\ \A i \in 1 .. Len(U) : U[i].pkt.len <= Longest
    BY <2>2, <2>4
  <2> HIDE DEF U
  <2>6. Short(U)
    BY <2>5 DEF Short
  <2>7. QED BY <1>6, <2>6 DEF U, S
<1>9. Len(queued[v] \o T) = Len(queued[v]) + len
  BY <1>3, <1>5, Joined
<1>10. Last(stream[v] \o T) = T[len]
  <2> DEFINE S == stream[v]
  <2>1. S \in Seq(Octet) /\ T \in Seq(Octet) /\ Len(T) = len /\ len >= 1
    BY <1>3, <1>5, FormatAssumption
  <2> HIDE DEF S
  <2>2. /\ Len(S \o T) = Len(S) + len /\ Len(S) \in Nat
        /\ \A i \in 1 .. Len(S) + len : (S \o T)[i] = IF i <= Len(S) THEN S[i] ELSE T[i - Len(S)]
    BY <2>1, Joined
  <2>3. Len(S) + len \in 1 .. Len(S) + len /\ ~(Len(S) + len <= Len(S)) /\ Len(S) + len - Len(S) = len
    BY <2>1, <2>2
  <2>4. QED BY <2>2, <2>3 DEF Last, S
<1>11. FlushOK(v)'
  <2> SUFFICES ASSUME DataLen > HdrLen, Last(stream'[v]).pkt.idle
               PROVE  Len(queued'[v]) \in {0, DataLen, DataLen + DataLen}
    BY DEF FlushOK
  <2>1. T[len] = [pkt |-> p, at |-> len - 1]
    BY <1>3, FormatAssumption
  <2>2. idle
    BY <1>2, <1>6, <1>10, <2>1
  <2>3. QED BY <1>6, <1>9, <2>2
<1>12. ASSUME NEW u \in VCs
       PROVE  Short(stream'[u]) /\ FlushOK(u)' /\ frameCount'[u] \in 0 .. Modulus - 1
  <2>1. Short(stream[u]) /\ FlushOK(u) /\ frameCount'[u] \in 0 .. Modulus - 1
    BY <1>4 DEF SendingOK
  <2>2. CASE u = v
    BY <1>8, <1>11, <2>1, <2>2
  <2>3. CASE u # v
    BY <1>7, <2>1, <2>3 DEF FlushOK
  <2>4. QED BY <2>2, <2>3
<1>13. QED BY <1>1, <1>4, <1>12 DEF SendingOK

\* The sender, in any step.
LEMMA SendingStep ==
    ASSUME SendingOK, scene \in Scenes, [Next]_vars
    PROVE  /\ SendingOK'
           /\ \A u \in VCs : \E T \in Seq(Octet) :
                stream'[u] = stream[u] \o T /\ (T # <<>> => T[1].at = 0)
<1>1. scene.sizes \subseteq Sizes /\ scene.channels \subseteq VCs
  BY LinkAssumption DEF Scene
<1>2. SenderOK
  BY DEF SendingOK
<1>3. ASSUME NEW v \in VCs, NEW len \in Nat, len > HdrLen, len <= Longest, NEW idle \in BOOLEAN,
             Queue(v, len, idle),
             idle /\ DataLen > HdrLen => Len(queued[v]) + len \in {0, DataLen, DataLen + DataLen}
      PROVE  /\ SendingOK'
             /\ \A u \in VCs : \E T \in Seq(Octet) :
                  stream'[u] = stream[u] \o T /\ (T # <<>> => T[1].at = 0)
  BY <1>2, <1>3, QueueSends, QueueKeepsSender
<1>4. CASE PackPacket
  <2>1. PICK v \in scene.channels, len \in scene.sizes : Queue(v, len, FALSE)
    BY <1>4 DEF PackPacket, Pack
  <2>2. v \in VCs /\ len \in Nat /\ len > HdrLen /\ len <= Longest /\ FALSE \in BOOLEAN
    <3>1. v \in VCs /\ len \in Sizes
      BY <1>1
    <3>2. QED BY <3>1, FormatAssumption, LongestIs
  <2>3. QED BY <1>3, <2>1, <2>2
<1>5. CASE FlushChannel
  <2>1. PICK v \in VCs : Flush(v)
    BY <1>5 DEF FlushChannel
  <2> DEFINE n == Len(queued[v])
             room == DataLen - (n % DataLen)
  <2>2. Queue(v, IdleLen(room), TRUE) /\ n < DataLen
    BY <2>1 DEF Flush, Settled
  <2>3. DataLen \in Nat /\ HdrLen \in Nat
    BY FormatAssumption
  <2>4. n \in Nat /\ n >= 1
    <3>1. queued[v] \in Seq(Octet) /\ queued[v] # <<>>
      BY <1>2, <2>1 DEF SenderOK, Flush
    <3>2. QED BY <3>1
  <2> HIDE DEF n
  <2>5. room = DataLen - n
    <3>1. n % DataLen = n
      BY <2>2, <2>3, <2>4
    <3>2. QED BY <3>1
  <2>6. room \in Int /\ 1 <= room /\ room <= DataLen
    BY <2>2, <2>3, <2>4, <2>5
  <2>7. DataLen > HdrLen => n + IdleLen(room) \in {DataLen, DataLen + DataLen}
    BY <2>3, <2>4, <2>5, <2>6 DEF IdleLen
  <2> HIDE DEF room
  <2>8. IdleLen(room) \in Nat /\ IdleLen(room) > HdrLen /\ IdleLen(room) <= Longest /\ TRUE \in BOOLEAN
    BY <2>6, IdleLenLong, IdleLenShort
  <2>9. QED BY <1>3, <2>2, <2>7, <2>8 DEF n
<1>6. CASE SendFrame
  <2>1. PICK v \in VCs : EmitFrame(v)
    BY <1>6 DEF SendFrame
  <2>2. SenderOK' /\ UNCHANGED stream
    BY <1>2, <2>1, EmitKeepsSender
  <2>3. /\ mcCount' = Successor(mcCount) /\ frameCount' = [frameCount EXCEPT ![v] = Successor(@)]
        /\ queued' = [queued EXCEPT ![v] = SubSeq(@, DataLen + 1, Len(@))]
        /\ idles' = idles /\ Len(queued[v]) >= DataLen
    BY <2>1 DEF EmitFrame, Count
  <2>4. /\ mcCount \in Nat /\ frameCount \in [VCs -> Nat] /\ queued \in [VCs -> Seq(Octet)]
    BY <1>2 DEF SenderOK
  <2>5. mcCount' \in 0 .. Modulus - 1 /\ frameCount'[v] \in 0 .. Modulus - 1
    BY <2>3, <2>4, SuccessorInRange
  <2>6. Len(queued'[v]) = Len(queued[v]) - DataLen /\ Len(queued[v]) \in Nat
    <3> DEFINE q == queued[v]
    <3>1. q \in Seq(Octet) /\ Len(q) >= DataLen /\ DataLen \in Nat
      BY <2>3, <2>4, FormatAssumption
    <3>2. queued'[v] = SubSeq(q, DataLen + 1, Len(q))
      BY <2>3, <2>4
    <3> HIDE DEF q
    <3>3. Len(SubSeq(q, DataLen + 1, Len(q))) = Len(q) - DataLen /\ Len(q) \in Nat
      BY <3>1
    <3>4. QED BY <3>2, <3>3 DEF q
  <2>7. FlushOK(v)'
    <3>1. FlushOK(v)
      BY DEF SendingOK
    <3>2. DataLen \in Nat /\ DataLen >= 1
      BY FormatAssumption
    <3> SUFFICES ASSUME DataLen > HdrLen, stream'[v] # <<>>, Last(stream'[v]).pkt.idle
                 PROVE  Len(queued'[v]) \in {0, DataLen, DataLen + DataLen}
      BY DEF FlushOK
    <3>3. Len(queued[v]) \in {0, DataLen, DataLen + DataLen}
      BY <2>2, <3>1 DEF FlushOK
    <3>4. QED BY <2>3, <2>6, <3>2, <3>3
  <2>8. ASSUME NEW u \in VCs
        PROVE  Short(stream'[u]) /\ FlushOK(u)' /\ frameCount'[u] \in 0 .. Modulus - 1
    <3>1. Short(stream[u]) /\ FlushOK(u) /\ frameCount[u] \in 0 .. Modulus - 1
      BY DEF SendingOK
    <3>2. CASE u = v
      BY <2>2, <2>5, <2>7, <3>1, <3>2
    <3>3. CASE u # v
      <4>1. queued'[u] = queued[u] /\ frameCount'[u] = frameCount[u]
        BY <2>3, <2>4, <3>3
      <4>2. QED BY <2>2, <3>1, <4>1 DEF FlushOK
    <3>4. QED BY <3>2, <3>3
  <2>9. SendingOK'
    BY <2>2, <2>3, <2>5, <2>8 DEF SendingOK
  <2>10. QED BY <1>2, <2>2, <2>9, SameStream
<1>7. CASE SendIdle
  <2>1. PICK v \in scene.channels : EmitIdle(v)
    BY <1>7 DEF SendIdle
  <2>2. SenderOK' /\ UNCHANGED stream
    BY <1>1, <1>2, <2>1, IdleKeepsSender
  <2>3. /\ mcCount' = Successor(mcCount) /\ frameCount' = [frameCount EXCEPT ![v] = Successor(@)]
        /\ queued' = queued /\ idles' = [idles EXCEPT ![v] = @ + 1] /\ idles[v] < MaxIdle
    BY <2>1 DEF EmitIdle, Count
  <2>4. mcCount \in Nat /\ frameCount \in [VCs -> Nat] /\ v \in VCs
    BY <1>1, <1>2 DEF SenderOK
  <2>5. mcCount' \in 0 .. Modulus - 1 /\ frameCount'[v] \in 0 .. Modulus - 1
    BY <2>3, <2>4, SuccessorInRange
  <2>6. idles' \in [VCs -> 0 .. MaxIdle]
    <3>1. idles \in [VCs -> 0 .. MaxIdle] /\ MaxIdle \in Nat
      BY BoundAssumption DEF SendingOK
    <3>2. idles[v] + 1 \in 0 .. MaxIdle
      BY <2>3, <2>4, <3>1
    <3>3. QED BY <2>3, <2>4, <3>1, <3>2
  <2>7. ASSUME NEW u \in VCs
        PROVE  Short(stream'[u]) /\ FlushOK(u)' /\ frameCount'[u] \in 0 .. Modulus - 1
    <3>1. Short(stream[u]) /\ FlushOK(u) /\ frameCount[u] \in 0 .. Modulus - 1
      BY DEF SendingOK
    <3>2. frameCount'[u] \in 0 .. Modulus - 1
      BY <2>3, <2>4, <2>5, <3>1
    <3>3. QED BY <2>2, <2>3, <3>1, <3>2 DEF FlushOK
  <2>8. SendingOK'
    BY <2>2, <2>5, <2>6, <2>7 DEF SendingOK
  <2>9. QED BY <1>2, <2>2, <2>8, SameStream
<1>8. CASE UNCHANGED framer
  <2>1. UNCHANGED <<queued, starts, emitted, frameCount, mcCount, stream, packets, seqs, idles>>
    BY <1>8 DEF framer
  <2>2. SenderOK'
    BY <1>2, <2>1 DEF SenderOK
  <2>3. SendingOK'
    BY <2>1, <2>2 DEF SendingOK, FlushOK
  <2>4. QED BY <1>2, <2>1, <2>3, SameStream
<1>9. QED BY <1>4, <1>5, <1>6, <1>7, <1>8
          DEF Next, vars, Lose, Damage, Mispoint, Duplicate, Stray, Lagged, Receive, DrainPackets

-----------------------------------------------------------------------------
(* The frames, on any link. *)

\* A frame's data is of its channel, wherever its pointer points.
Carried(f) ==
    /\ f \in Frame /\ f.count < Modulus /\ f.mc < Modulus
    /\ Len(f.data) <= DataLen /\ Piece(stream[f.vc], f.data, f.from)

CarriedOK ==
    /\ channel \in Seq(Frame) /\ lastFrame \in [VCs -> Frame \cup {None}]
    /\ \A v \in VCs : lastFrame[v] # None => lastFrame[v].vc = v
    /\ \A f \in Known : Carried(f)

\* Frames that carry the same.
Same(f, g) ==
    /\ f \in Frame /\ f.vc = g.vc /\ f.mc = g.mc /\ f.count = g.count
    /\ f.data = g.data /\ f.from = g.from

LEMMA ReplacedType ==
    ASSUME NEW S, NEW s \in Seq(S), NEW i \in 1 .. Len(s), NEW x \in S, NEW t,
           t = [s EXCEPT ![i] = x]
    PROVE  t \in Seq(S) /\ Len(t) = Len(s) /\ ToSet(t) \subseteq ToSet(s) \cup {x}
<1>1. /\ DOMAIN s = 1 .. Len(s) /\ Len(s) \in Nat
      /\ \A k \in 1 .. Len(s) : s[k] \in S
  OBVIOUS
<1>2. DOMAIN t = 1 .. Len(s) /\ \A k \in 1 .. Len(s) : t[k] = IF k = i THEN x ELSE s[k]
  BY <1>1
<1>3. t \in [1 .. Len(s) -> S]
  BY <1>1, <1>2
<1>4. t \in Seq(S) /\ Len(t) = Len(s)
  BY <1>1, <1>3
<1>5. QED BY <1>1, <1>2, <1>4 DEF ToSet

LEMMA AppendedType ==
    ASSUME NEW S, NEW s \in Seq(S), NEW x \in S
    PROVE  /\ Append(s, x) \in Seq(S) /\ ToSet(Append(s, x)) = ToSet(s) \cup {x}
           /\ Len(Append(s, x)) = Len(s) + 1
<1>1. /\ Append(s, x) \in Seq(S) /\ Len(Append(s, x)) = Len(s) + 1 /\ Len(s) \in Nat
      /\ \A k \in 1 .. Len(s) + 1 : Append(s, x)[k] = IF k <= Len(s) THEN s[k] ELSE x
      /\ DOMAIN s = 1 .. Len(s) /\ DOMAIN Append(s, x) = 1 .. Len(s) + 1
  OBVIOUS
<1>2. ToSet(Append(s, x)) = ToSet(s) \cup {x}
  BY <1>1 DEF ToSet
<1>3. QED BY <1>1, <1>2

LEMMA TailType ==
    ASSUME NEW S, NEW s \in Seq(S), NEW n \in 1 .. Len(s)
    PROVE  /\ SubSeq(s, n + 1, Len(s)) \in Seq(S)
           /\ ToSet(SubSeq(s, n + 1, Len(s))) \subseteq ToSet(s)
           /\ Len(SubSeq(s, n + 1, Len(s))) = Len(s) - n
<1>1. /\ SubSeq(s, n + 1, Len(s)) \in Seq(S) /\ Len(s) \in Nat
      /\ Len(SubSeq(s, n + 1, Len(s))) = Len(s) - n
      /\ DOMAIN s = 1 .. Len(s) /\ DOMAIN SubSeq(s, n + 1, Len(s)) = 1 .. Len(s) - n
      /\ \A i \in 1 .. Len(s) - n : SubSeq(s, n + 1, Len(s))[i] = s[n + i]
  OBVIOUS
<1> DEFINE l == Len(s)
<1>2. \A i \in 1 .. l - n : n + i \in 1 .. l
  <2>1. l \in Nat /\ n \in 1 .. l
    BY <1>1
  <2> HIDE DEF l
  <2>2. QED BY <2>1
<1>3. QED BY <1>1, <1>2 DEF ToSet

LEMMA RemovedShorter ==
    ASSUME NEW S, NEW s \in Seq(S), NEW i \in 1 .. Len(s)
    PROVE  Len(RemoveAt(s, i)) = Len(s) - 1
<1>1. /\ SubSeq(s, 1, i - 1) \in Seq(S) /\ SubSeq(s, i + 1, Len(s)) \in Seq(S)
      /\ Len(SubSeq(s, 1, i - 1)) = i - 1 /\ Len(SubSeq(s, i + 1, Len(s))) = Len(s) - i
      /\ Len(s) \in Nat
  OBVIOUS
<1> DEFINE a == SubSeq(s, 1, i - 1)
           b == SubSeq(s, i + 1, Len(s))
<1>2. RemoveAt(s, i) = a \o b
  BY DEF RemoveAt
<1> HIDE DEF a, b
<1>3. Len(a \o b) = Len(a) + Len(b)
  BY <1>1, Joined DEF a, b
<1>4. Len(a) = i - 1 /\ Len(b) = Len(s) - i
  BY <1>1 DEF a, b
<1>5. QED BY <1>1, <1>2, <1>3, <1>4

\* Frames are known that were, or carry the same, or were just cut off.
LEMMA CarriedStays ==
    ASSUME SenderOK, CarriedOK, channel' \in Seq(Frame), lastFrame' \in [VCs -> Frame \cup {None}],
           \A v \in VCs : lastFrame'[v] # None => lastFrame'[v].vc = v,
           \A f \in Known' : Carried(f)' \/ \E g \in Known : Same(f, g),
           \A u \in VCs : \E T \in Seq(Octet) : stream'[u] = stream[u] \o T
    PROVE  CarriedOK'
<1>1. ASSUME NEW f \in Known', NEW g \in Known, Same(f, g) PROVE Carried(f)'
  <2>1. Carried(g) /\ g.vc \in VCs
    BY DEF CarriedOK, Carried, Frame
  <2>2. PICK T \in Seq(Octet) : stream'[g.vc] = stream[g.vc] \o T
    BY <2>1
  <2>3. stream[g.vc] \in Seq(Octet)
    BY <2>1 DEF SenderOK
  <2>4. Piece(stream'[g.vc], g.data, g.from)
    BY <2>1, <2>2, <2>3, PieceStays DEF Carried
  <2>5. QED BY <1>1, <2>1, <2>4 DEF Carried, Same
<1>2. ASSUME NEW f \in Known' PROVE Carried(f)'
  <2>1. CASE \E g \in Known : Same(f, g)
    BY <1>1, <2>1
  <2>2. QED BY <2>1
<1>3. QED BY <1>2 DEF CarriedOK

LEMMA FrameNotNone ==
    ASSUME NEW f \in Frame
    PROVE  f # None /\ f.vc \in VCs /\ Same(f, f)
BY LinkAssumption DEF Frame, Same

\* The frames, in any step.
LEMMA CarriedStep ==
    ASSUME SendingOK, CarriedOK, scene \in Scenes, [Next]_vars
    PROVE  CarriedOK'
<1>1. /\ SendingOK'
      /\ \A u \in VCs : \E T \in Seq(Octet) : stream'[u] = stream[u] \o T
  BY SendingStep
<1>2. /\ SenderOK /\ channel \in Seq(Frame) /\ lastFrame \in [VCs -> Frame \cup {None}]
      /\ \A v \in VCs : lastFrame[v] # None => lastFrame[v].vc = v
      /\ Len(channel) \in Nat
  BY DEF SendingOK, CarriedOK
<1>3. \A i \in 1 .. Len(channel) :
         channel[i] \in Frame /\ channel[i] \in Known /\ channel[i].vc \in VCs
  <2>1. \A i \in 1 .. Len(channel) : channel[i] \in Frame /\ channel[i] \in ToSet(channel)
    BY <1>2 DEF ToSet
  <2>2. QED BY <2>1, FrameNotNone DEF Known
<1>4. ASSUME channel' \in Seq(Frame), UNCHANGED lastFrame,
             \A f \in ToSet(channel') : Carried(f)' \/ \E g \in Known : Same(f, g)
      PROVE  CarriedOK'
  <2>1. \A f \in Known' : Carried(f)' \/ \E g \in Known : Same(f, g)
    <3> SUFFICES ASSUME NEW f \in Known', f \notin ToSet(channel')
                 PROVE  \E g \in Known : Same(f, g)
      BY <1>4
    <3>1. f \in Known /\ f \in Frame
      BY <1>2, <1>4 DEF Known
    <3>2. QED BY <3>1, FrameNotNone
  <2>2. QED BY <1>1, <1>2, <1>4, <2>1, CarriedStays
<1>5. ASSUME NEW f \in Frame, Carried(f)' \/ \E g \in Known : Same(f, g),
             channel' = Append(channel, f), UNCHANGED lastFrame
      PROVE  CarriedOK'
  <2>1. channel' \in Seq(Frame) /\ ToSet(channel') = ToSet(channel) \cup {f}
    BY <1>2, <1>5, AppendedType
  <2>2. \A h \in ToSet(channel) : h \in Frame /\ h \in Known
    BY <1>2, <1>3 DEF ToSet
  <2>3. QED BY <1>4, <1>5, <2>1, <2>2, FrameNotNone
<1>6. ASSUME NEW i \in 1 .. Len(channel), NEW f \in Frame, Same(f, channel[i]),
             channel' = [channel EXCEPT ![i] = f], UNCHANGED lastFrame
      PROVE  CarriedOK'
  <2>1. channel' \in Seq(Frame) /\ ToSet(channel') \subseteq ToSet(channel) \cup {f}
    <3>1. channel \in Seq(Frame) /\ channel' = [channel EXCEPT ![i] = f]
      BY <1>2, <1>6
    <3>2. QED BY ONLY <3>1, ReplacedType
  <2>2. \A h \in ToSet(channel) : h \in Frame /\ h \in Known
    BY <1>2, <1>3 DEF ToSet
  <2>3. channel[i] \in Known
    BY <1>3
  <2>4. QED BY <1>4, <1>6, <2>1, <2>2, <2>3, FrameNotNone
<1>7. ASSUME channel' \in Seq(Frame), ToSet(channel') \subseteq ToSet(channel),
             lastFrame' \in [VCs -> Frame \cup {None}],
             \A v \in VCs : lastFrame'[v] = lastFrame[v] \/ lastFrame'[v] = None
                              \/ (lastFrame'[v] \in ToSet(channel) /\ lastFrame'[v].vc = v)
      PROVE  CarriedOK'
  <2>1. \A f \in Known' : f \in Known /\ f \in Frame
    <3>1. \A f \in Known' : f \in Frame
      BY <1>7 DEF Known, ToSet
    <3>2. \A f \in ToSet(channel) : f \in Known
      BY <1>2, <1>3 DEF ToSet
    <3>3. \A v \in VCs : lastFrame'[v] # None => lastFrame'[v] \in Known
      BY <1>7, <3>2 DEF Known
    <3>4. QED BY <1>7, <3>1, <3>2, <3>3 DEF Known
  <2>2. \A v \in VCs : lastFrame'[v] # None => lastFrame'[v].vc = v
    BY <1>2, <1>7
  <2>3. \A f \in Known' : \E g \in Known : Same(f, g)
    BY <2>1, FrameNotNone
  <2>4. QED BY <1>1, <1>2, <1>7, <2>2, <2>3, CarriedStays
<1>8. CASE UNCHANGED <<channel, lastFrame>>
  <2>1. \A f \in ToSet(channel') : f \in Known /\ Same(f, f)
    BY <1>2, <1>3, <1>8, FrameNotNone DEF ToSet
  <2>2. QED BY <1>2, <1>4, <1>8, <2>1
<1>9. ASSUME NEW v \in VCs, NEW f, FrameOK(f)', f.mc = mcCount, f.count = frameCount[v],
             Len(f.data) <= DataLen, channel' = Append(channel, f), UNCHANGED lastFrame
      PROVE  CarriedOK'
  <2>1. f \in Frame /\ Piece(stream[f.vc], f.data, f.from)'
    BY <1>9 DEF FrameOK
  <2>2. f.mc < Modulus /\ f.count < Modulus
    BY <1>9, FormatAssumption DEF SendingOK
  <2>3. Carried(f)'
    BY <1>9, <2>1, <2>2 DEF Carried
  <2>4. QED BY <1>5, <1>9, <2>1, <2>3
<1>10. CASE SendFrame
  <2>1. PICK v \in VCs : /\ EmitFrame(v) /\ channel' = Append(channel, NextFrame(v))
                         /\ UNCHANGED lastFrame
    BY <1>10 DEF SendFrame, Send
  <2>2. PICK f : f = NextFrame(v)
    OBVIOUS
  <2>3. FrameOK(f)'
    BY <1>2, <2>1, <2>2, EmitKeepsSender
  <2>4. f.mc = mcCount /\ f.count = frameCount[v] /\ f.data = SubSeq(queued[v], 1, DataLen)
    BY <2>2 DEF NextFrame, MakeFrame
  <2>5. Len(f.data) <= DataLen
    <3> DEFINE q == queued[v]
    <3>1. q \in Seq(Octet) /\ Len(q) >= DataLen /\ DataLen \in Nat
      BY <1>2, <2>1, FormatAssumption DEF SenderOK, EmitFrame
    <3> HIDE DEF q
    <3>2. Len(SubSeq(q, 1, DataLen)) = DataLen
      BY <3>1
    <3>3. QED BY <2>4, <3>1, <3>2 DEF q
  <2>6. QED BY <1>9, <2>1, <2>2, <2>3, <2>4, <2>5
<1>11. CASE SendIdle
  <2>1. PICK v \in scene.channels :
           /\ EmitIdle(v) /\ channel' = Append(channel, MakeFrame(v, OnlyIdle, <<>>))
           /\ UNCHANGED lastFrame
    BY <1>11 DEF SendIdle, Send
  <2>2. PICK f : f = MakeFrame(v, OnlyIdle, <<>>)
    OBVIOUS
  <2>3. v \in VCs
    BY LinkAssumption DEF Scene
  <2>4. FrameOK(f)'
    BY <1>2, <2>1, <2>2, <2>3, IdleKeepsSender
  <2>5. f.mc = mcCount /\ f.count = frameCount[v] /\ Len(f.data) <= DataLen
    BY <2>2, FormatAssumption DEF MakeFrame
  <2>6. QED BY <1>9, <2>1, <2>2, <2>3, <2>4, <2>5
<1>12. CASE Lose
  <2>1. PICK i \in 1 .. Len(channel) : channel' = RemoveAt(channel, i) /\ UNCHANGED lastFrame
    BY <1>12 DEF Lose
  <2>2. channel' \in Seq(Frame) /\ ToSet(channel') \subseteq ToSet(channel)
    BY <1>2, <2>1, RemoveAtType
  <2>3. \A v \in VCs : lastFrame'[v] = lastFrame[v]
    BY <2>1
  <2>4. QED BY <1>2, <1>7, <2>1, <2>2, <2>3
<1>13. CASE Damage
  <2>1. PICK i \in 1 .. Len(channel) :
           channel' = [channel EXCEPT ![i].ok = FALSE] /\ UNCHANGED lastFrame
    BY <1>13 DEF Damage
  <2>2. PICK g : g = channel[i]
    OBVIOUS
  <2>3. PICK f : f = [g EXCEPT !.ok = FALSE]
    OBVIOUS
  <2>4. g \in Frame
    BY <1>3, <2>2
  <2>5. f \in Frame /\ Same(f, g)
    BY <2>3, <2>4 DEF Frame, Same
  <2>6. channel' = [channel EXCEPT ![i] = f]
    BY <2>1, <2>2, <2>3
  <2>7. QED BY <1>6, <2>1, <2>2, <2>5, <2>6
<1>14. CASE Mispoint
  <2>1. PICK i \in 1 .. Len(channel), p \in 0 .. DataLen :
           channel' = [channel EXCEPT ![i].fhp = p] /\ UNCHANGED lastFrame
    BY <1>14 DEF Mispoint
  <2>2. PICK g : g = channel[i]
    OBVIOUS
  <2>3. PICK f : f = [g EXCEPT !.fhp = p]
    OBVIOUS
  <2>4. g \in Frame /\ p \in Nat
    BY <1>3, <2>2
  <2>5. f \in Frame /\ Same(f, g)
    BY <2>3, <2>4 DEF Frame, Same
  <2>6. channel' = [channel EXCEPT ![i] = f]
    BY <2>1, <2>2, <2>3
  <2>7. QED BY <1>6, <2>1, <2>2, <2>5, <2>6
<1>15. CASE Duplicate
  <2>1. PICK i \in 1 .. Len(channel) :
           channel' = Append(channel, channel[i]) /\ UNCHANGED lastFrame
    BY <1>15 DEF Duplicate, Send
  <2>2. QED BY <1>3, <1>5, <2>1, FrameNotNone
<1>16. CASE Stray
  <2>1. PICK i \in 1 .. Len(channel) :
           channel' = Append(channel, [channel[i] EXCEPT !.ours = FALSE]) /\ UNCHANGED lastFrame
    BY <1>16 DEF Stray, Send
  <2>2. PICK g : g = channel[i]
    OBVIOUS
  <2>3. PICK f : f = [g EXCEPT !.ours = FALSE]
    OBVIOUS
  <2>4. g \in Frame /\ g \in Known
    BY <1>3, <2>2
  <2>5. f \in Frame /\ Same(f, g)
    BY <2>3, <2>4 DEF Frame, Same
  <2>6. QED BY <1>5, <2>1, <2>2, <2>3, <2>4, <2>5
<1>17. CASE Lagged
  <2>1. PICK n \in 1 .. Len(channel) :
           /\ channel' = SubSeq(channel, n + 1, Len(channel))
           /\ lastFrame' = [v \in VCs |-> None]
    BY <1>17 DEF Lagged
  <2>2. channel' \in Seq(Frame) /\ ToSet(channel') \subseteq ToSet(channel)
    BY <1>2, <2>1, TailType
  <2>3. lastFrame' \in [VCs -> Frame \cup {None}] /\ \A v \in VCs : lastFrame'[v] = None
    BY <2>1
  <2>4. QED BY <1>7, <2>2, <2>3
<1>18. CASE Receive
  <2>1. PICK i \in 1 .. Len(channel) :
           Note(channel[i]) /\ channel' = RemoveAt(channel, i)
    BY <1>18 DEF Receive
  <2>2. PICK f : f = channel[i]
    OBVIOUS
  <2>3. f \in Frame /\ f \in ToSet(channel) /\ f.vc \in VCs
    BY <1>2, <1>3, <2>2 DEF ToSet
  <2>4. lastFrame' = lastFrame \/ lastFrame' = [lastFrame EXCEPT ![f.vc] = f]
    BY <2>1, <2>2 DEF Note
  <2>5. /\ lastFrame' \in [VCs -> Frame \cup {None}]
        /\ \A v \in VCs : lastFrame'[v] = lastFrame[v] \/ (lastFrame'[v] = f /\ f.vc = v)
    <3>1. CASE lastFrame' = lastFrame
      BY <1>2, <3>1
    <3>2. CASE lastFrame' = [lastFrame EXCEPT ![f.vc] = f]
      BY <1>2, <2>3, <3>2
    <3>3. QED BY <2>4, <3>1, <3>2
  <2>6. channel' \in Seq(Frame) /\ ToSet(channel') \subseteq ToSet(channel)
    BY <1>2, <2>1, RemoveAtType
  <2>7. \A v \in VCs : lastFrame'[v] = lastFrame[v] \/ lastFrame'[v] = None
                            \/ (lastFrame'[v] \in ToSet(channel) /\ lastFrame'[v].vc = v)
    BY <2>3, <2>5
  <2>8. QED BY <1>7, <2>5, <2>6, <2>7
<1>19. QED BY <1>8, <1>10, <1>11, <1>12, <1>13, <1>14, <1>15, <1>16, <1>17, <1>18
          DEF Next, vars, link, PackPacket, FlushChannel, DrainPackets

-----------------------------------------------------------------------------
(* What the deframer holds, on any link. *)

HeldOK ==
    /\ pc \in {"ready", "finish", "last"} /\ cur \in VCs \cup {None} /\ (pc # "ready" => cur \in VCs)
    /\ Short(rest) /\ Len(rest) <= DataLen
    /\ pending \in [VCs -> Seq(Octet)] /\ inSync \in [VCs -> BOOLEAN]
    /\ lastCount \in [VCs -> 0 .. Modulus - 1 \cup {None}] /\ lastMc \in 0 .. Modulus - 1 \cup {None}
    /\ delivered \in [VCs -> Seq(Seq(Octet))]
    /\ vcGaps \in Nat /\ mcGaps \in Nat /\ dropped \in Nat
    /\ \A v \in VCs :
          /\ Short(pending[v])
          /\ Len(pending[v]) < Longest + (IF pc # "ready" /\ cur = v THEN DataLen ELSE 0)

LEMMA ShortEmpty == Short(<<>>) /\ Len(<<>>) = 0
<1>1. <<>> \in Seq(Octet) /\ Len(<<>>) = 0
  OBVIOUS
<1>2. QED BY <1>1 DEF Short

LEMMA ShortJoin ==
    ASSUME NEW s, NEW t, Short(s), Short(t)
    PROVE  Short(s \o t) /\ Len(s \o t) = Len(s) + Len(t)
<1>1. s \in Seq(Octet) /\ t \in Seq(Octet)
  BY DEF Short
<1>2. /\ s \o t \in Seq(Octet) /\ Len(s \o t) = Len(s) + Len(t) /\ Len(s) \in Nat /\ Len(t) \in Nat
      /\ \A i \in 1 .. Len(s) + Len(t) :
            (s \o t)[i] = IF i <= Len(s) THEN s[i] ELSE t[i - Len(s)]
  BY <1>1, Joined
<1>3. ASSUME NEW i \in 1 .. Len(s) + Len(t) PROVE (s \o t)[i].pkt.len <= Longest
  <2>1. CASE i <= Len(s)
    <3>1. i \in 1 .. Len(s) /\ (s \o t)[i] = s[i]
      BY <1>2, <2>1
    <3>2. QED BY <3>1 DEF Short
  <2>2. CASE ~(i <= Len(s))
    <3>1. i - Len(s) \in 1 .. Len(t) /\ (s \o t)[i] = t[i - Len(s)]
      BY <1>2, <2>2
    <3>2. QED BY <3>1 DEF Short
  <2>3. QED BY <2>1, <2>2
<1> DEFINE u == s \o t
<1>4. u \in Seq(Octet) /\ \A i \in 1 .. Len(u) : u[i].pkt.len <= Longest
  BY <1>2, <1>3
<1> HIDE DEF u
<1>5. Short(u)
  BY <1>4 DEF Short
<1>6. QED BY <1>2, <1>5 DEF u

LEMMA ShortCut ==
    ASSUME NEW s, Short(s), NEW m \in Nat, NEW n \in Nat, m <= n, n <= Len(s)
    PROVE  /\ Short(SubSeq(s, m + 1, n)) /\ Len(SubSeq(s, m + 1, n)) = n - m
           /\ \A i \in 1 .. n - m : SubSeq(s, m + 1, n)[i] = s[m + i]
<1> DEFINE u == SubSeq(s, m + 1, n)
<1>1. s \in Seq(Octet) /\ Len(s) \in Nat
  BY DEF Short
<1>2. u \in Seq(Octet) /\ Len(u) = n - m /\ \A i \in 1 .. n - m : u[i] = s[m + i]
  BY <1>1
<1> HIDE DEF u
<1>3. \A i \in 1 .. n - m : m + i \in 1 .. Len(s)
  BY <1>1
<1>4. \A i \in 1 .. Len(u) : u[i].pkt.len <= Longest
  BY <1>2, <1>3 DEF Short
<1>5. QED BY <1>2, <1>4 DEF Short, u

LEMMA PieceShort ==
    ASSUME NEW S, Short(S), NEW s, NEW a, Piece(S, s, a)
    PROVE  Short(s)
<1>1. \A i \in 1 .. Len(s) : a + i \in 1 .. Len(S)
  BY DEF Piece, Short
<1>2. QED BY <1>1 DEF Piece, Short

LEMMA DataShort ==
    ASSUME SendingOK, NEW f, Carried(f)
    PROVE  /\ Short(f.data) /\ f.vc \in VCs /\ Len(f.data) \in Nat /\ f.fhp \in Nat
           /\ f.count \in 0 .. Modulus - 1 /\ f.mc \in 0 .. Modulus - 1
<1>1. f.vc \in VCs /\ f.data \in Seq(Octet) /\ f.count \in Nat /\ f.mc \in Nat /\ f.fhp \in Nat
  BY DEF Carried, Frame
<1>2. Short(stream[f.vc])
  BY <1>1 DEF SendingOK
<1>3. Short(f.data)
  BY <1>2, PieceShort DEF Carried
<1>4. Len(f.data) \in Nat
  BY <1>1
<1>5. f.count \in 0 .. Modulus - 1 /\ f.mc \in 0 .. Modulus - 1
  BY <1>1, FormatAssumption DEF Carried
<1>6. QED BY <1>1, <1>3, <1>4, <1>5

\* A frame leaves something on its channel.
LEMMA LeaveHolds ==
    ASSUME HeldOK, pc = "ready", NEW v \in VCs, NEW octets, Short(octets), NEW sync \in BOOLEAN,
           NEW c \in 0 .. Modulus - 1,
           pending' = [pending EXCEPT ![v] = octets], inSync' = [inSync EXCEPT ![v] = sync],
           lastCount' = [lastCount EXCEPT ![v] = c], lastMc' \in 0 .. Modulus - 1 \cup {None},
           delivered' = delivered, vcGaps' \in Nat, mcGaps' \in Nat, dropped' \in Nat,
           pc' \in {"ready", "finish", "last"}, IF pc' = "ready" THEN cur' = cur ELSE cur' = v,
           Short(rest'), Len(rest') <= DataLen,
           Len(octets) < Longest + (IF pc' # "ready" THEN DataLen ELSE 0)
    PROVE  HeldOK'
<1>1. /\ pending \in [VCs -> Seq(Octet)] /\ inSync \in [VCs -> BOOLEAN]
      /\ lastCount \in [VCs -> 0 .. Modulus - 1 \cup {None}]
      /\ octets \in Seq(Octet)
  BY DEF HeldOK, Short
<1>2. /\ pending' \in [VCs -> Seq(Octet)] /\ inSync' \in [VCs -> BOOLEAN]
      /\ lastCount' \in [VCs -> 0 .. Modulus - 1 \cup {None}]
  BY <1>1
<1>3. cur' \in VCs \cup {None} /\ (pc' # "ready" => cur' \in VCs)
  BY DEF HeldOK
<1>4. ASSUME NEW u \in VCs
      PROVE  /\ Short(pending'[u])
             /\ Len(pending'[u]) < Longest + (IF pc' # "ready" /\ cur' = u THEN DataLen ELSE 0)
  <2>1. CASE u = v
    <3>1. pending'[u] = octets
      BY <1>1, <2>1
    <3>2. CASE pc' = "ready"
      BY <3>1, <3>2
    <3>3. CASE pc' # "ready"
      BY <2>1, <3>1, <3>3
    <3>4. QED BY <3>2, <3>3
  <2>2. CASE u # v
    <3>1. pending'[u] = pending[u]
      BY <1>1, <2>2
    <3>2. Short(pending[u]) /\ Len(pending[u]) < Longest + 0
      BY DEF HeldOK
    <3>3. ~(pc' # "ready" /\ cur' = u)
      BY <2>2
    <3>4. QED BY <3>1, <3>2, <3>3
  <2>3. QED BY <2>1, <2>2
<1>5. QED BY <1>2, <1>3, <1>4 DEF HeldOK

\* A frame is handled.
LEMMA HandleHolds ==
    ASSUME SendingOK, HeldOK, NEW f, Carried(f), HandleFrame(f)
    PROVE  HeldOK'
<1> DEFINE v == f.vc
           d == f.data
           p == f.fhp
           r == SubSeq(d, p + 1, Len(d))
           m == SubSeq(d, 1, p)
           h == Held(f)
<1>1. /\ Short(d) /\ v \in VCs /\ Len(d) \in Nat /\ p \in Nat /\ Len(d) <= DataLen
      /\ f.count \in 0 .. Modulus - 1 /\ f.mc \in 0 .. Modulus - 1
  BY DataShort DEF Carried
<1>2. Longest \in Nat /\ HdrLen + DataLen <= Longest /\ HdrLen >= 1 /\ HdrLen \in Nat /\ DataLen \in Nat
  BY LongestIs, FormatAssumption
<1>3. DataLen < Longest
  BY <1>2
<1>4. Gap(f) \in BOOLEAN /\ Synced(f) \in BOOLEAN
  BY <1>1 DEF Gap, Breaks, Synced, HeldOK
<1>5. \A b \in BOOLEAN : OneIf(b) \in Nat
  BY DEF OneIf
<1>6. ASSUME pc = "ready"
      PROVE  Short(h) /\ Len(h) < Longest /\ Len(h) \in Nat
  <2>1. Short(pending[v]) /\ Len(pending[v]) < Longest
    BY <1>1, <1>2, <1>6 DEF HeldOK
  <2>2. h \in {<<>>, pending[v]}
    BY DEF Held
  <2>3. Short(<<>>) /\ Len(<<>>) < Longest
    BY <1>2, <1>3, ShortEmpty
  <2>4. Short(h) /\ Len(h) < Longest
    BY <2>1, <2>2, <2>3
  <2> HIDE DEF h
  <2>5. Len(h) \in Nat
    BY <2>4 DEF Short
  <2>6. QED BY <2>4, <2>5
<1>7. ASSUME CountMaster(f)
      PROVE  lastMc' \in 0 .. Modulus - 1 \cup {None} /\ mcGaps' \in Nat
  <2>1. (f.ours /\ Breaks(lastMc, f.mc)) \in BOOLEAN
    BY DEF Breaks
  <2>2. OneIf(f.ours /\ Breaks(lastMc, f.mc)) \in Nat
    BY <1>5, <2>1
  <2>3. QED BY <1>1, <1>7, <2>2 DEF CountMaster, HeldOK
<1>8. ASSUME Counted(f)
      PROVE  /\ lastMc' \in 0 .. Modulus - 1 \cup {None} /\ mcGaps' \in Nat /\ vcGaps' \in Nat
             /\ lastCount' = [lastCount EXCEPT ![v] = f.count]
  BY <1>4, <1>5, <1>7, <1>8 DEF Counted, HeldOK
<1>9. dropped + OneIf(Gap(f) /\ pending[v] # <<>>) \in Nat /\ dropped + OneIf(pending[v] # <<>>) \in Nat
  <2>1. (Gap(f) /\ pending[v] # <<>>) \in BOOLEAN /\ (pending[v] # <<>>) \in BOOLEAN
    BY <1>4
  <2>2. OneIf(Gap(f) /\ pending[v] # <<>>) \in Nat /\ OneIf(pending[v] # <<>>) \in Nat
    BY <1>5, <2>1
  <2>3. QED BY <2>2 DEF HeldOK
<1>10. Short(rest) /\ Len(rest) <= DataLen /\ Short(<<>>) /\ Len(<<>>) <= DataLen
  BY <1>2, ShortEmpty DEF HeldOK
<1>11. ASSUME p < Len(d)
       PROVE  Short(r) /\ Len(r) <= DataLen /\ Short(m) /\ Len(m) <= DataLen
              /\ Len(r) \in Nat /\ Len(m) \in Nat
  <2>1. Short(r) /\ Len(r) = Len(d) - p
    BY <1>1, <1>11, ShortCut
  <2>2. Short(SubSeq(d, 0 + 1, p)) /\ Len(SubSeq(d, 0 + 1, p)) = p - 0
    BY <1>1, <1>11, ShortCut
  <2>3. 0 + 1 = 1
    OBVIOUS
  <2>4. Short(m) /\ Len(m) = p - 0
    BY <2>2, <2>3
  <2> HIDE DEF r, m
  <2>5. QED BY <1>1, <1>2, <1>11, <2>1, <2>4
<1> HIDE DEF r, m, h
<1>12. CASE Reject(f)
  <2>1. /\ UNCHANGED <<pc, cur, rest, pending, inSync, lastCount, lastMc, delivered, vcGaps, mcGaps, dropped>>
    BY <1>12 DEF Reject, deframer
  <2>2. QED BY <2>1 DEF HeldOK
<1>13. CASE Filter(f)
  <2>1. /\ CountMaster(f)
        /\ UNCHANGED <<pc, cur, rest, pending, inSync, lastCount, delivered, vcGaps, dropped>>
    BY <1>13 DEF Filter
  <2>2. QED BY <1>7, <2>1 DEF HeldOK
<1>14. CASE AcceptIdle(f)
  <2>1. /\ pc = "ready" /\ Counted(f)
        /\ pending' = [pending EXCEPT ![v] = h] /\ inSync' = [inSync EXCEPT ![v] = Synced(f)]
        /\ dropped' \in Nat
        /\ UNCHANGED <<pc, cur, rest, delivered>>
    BY <1>9, <1>14 DEF AcceptIdle, Leave, Takes, h
  <2>2. pc' = "ready" /\ Short(rest') /\ Len(rest') <= DataLen
    BY <1>10, <2>1
  <2>3. Len(h) < Longest + 0
    BY <1>2, <1>6, <2>1
  <2>4. QED BY <1>1, <1>4, <1>6, <1>8, <2>1, <2>2, <2>3, LeaveHolds
<1>15. CASE AcceptBadPointer(f)
  <2>1. /\ pc = "ready" /\ Counted(f)
        /\ pending' = [pending EXCEPT ![v] = <<>>] /\ inSync' = [inSync EXCEPT ![v] = FALSE]
        /\ dropped' \in Nat
        /\ UNCHANGED <<pc, cur, rest, delivered>>
    BY <1>9, <1>15 DEF AcceptBadPointer, Leave, Takes
  <2>2. pc' = "ready" /\ Short(rest') /\ Len(rest') <= DataLen
    BY <1>10, <2>1
  <2>3. Short(<<>>) /\ Len(<<>>) < Longest + 0
    BY <1>2, <1>3, ShortEmpty
  <2>4. FALSE \in BOOLEAN
    OBVIOUS
  <2>5. QED BY <1>1, <1>8, <2>1, <2>2, <2>3, <2>4, LeaveHolds
<1>16. CASE AcceptNoStart(f)
  <2>1. /\ pc = "ready" /\ Counted(f) /\ dropped' \in Nat /\ delivered' = delivered
    BY <1>9, <1>16 DEF AcceptNoStart, Takes
  <2>2. CASE /\ Leave(f, Held(f) \o f.data, TRUE) /\ Continue("last", f, <<>>)
    <3>1. /\ pending' = [pending EXCEPT ![v] = h \o d] /\ inSync' = [inSync EXCEPT ![v] = TRUE]
          /\ pc' = "last" /\ cur' = v /\ rest' = <<>>
      BY <2>2 DEF Leave, Continue, h
    <3>2. Short(h \o d) /\ Len(h \o d) = Len(h) + Len(d)
      BY <1>1, <1>6, <2>1, ShortJoin
    <3>3. Len(h \o d) < Longest + DataLen
      BY <1>1, <1>2, <1>6, <2>1, <3>2
    <3>4. TRUE \in BOOLEAN /\ pc' \in {"ready", "finish", "last"} /\ pc' # "ready"
      BY <3>1
    <3>5. Short(rest') /\ Len(rest') <= DataLen
      BY <1>10, <3>1
    <3>6. QED BY <1>1, <1>8, <2>1, <3>1, <3>2, <3>3, <3>4, <3>5, LeaveHolds
  <2>3. CASE /\ Leave(f, Held(f), FALSE) /\ UNCHANGED <<pc, cur, rest>>
    <3>1. /\ pending' = [pending EXCEPT ![v] = h] /\ inSync' = [inSync EXCEPT ![v] = FALSE]
          /\ pc' = "ready" /\ cur' = cur
      BY <2>1, <2>3 DEF Leave, h
    <3>2. Short(rest') /\ Len(rest') <= DataLen
      BY <1>10, <2>3
    <3>3. Len(h) < Longest + 0 /\ FALSE \in BOOLEAN
      BY <1>2, <1>6, <2>1
    <3>4. QED BY <1>1, <1>6, <1>8, <2>1, <3>1, <3>2, <3>3, LeaveHolds
  <2>4. QED BY <1>16, <2>2, <2>3 DEF AcceptNoStart
<1>17. CASE AcceptPointer(f)
  <2>1. /\ pc = "ready" /\ Counted(f) /\ dropped' \in Nat /\ delivered' = delivered /\ p < Len(d)
    BY <1>9, <1>17 DEF AcceptPointer, Takes
  <2>2. CASE /\ Leave(f, Held(f) \o SubSeq(f.data, 1, f.fhp), TRUE)
             /\ Continue("finish", f, SubSeq(f.data, f.fhp + 1, Len(f.data)))
    <3>1. /\ pending' = [pending EXCEPT ![v] = h \o m] /\ inSync' = [inSync EXCEPT ![v] = TRUE]
          /\ pc' = "finish" /\ cur' = v /\ rest' = r
      BY <2>2 DEF Leave, Continue, h, m, r
    <3>2. Short(h \o m) /\ Len(h \o m) = Len(h) + Len(m)
      BY <1>6, <1>11, <2>1, ShortJoin
    <3>3. Len(h \o m) < Longest + DataLen
      BY <1>2, <1>6, <1>11, <2>1, <3>2
    <3>4. TRUE \in BOOLEAN /\ pc' \in {"ready", "finish", "last"} /\ pc' # "ready"
      BY <3>1
    <3>5. Short(rest') /\ Len(rest') <= DataLen
      BY <1>11, <2>1, <3>1
    <3>6. QED BY <1>1, <1>8, <2>1, <3>1, <3>2, <3>3, <3>4, <3>5, LeaveHolds
  <2>3. CASE /\ Leave(f, SubSeq(f.data, f.fhp + 1, Len(f.data)), TRUE) /\ Continue("last", f, <<>>)
    <3>1. /\ pending' = [pending EXCEPT ![v] = r] /\ inSync' = [inSync EXCEPT ![v] = TRUE]
          /\ pc' = "last" /\ cur' = v /\ rest' = <<>>
      BY <2>3 DEF Leave, Continue, r
    <3>2. Len(r) < Longest + DataLen
      BY <1>2, <1>3, <1>11, <2>1
    <3>3. TRUE \in BOOLEAN /\ pc' \in {"ready", "finish", "last"} /\ pc' # "ready"
      BY <3>1
    <3>4. Short(rest') /\ Len(rest') <= DataLen
      BY <1>10, <3>1
    <3>5. QED BY <1>1, <1>8, <1>11, <2>1, <3>1, <3>2, <3>3, <3>4, LeaveHolds
  <2>4. QED BY <1>17, <2>2, <2>3 DEF AcceptPointer
<1>18. QED BY <1>12, <1>13, <1>14, <1>15, <1>16, <1>17 DEF HandleFrame

\* Whatever is read as a header, the length is one a packet can have.
LEMMA ReadingLen ==
    ASSUME NEW q, Short(q), Len(q) >= HdrLen, NEW h \in Readings(q)
    PROVE  h.len \in Nat /\ h.len <= Longest
<1>1. HdrLen \in Nat /\ HdrLen >= 1
  BY FormatAssumption
<1>2. 1 \in 1 .. Len(q) /\ q \in Seq(Octet)
  BY <1>1 DEF Short
<1>3. q[1].pkt.len \in Nat /\ q[1].pkt.len <= Longest
  <2>1. q[1] \in Octet
    BY <1>2
  <2>2. QED BY <1>2, <2>1, OctetParts DEF Short
<1>4. CASE Intact(q)
  <2>1. h = [version0 |-> TRUE, len |-> q[1].pkt.len, idle |-> q[1].pkt.idle]
    BY <1>4 DEF Readings
  <2>2. QED BY <1>3, <2>1
<1>5. CASE ~Intact(q)
  <2>1. h \in Reading
    BY <1>5 DEF Readings
  <2>2. h.len \in Sizes
    BY <2>1 DEF Reading
  <2> DEFINE n == h.len
  <2>3. n \in Sizes
    BY <2>2
  <2> HIDE DEF n
  <2>5. n \in Nat
    BY <2>3, FormatAssumption
  <2>6. n <= Longest
    BY <2>3, LongestIs
  <2>7. QED BY <2>5, <2>6 DEF n
<1>6. QED BY <1>4, <1>5

\* A turn of a drain.
LEMMA DrainHolds ==
    ASSUME HeldOK, Drain
    PROVE  HeldOK'
<1> DEFINE q == pending[cur]
<1>1. pc \in {"finish", "last"} /\ cur \in VCs
  BY DEF Drain, Extract, DrainLosesSync, DrainEnds, HasHeader, HeldOK
<1>2. /\ pending \in [VCs -> Seq(Octet)] /\ inSync \in [VCs -> BOOLEAN]
      /\ delivered \in [VCs -> Seq(Seq(Octet))]
      /\ Short(q) /\ Len(q) < Longest + DataLen /\ q \in Seq(Octet) /\ Len(q) \in Nat
  <2>1. /\ pending \in [VCs -> Seq(Octet)] /\ inSync \in [VCs -> BOOLEAN]
        /\ delivered \in [VCs -> Seq(Seq(Octet))]
        /\ Short(q) /\ Len(q) < Longest + DataLen
    BY <1>1 DEF HeldOK
  <2> HIDE DEF q
  <2>2. q \in Seq(Octet) /\ Len(q) \in Nat
    BY <2>1 DEF Short
  <2>3. QED BY <2>1, <2>2
<1>3. Longest \in Nat /\ HdrLen + DataLen <= Longest /\ HdrLen >= 1 /\ HdrLen \in Nat /\ DataLen \in Nat
  BY LongestIs, FormatAssumption
<1>4. ASSUME NEW octets, Short(octets), Len(octets) < Longest + (IF pc' # "ready" THEN DataLen ELSE 0),
             pending' = [pending EXCEPT ![cur] = octets],
             inSync' \in [VCs -> BOOLEAN], pc' \in {"ready", "finish", "last"},
             Short(rest'), Len(rest') <= DataLen, dropped' \in Nat,
             delivered' \in [VCs -> Seq(Seq(Octet))], UNCHANGED <<cur, lastCount, lastMc, vcGaps, mcGaps>>
      PROVE  HeldOK'
  <2>1. octets \in Seq(Octet)
    BY <1>4 DEF Short
  <2>2. pending' \in [VCs -> Seq(Octet)]
    BY <1>2, <1>4, <2>1
  <2>3. ASSUME NEW u \in VCs
        PROVE  /\ Short(pending'[u])
               /\ Len(pending'[u]) < Longest + (IF pc' # "ready" /\ cur' = u THEN DataLen ELSE 0)
    <3>1. CASE u = cur
      <4>1. pending'[u] = octets /\ cur' = u
        BY <1>1, <1>2, <1>4, <3>1
      <4>2. CASE pc' = "ready"
        BY <1>4, <4>1, <4>2
      <4>3. CASE pc' # "ready"
        BY <1>4, <4>1, <4>3
      <4>4. QED BY <4>2, <4>3
    <3>2. CASE u # cur
      <4>1. pending'[u] = pending[u] /\ ~(pc' # "ready" /\ cur' = u) /\ ~(pc # "ready" /\ cur = u)
        BY <1>2, <1>4, <3>2
      <4>2. /\ Short(pending[u])
            /\ Len(pending[u]) < Longest + (IF pc # "ready" /\ cur = u THEN DataLen ELSE 0)
        BY DEF HeldOK
      <4>3. QED BY <4>1, <4>2
    <3>3. QED BY <3>1, <3>2
  <2>4. /\ lastCount' \in [VCs -> 0 .. Modulus - 1 \cup {None}]
        /\ lastMc' \in 0 .. Modulus - 1 \cup {None} /\ vcGaps' \in Nat /\ mcGaps' \in Nat
        /\ cur' \in VCs /\ cur' \in VCs \cup {None}
    BY <1>1, <1>4 DEF HeldOK
  <2>5. QED BY <1>4, <2>2, <2>3, <2>4 DEF HeldOK
<1>5. Short(rest) /\ Len(rest) <= DataLen /\ dropped \in Nat /\ Short(<<>>) /\ Len(<<>>) = 0
  BY ShortEmpty DEF HeldOK
<1>6. CASE Extract
  <2>1. PICK h \in Readings(q) :
           /\ Len(q) >= h.len
           /\ pending' = [pending EXCEPT ![cur] = SubSeq(@, h.len + 1, Len(@))]
           /\ delivered' = [delivered EXCEPT ![cur] =
                              IF h.idle THEN @ ELSE Append(@, SubSeq(q, 1, h.len))]
    BY <1>6 DEF Extract
  <2>2. /\ Len(q) >= HdrLen
        /\ UNCHANGED <<pc, cur, rest, inSync, lastCount, lastMc, vcGaps, mcGaps, dropped>>
    BY <1>6 DEF Extract, HasHeader
  <2> DEFINE n == h.len
             o == SubSeq(q, n + 1, Len(q))
             s == SubSeq(q, 1, n)
  <2>3. n \in Nat /\ n <= Len(q)
    BY <1>2, <2>1, <2>2, ReadingLen
  <2>4. pending' = [pending EXCEPT ![cur] = o]
    BY <1>1, <1>2, <2>1
  <2> HIDE DEF n
  <2>5. Short(o) /\ Len(o) = Len(q) - n
    <3> HIDE DEF q
    <3>1. Len(q) <= Len(q) /\ n <= Len(q) /\ n \in Nat /\ Len(q) \in Nat /\ Short(q)
      BY <1>2, <2>3
    <3>2. Short(SubSeq(q, n + 1, Len(q))) /\ Len(SubSeq(q, n + 1, Len(q))) = Len(q) - n
      BY ONLY <3>1, ShortCut
    <3>3. QED BY <3>2
  <2>6. s \in Seq(Octet)
    <3> HIDE DEF q
    <3>1. Short(SubSeq(q, 0 + 1, n))
      <4>1. 0 \in Nat /\ 0 <= n /\ n <= Len(q) /\ n \in Nat /\ Short(q)
        BY <1>2, <2>3
      <4>2. QED BY ONLY <4>1, ShortCut
    <3>2. 0 + 1 = 1
      OBVIOUS
    <3>3. QED BY <3>1, <3>2 DEF Short
  <2>7. delivered' \in [VCs -> Seq(Seq(Octet))]
    <3>1. delivered[cur] \in Seq(Seq(Octet))
      BY <1>1, <1>2
    <3> HIDE DEF s
    <3>2. Append(delivered[cur], s) \in Seq(Seq(Octet))
      BY <2>6, <3>1
    <3>3. delivered' = [delivered EXCEPT ![cur] = IF h.idle THEN @ ELSE Append(@, s)]
      BY <2>1 DEF s, n
    <3>4. QED BY <1>1, <1>2, <3>1, <3>2, <3>3
  <2>8. Len(o) < Longest + (IF pc' # "ready" THEN DataLen ELSE 0)
    <3>1. pc' # "ready"
      BY <1>1, <2>2
    <3> HIDE DEF o, q
    <3>2. Len(o) <= Len(q)
      BY <1>2, <2>3, <2>5
    <3>3. Len(o) \in Nat
      BY <2>5 DEF Short
    <3>4. QED BY <1>2, <1>3, <3>1, <3>2, <3>3
  <2>9. pc' \in {"ready", "finish", "last"} /\ inSync' \in [VCs -> BOOLEAN]
    BY <1>1, <1>2, <2>2
  <2> HIDE DEF o, q
  <2>10. QED BY <1>4, <1>5, <2>2, <2>4, <2>5, <2>7, <2>8, <2>9
<1>7. CASE DrainLosesSync
  <2>1. /\ pending' = [pending EXCEPT ![cur] = <<>>]
        /\ inSync' = [inSync EXCEPT ![cur] = FALSE]
        /\ dropped' = dropped + 1
        /\ UNCHANGED <<pc, cur, rest, lastCount, lastMc, delivered, vcGaps, mcGaps>>
    BY <1>7 DEF DrainLosesSync
  <2>2. inSync' \in [VCs -> BOOLEAN] /\ dropped' \in Nat /\ pc' \in {"ready", "finish", "last"}
    BY <1>1, <1>2, <1>5, <2>1
  <2>3. Len(<<>>) < Longest + (IF pc' # "ready" THEN DataLen ELSE 0)
    <3>1. pc' # "ready"
      BY <1>1, <2>1
    <3>2. 0 < Longest + DataLen
      BY <1>3
    <3>3. QED BY <1>5, <3>1, <3>2
  <2>4. Short(rest') /\ Len(rest') <= DataLen /\ delivered' \in [VCs -> Seq(Seq(Octet))]
    BY <1>2, <1>5, <2>1
  <2>5. QED BY <1>4, <1>5, <2>1, <2>2, <2>3, <2>4
<1>8. CASE DrainEnds
  <2>1. /\ HasHeader => \E h \in Readings(q) : Len(q) < h.len
        /\ UNCHANGED <<cur, lastCount, lastMc, delivered, vcGaps, mcGaps>>
    BY <1>8 DEF DrainEnds
  <2>2. CASE /\ pc = "finish"
             /\ pending' = [pending EXCEPT ![cur] = rest]
             /\ inSync' = [inSync EXCEPT ![cur] = TRUE]
             /\ dropped' = dropped + OneIf(pending[cur] # <<>>)
             /\ pc' = "last" /\ rest' = <<>>
    <3>1. dropped' \in Nat
      BY <1>5, <2>2 DEF OneIf
    <3>2. inSync' \in [VCs -> BOOLEAN]
      BY <1>2, <2>2
    <3>3. Len(rest) < Longest + (IF pc' # "ready" THEN DataLen ELSE 0)
      <4>1. pc' # "ready"
        BY <2>2
      <4>2. Len(rest) \in Nat
        BY <1>5 DEF Short
      <4>3. QED BY <1>3, <1>5, <4>1, <4>2
    <3>4. /\ Short(rest') /\ Len(rest') <= DataLen /\ delivered' \in [VCs -> Seq(Seq(Octet))]
          /\ pc' \in {"ready", "finish", "last"}
      BY <1>2, <1>3, <1>5, <2>1, <2>2
    <3>5. QED BY <1>4, <1>5, <2>1, <2>2, <3>1, <3>2, <3>3, <3>4
  <2>3. CASE pc = "last" /\ pc' = "ready" /\ UNCHANGED <<pending, inSync, dropped, rest>>
    <3>1. Len(q) < Longest
      <4>1. CASE HasHeader
        <5>1. PICK h \in Readings(q) : Len(q) < h.len
          BY <2>1, <4>1
        <5>2. Len(q) >= HdrLen
          BY <4>1 DEF HasHeader
        <5>3. h.len \in Nat /\ h.len <= Longest
          BY <1>2, <5>2, ReadingLen
        <5> HIDE DEF q
        <5>4. QED BY <1>2, <1>3, <5>1, <5>3
      <4>2. CASE ~HasHeader
        <5>1. Len(q) < HdrLen
          BY <1>1, <1>2, <1>3, <4>2 DEF HasHeader
        <5> HIDE DEF q
        <5>2. QED BY <1>2, <1>3, <5>1
      <4>3. QED BY <4>1, <4>2
    <3>2. pending' = [pending EXCEPT ![cur] = q]
      BY <1>1, <1>2, <2>3
    <3>3. Len(q) < Longest + (IF pc' # "ready" THEN DataLen ELSE 0)
      BY <1>3, <2>3, <3>1
    <3>4. /\ Short(rest') /\ Len(rest') <= DataLen /\ delivered' \in [VCs -> Seq(Seq(Octet))]
          /\ pc' \in {"ready", "finish", "last"} /\ dropped' \in Nat /\ inSync' \in [VCs -> BOOLEAN]
      BY <1>2, <1>5, <2>1, <2>3
    <3> HIDE DEF q
    <3>5. QED BY <1>2, <1>4, <2>1, <3>2, <3>3, <3>4
  <2>4. QED BY <1>8, <2>2, <2>3 DEF DrainEnds
<1>9. QED BY <1>6, <1>7, <1>8 DEF Drain

\* The deframer, in any step.
LEMMA HeldStep ==
    ASSUME SendingOK, CarriedOK, HeldOK, [Next]_vars
    PROVE  HeldOK'
<1>1. CASE UNCHANGED deframer
  <2>1. UNCHANGED <<pc, cur, rest, pending, inSync, lastCount, lastMc, delivered, vcGaps, mcGaps, dropped>>
    BY <1>1 DEF deframer
  <2>2. QED BY <2>1 DEF HeldOK
<1>2. CASE Lagged
  <2>1. /\ pc' = pc /\ cur' = cur /\ rest' = rest /\ delivered' = delivered
        /\ vcGaps' = vcGaps /\ mcGaps' = mcGaps /\ dropped' = dropped
        /\ pending' = [v \in VCs |-> <<>>] /\ inSync' = [v \in VCs |-> FALSE]
        /\ lastCount' = [v \in VCs |-> None] /\ lastMc' = None
    BY <1>2 DEF Lagged, Reset
  <2>2. <<>> \in Seq(Octet)
    OBVIOUS
  <2>3. /\ pending' \in [VCs -> Seq(Octet)] /\ inSync' \in [VCs -> BOOLEAN]
        /\ lastCount' \in [VCs -> 0 .. Modulus - 1 \cup {None}]
    BY <2>1, <2>2
  <2>4. ASSUME NEW u \in VCs
        PROVE  /\ Short(pending'[u])
               /\ Len(pending'[u]) < Longest + (IF pc' # "ready" /\ cur' = u THEN DataLen ELSE 0)
    <3>1. pending'[u] = <<>>
      BY <2>1
    <3>2. Longest \in Nat /\ DataLen \in Nat /\ 0 < Longest
      BY LongestIs, FormatAssumption
    <3>3. QED BY <3>1, <3>2, ShortEmpty
  <2>5. QED BY <2>1, <2>3, <2>4 DEF HeldOK
<1>3. CASE Receive
  <2>1. PICK i \in 1 .. Len(channel) : HandleFrame(channel[i])
    BY <1>3 DEF Receive
  <2>2. PICK f : f = channel[i]
    OBVIOUS
  <2>3. f \in ToSet(channel) /\ f \in Frame
    BY <2>2 DEF CarriedOK, ToSet
  <2>4. f \in Known
    BY <2>3, FrameNotNone DEF Known
  <2>5. Carried(f)
    BY <2>4 DEF CarriedOK
  <2>6. QED BY <2>1, <2>2, <2>5, HandleHolds
<1>4. CASE DrainPackets
  BY <1>4, DrainHolds DEF DrainPackets
<1>5. QED BY <1>1, <1>2, <1>3, <1>4
          DEF Next, vars, PackPacket, FlushChannel, SendFrame, SendIdle, Lose, Damage, Mispoint,
              Duplicate, Stray

-----------------------------------------------------------------------------
(* Counts and bounds, and the invariant of any link. *)

CountingOK ==
    /\ scene \in Scenes
    /\ Len(channel) <= Room
    /\ faults \in 0 .. scene.faults /\ damage \in Nat
    /\ accepted \subseteq [vc : VCs, seq : Nat, lo : Nat, hi : Nat]

LEMMA CountingStep ==
    ASSUME CarriedOK, CountingOK, [Next]_vars
    PROVE  CountingOK'
<1>1. /\ channel \in Seq(Frame) /\ Len(channel) \in Nat /\ Room \in Nat
      /\ scene \in Scenes /\ scene.faults \in Nat /\ scene' = scene
      /\ \A i \in 1 .. Len(channel) : channel[i] \in Frame
  <2>1. channel \in Seq(Frame) /\ Room \in Nat /\ scene \in Scenes /\ scene.faults \in Nat
    BY LinkAssumption DEF CarriedOK, CountingOK, Scene
  <2>2. scene' = scene
    BY DEF Next, vars, link, PackPacket, FlushChannel, SendFrame, SendIdle, Lose, Damage, Mispoint,
           Duplicate, Stray, Lagged, Receive, DrainPackets
  <2>3. QED BY <2>1, <2>2
<1>2. ASSUME UNCHANGED <<faults, damage>> \/ \E n \in Nat : Faulty(n),
             Len(channel') <= Room,
             accepted' \subseteq [vc : VCs, seq : Nat, lo : Nat, hi : Nat]
      PROVE  CountingOK'
  <2>1. faults' \in 0 .. scene.faults /\ damage' \in Nat
    <3>1. CASE UNCHANGED <<faults, damage>>
      BY <3>1 DEF CountingOK
    <3>2. CASE \E n \in Nat : Faulty(n)
      <4>1. PICK n \in Nat : Faulty(n)
        BY <3>2
      <4>2. QED BY <1>1, <4>1 DEF Faulty, CountingOK
    <3>3. QED BY <1>2, <3>1, <3>2
  <2>2. QED BY <1>1, <1>2, <2>1 DEF CountingOK
<1>3. /\ Len(channel) <= Room
      /\ accepted \subseteq [vc : VCs, seq : Nat, lo : Nat, hi : Nat]
  BY DEF CountingOK
<1>4. ASSUME UNCHANGED <<faults, damage, accepted, channel>> PROVE CountingOK'
  BY <1>2, <1>3, <1>4
<1>5. ASSUME NEW f, channel' = Append(channel, f), Len(channel) < Room, UNCHANGED accepted,
             UNCHANGED <<faults, damage>> \/ \E n \in Nat : Faulty(n)
      PROVE  CountingOK'
  <2>1. Len(channel') = Len(channel) + 1
    BY <1>1, <1>5
  <2>2. Len(channel') <= Room
    BY <1>1, <1>5, <2>1
  <2>3. QED BY <1>2, <1>3, <1>5, <2>2
<1>6. CASE PackPacket \/ FlushChannel \/ DrainPackets \/ UNCHANGED vars
  <2>1. UNCHANGED <<faults, damage, accepted, channel>>
    BY <1>6 DEF PackPacket, FlushChannel, DrainPackets, vars, link
  <2>2. QED BY <1>4, <2>1
<1>7. CASE SendFrame \/ SendIdle
  <2>1. \E f : Len(channel) < Room /\ channel' = Append(channel, f)
    BY <1>7 DEF SendFrame, SendIdle, Send
  <2>2. UNCHANGED <<faults, damage, accepted>>
    BY <1>7 DEF SendFrame, SendIdle
  <2>3. QED BY <1>5, <2>1, <2>2
<1>8. CASE Duplicate \/ Stray
  <2>1. \E f : Len(channel) < Room /\ channel' = Append(channel, f)
    BY <1>8 DEF Duplicate, Stray, Send
  <2>2. Faulty(0) /\ UNCHANGED accepted
    BY <1>8 DEF Duplicate, Stray
  <2>3. QED BY <1>5, <2>1, <2>2
<1>9. CASE Lose
  <2>1. PICK i \in 1 .. Len(channel) : Faulty(1) /\ channel' = RemoveAt(channel, i) /\ UNCHANGED accepted
    BY <1>9 DEF Lose
  <2>2. Len(channel') = Len(channel) - 1
    BY <1>1, <2>1, RemovedShorter
  <2>3. Len(channel') <= Room
    BY <1>1, <1>3, <2>2
  <2>4. QED BY <1>2, <1>3, <2>1, <2>3
<1>10. CASE Damage \/ Mispoint
  <2>1. Faulty(1) /\ UNCHANGED accepted
    BY <1>10 DEF Damage, Mispoint
  <2>2. \E i \in 1 .. Len(channel) : \E x : channel' = [channel EXCEPT ![i] = x]
    BY <1>10 DEF Damage, Mispoint
  <2>3. Len(channel') = Len(channel)
    BY <1>1, <2>2
  <2>4. QED BY <1>2, <1>3, <2>1, <2>3
<1>11. CASE Lagged
  <2>1. PICK n \in 1 .. Len(channel) :
           Faulty(n) /\ channel' = SubSeq(channel, n + 1, Len(channel)) /\ accepted' = {}
    BY <1>11 DEF Lagged
  <2>2. Len(channel') = Len(channel) - n
    BY <1>1, <2>1, TailType
  <2>3. Len(channel') <= Room
    BY <1>1, <1>3, <2>2
  <2>4. QED BY <1>2, <2>1, <2>3
<1>12. CASE Receive
  <2>1. PICK i \in 1 .. Len(channel) :
           Note(channel[i]) /\ channel' = RemoveAt(channel, i) /\ UNCHANGED <<faults, damage>>
    BY <1>12 DEF Receive
  <2>2. PICK f : f = channel[i]
    OBVIOUS
  <2>3. f \in Frame /\ f.vc \in VCs /\ f.seq \in Nat /\ f.from \in Nat /\ f.data \in Seq(Octet)
    BY <1>1, <2>2 DEF Frame
  <2>4. Span(f) \in [vc : VCs, seq : Nat, lo : Nat, hi : Nat]
    <3>1. Len(f.data) \in Nat
      BY <2>3
    <3>2. f.from + Len(f.data) \in Nat
      BY <2>3, <3>1
    <3>3. QED BY <2>3, <3>2 DEF Span
  <2>5. accepted' \subseteq [vc : VCs, seq : Nat, lo : Nat, hi : Nat]
    BY <1>3, <2>1, <2>2, <2>4 DEF Note
  <2>6. Len(channel') = Len(channel) - 1
    BY <1>1, <2>1, RemovedShorter
  <2>7. Len(channel') <= Room
    BY <1>1, <1>3, <2>6
  <2>8. QED BY <1>2, <2>1, <2>5, <2>7
<1>13. QED BY <1>6, <1>7, <1>8, <1>9, <1>10, <1>11, <1>12 DEF Next

AnyLinkOK == CountingOK /\ SendingOK /\ CarriedOK /\ HeldOK

LEMMA AnyLinkInit == Init => AnyLinkOK
<1> SUFFICES ASSUME Init PROVE AnyLinkOK
  OBVIOUS
<1>1. /\ scene \in Scenes /\ channel = <<>> /\ lastFrame = [v \in VCs |-> None]
      /\ faults = 0 /\ damage = 0 /\ accepted = {}
      /\ FramerInit /\ DeframerInit
  BY DEF Init
<1>2. /\ <<>> \in Seq(Octet) /\ <<>> \in Seq(Nat) /\ <<>> \in Seq(Frame) /\ <<>> \in Seq(Seq(Octet))
      /\ Len(<<>>) = 0
  OBVIOUS
<1>3. /\ Modulus \in Nat \ {0, 1} /\ DataLen \in Nat /\ Room \in Nat /\ MaxIdle \in Nat
      /\ Longest \in Nat /\ 0 < Longest /\ scene.faults \in Nat
  <2>1. Modulus \in Nat \ {0, 1} /\ DataLen \in Nat /\ HdrLen \in Nat /\ HdrLen > 0
    BY FormatAssumption
  <2>2. Longest \in Nat /\ HdrLen + DataLen <= Longest
    BY LongestIs
  <2>3. Room \in Nat /\ scene.faults \in Nat
    BY <1>1, LinkAssumption DEF Scene
  <2>4. QED BY <2>1, <2>2, <2>3, BoundAssumption
<1>4. CountingOK
  BY <1>1, <1>2, <1>3 DEF CountingOK
<1>5. SenderOK
  <2>1. Whole(<<>>) /\ Piece(<<>>, <<>>, 0)
    BY <1>2 DEF Whole, Piece
  <2>2. 0 = 0 % Modulus
    BY FormatAssumption
  <2>3. QED BY <1>1, <1>2, <2>1, <2>2 DEF SenderOK, FramerInit
<1>6. SendingOK
  <2>1. ASSUME NEW v \in VCs PROVE Short(stream[v]) /\ FlushOK(v) /\ frameCount[v] \in 0 .. Modulus - 1
    <3>1. stream[v] = <<>> /\ frameCount[v] = 0
      BY <1>1 DEF FramerInit
    <3>2. QED BY <1>3, <3>1, ShortEmpty DEF FlushOK
  <2>2. idles \in [VCs -> 0 .. MaxIdle] /\ mcCount \in 0 .. Modulus - 1
    BY <1>1, <1>3 DEF FramerInit
  <2>3. QED BY <1>5, <2>1, <2>2 DEF SendingOK
<1>7. CarriedOK
  <2>1. Known = {}
    BY <1>1 DEF Known, ToSet
  <2>2. QED BY <1>1, <1>2, <2>1 DEF CarriedOK
<1>8. HeldOK
  <2>1. ASSUME NEW v \in VCs
        PROVE  /\ Short(pending[v])
               /\ Len(pending[v]) < Longest + (IF pc # "ready" /\ cur = v THEN DataLen ELSE 0)
    <3>1. pending[v] = <<>> /\ pc = "ready"
      BY <1>1 DEF DeframerInit
    <3>2. QED BY <1>3, <3>1, ShortEmpty
  <2>2. QED BY <1>1, <1>2, <1>3, <2>1, ShortEmpty DEF HeldOK, DeframerInit
<1>9. QED BY <1>4, <1>6, <1>7, <1>8 DEF AnyLinkOK

LEMMA AnyLinkStep == AnyLinkOK /\ [Next]_vars => AnyLinkOK'
<1> SUFFICES ASSUME AnyLinkOK, [Next]_vars PROVE AnyLinkOK'
  OBVIOUS
<1>1. CountingOK /\ SendingOK /\ CarriedOK /\ HeldOK /\ scene \in Scenes
  BY DEF AnyLinkOK, CountingOK
<1>2. QED BY <1>1, CountingStep, SendingStep, CarriedStep, HeldStep DEF AnyLinkOK

\* On any link, whatever is lost, damaged, doubled, late or pointed at wrongly,
\* the framer's queues are whole packets and the deframer holds a bounded number
\* of octets of each channel (frames.rs).
THEOREM AnyLinkInvariance == Spec => []AnyLinkOK
<1>1. Init => AnyLinkOK
  BY AnyLinkInit
<1>2. AnyLinkOK /\ [Next]_vars => AnyLinkOK'
  BY AnyLinkStep
<1>3. QED BY <1>1, <1>2, PTL DEF Spec

\* Types, and the bound of what the deframer holds: less than one packet between
\* frames and less than a frame more while one is taken, for every frame length
\* and whatever it is sent (frames.rs, TmDeframer::accept and drain_packets).
THEOREM HoldsLessThanAPacket == Spec => []TypeOK
<1>1. ASSUME AnyLinkOK PROVE TypeOK
  <2>1. CountingOK /\ SendingOK /\ SenderOK /\ CarriedOK /\ HeldOK
    BY <1>1 DEF AnyLinkOK, SendingOK
  <2>2. ASSUME NEW v \in VCs
        PROVE  /\ queued[v] \in Seq(Octet) /\ stream[v] \in Seq(Octet) /\ pending[v] \in Seq(Octet)
               /\ starts[v] \in Seq(Nat)
               /\ emitted[v] \in Nat /\ packets[v] \in Nat /\ seqs[v] \in Nat
               /\ frameCount[v] \in 0 .. Modulus - 1 /\ idles[v] \in 0 .. MaxIdle
               /\ inSync[v] \in BOOLEAN
               /\ lastCount[v] \in 0 .. Modulus - 1 \cup {None}
               /\ delivered[v] \in Seq(Seq(Octet))
               /\ lastFrame[v] \in Frame \cup {None}
    <3>1. /\ queued[v] \in Seq(Octet) /\ stream[v] \in Seq(Octet) /\ starts[v] \in Seq(Nat)
          /\ emitted[v] \in Nat /\ packets[v] \in Nat /\ seqs[v] \in Nat
      BY <2>1 DEF SenderOK
    <3>2. frameCount[v] \in 0 .. Modulus - 1 /\ idles[v] \in 0 .. MaxIdle
      BY <2>1 DEF SendingOK
    <3>3. /\ pending[v] \in Seq(Octet) /\ inSync[v] \in BOOLEAN
          /\ lastCount[v] \in 0 .. Modulus - 1 \cup {None} /\ delivered[v] \in Seq(Seq(Octet))
      BY <2>1 DEF HeldOK
    <3>4. lastFrame[v] \in Frame \cup {None}
      BY <2>1 DEF CarriedOK
    <3>5. QED BY <3>1, <3>2, <3>3, <3>4
  <2>3. /\ pc \in {"ready", "finish", "last"} /\ cur \in VCs \cup {None}
        /\ pc # "ready" => cur \in VCs
        /\ rest \in Seq(Octet)
        /\ lastMc \in 0 .. Modulus - 1 \cup {None}
        /\ vcGaps \in Nat /\ mcGaps \in Nat /\ dropped \in Nat
    BY <2>1 DEF HeldOK, Short
  <2>4. /\ scene \in Scenes /\ mcCount \in 0 .. Modulus - 1
        /\ channel \in Seq(Frame) /\ Len(channel) <= Room
        /\ faults \in 0 .. scene.faults /\ damage \in Nat
        /\ accepted \subseteq [vc : VCs, seq : Nat, lo : Nat, hi : Nat]
    BY <2>1 DEF CountingOK, SendingOK, CarriedOK
  <2>5. ASSUME NEW v \in VCs
        PROVE  Len(pending[v]) < Longest + IF pc = "ready" THEN 0 ELSE DataLen
    <3>1. Len(pending[v]) < Longest + (IF pc # "ready" /\ cur = v THEN DataLen ELSE 0)
      BY <2>1 DEF HeldOK
    <3>2. Longest \in Nat /\ DataLen \in Nat
      BY LongestIs, FormatAssumption
    <3>3. Len(pending[v]) \in Nat
      BY <2>2
    <3>4. QED BY <3>1, <3>2, <3>3
  <2>6. QED BY <2>2, <2>3, <2>4, <2>5 DEF TypeOK
<1>2. QED BY <1>1, AnyLinkInvariance, PTL

\* After flush the channel's last frame is full: nothing that was packed waits for
\* more to come, for every frame that has room for a packet header (frames.rs,
\* TmFrameBuilder::flush and idle_packet).
THEOREM FlushLeavesNothing == Spec => []FlushSendsAll
<1>1. ASSUME AnyLinkOK PROVE FlushSendsAll
  <2> SUFFICES ASSUME NEW v \in VCs, Settled, DataLen > HdrLen, stream[v] # <<>>, Last(stream[v]).pkt.idle
               PROVE  queued[v] = <<>>
    BY DEF FlushSendsAll
  <2>1. SendingOK /\ SenderOK
    BY <1>1 DEF AnyLinkOK, SendingOK
  <2>2. Len(queued[v]) \in {0, DataLen, DataLen + DataLen}
    BY <2>1 DEF SendingOK, FlushOK
  <2>3. Len(queued[v]) < DataLen /\ DataLen \in Nat
    BY FormatAssumption DEF Settled
  <2>4. Len(queued[v]) = 0
    BY <2>2, <2>3
  <2>5. queued[v] \in Seq(Octet)
    BY <2>1 DEF SenderOK
  <2>6. QED BY <2>4, <2>5
<1>2. QED BY <1>1, AnyLinkInvariance, PTL

-----------------------------------------------------------------------------
(***************************************************************************)
(* Where the deframer finds its way again: after a frame whose pointer is  *)
(* right, what is pending starts a packet.                                 *)
(***************************************************************************)

PointsAtStart(f) == f.fhp < Len(f.data) /\ f.data[f.fhp + 1].at = 0

\* A frame's data from its k-th octet on.
DataFrom(f, k) == SubSeq(f.data, k + 1, Len(f.data))

\* s is the end of f's data, from the start of a packet behind its pointer.
StartsIn(f, s) ==
    \E k \in f.fhp .. Len(f.data) : s = DataFrom(f, k) /\ (s # <<>> => s[1].at = 0)

NotWhole(s) == Len(s) >= HdrLen => Len(s) < s[1].pkt.len

FoundStart(v) ==
    LET f == lastFrame[v] IN
    \/ pc = "finish" /\ cur = v /\ rest = DataFrom(f, f.fhp)
    \/ /\ inSync[v] /\ StartsIn(f, pending[v])
       /\ pc = "last" /\ cur = v
    \/ /\ inSync[v] /\ StartsIn(f, pending[v])
       /\ pc = "ready" \/ cur # v
       /\ NotWhole(pending[v])

FoundOK == \A v \in VCs : lastFrame[v] # None /\ PointsAtStart(lastFrame[v]) => FoundStart(v)

LEMMA PointedAt ==
    ASSUME NEW f, Carried(f), PointsAtStart(f)
    PROVE  /\ StartsIn(f, DataFrom(f, f.fhp)) /\ f.fhp \notin {OnlyIdle, NoStart}
           /\ f.data \in Seq(Octet) /\ Len(f.data) \in Nat /\ f.fhp \in Nat
<1>1. /\ f.data \in Seq(Octet) /\ Len(f.data) \in Nat /\ f.fhp \in Nat
      /\ Len(f.data) <= DataLen /\ f.fhp < Len(f.data) /\ f.data[f.fhp + 1].at = 0
  BY DEF Carried, Frame, PointsAtStart
<1>2. f.fhp \notin {OnlyIdle, NoStart}
  <2>1. DataLen \in Nat /\ DataLen <= 2042
    BY FormatAssumption
  <2>2. f.fhp < 2042
    BY <1>1, <2>1
  <2>3. QED BY <1>1, <2>2 DEF OnlyIdle, NoStart
<1> DEFINE d == f.data
           n == f.fhp
           s == SubSeq(d, n + 1, Len(d))
<1>3. d \in Seq(Octet) /\ Len(d) \in Nat /\ n \in Nat /\ n < Len(d) /\ d[n + 1].at = 0
  BY <1>1
<1> HIDE DEF d, n
<1>4. s[1] = d[n + 1] /\ n \in n .. Len(d)
  BY <1>3
<1>5. StartsIn(f, s)
  BY <1>3, <1>4 DEF StartsIn, DataFrom, d, n
<1>6. QED BY <1>1, <1>2, <1>5 DEF DataFrom, d, n

\* Cutting what was cut.
LEMMA CutTwice ==
    ASSUME NEW d \in Seq(Octet), NEW k \in 0 .. Len(d), NEW n \in 0 .. Len(d) - k
    PROVE  LET s == SubSeq(d, k + 1, Len(d)) IN
           SubSeq(s, n + 1, Len(s)) = SubSeq(d, (k + n) + 1, Len(d))
<1> DEFINE s == SubSeq(d, k + 1, Len(d))
           t == SubSeq(s, n + 1, Len(s))
           u == SubSeq(d, (k + n) + 1, Len(d))
           m == Len(d) - (k + n)
<1>1. s \in Seq(Octet) /\ Len(s) = Len(d) - k /\ \A i \in 1 .. Len(d) - k : s[i] = d[k + i]
  OBVIOUS
<1>2. u \in Seq(Octet) /\ Len(u) = m /\ \A i \in 1 .. m : u[i] = d[(k + n) + i]
  OBVIOUS
<1> HIDE DEF s, u
<1>3. t \in Seq(Octet) /\ Len(t) = m /\ \A i \in 1 .. m : t[i] = s[n + i]
  BY <1>1
<1>4. \A i \in 1 .. m : s[n + i] = d[(k + n) + i]
  <2> SUFFICES ASSUME NEW i \in 1 .. m PROVE s[n + i] = d[(k + n) + i]
    OBVIOUS
  <2>1. n + i \in 1 .. Len(d) - k /\ k + (n + i) = (k + n) + i
    OBVIOUS
  <2>2. QED BY <1>1, <2>1
<1> HIDE DEF t
<1>5. \A i \in 1 .. m : t[i] = u[i]
  BY <1>2, <1>3, <1>4
<1> HIDE DEF m
<1>6. t = [i \in 1 .. m |-> t[i]] /\ u = [i \in 1 .. m |-> u[i]]
  BY <1>2, <1>3
<1>7. t = u
  BY <1>5, <1>6
<1>8. QED BY <1>7 DEF t, u, s

\* A frame that is taken.
LEMMA FoundAtFrame ==
    ASSUME CarriedOK, HeldOK, FoundOK, NEW f, Carried(f), HandleFrame(f), Note(f)
    PROVE  FoundOK'
<1>1. f.vc \in VCs /\ f \in Frame /\ pc = "ready" /\ f # None
  BY LinkAssumption DEF Carried, Frame, HandleFrame, Reject, Filter, AcceptIdle, AcceptBadPointer,
     AcceptNoStart, AcceptPointer, Takes
<1>2. ASSUME NEW v \in VCs, lastFrame'[v] # None, PointsAtStart(lastFrame'[v]),
             pending'[v] = pending[v], inSync'[v] = inSync[v], lastFrame'[v] = lastFrame[v],
             pc' = "ready" \/ cur' # v
      PROVE  FoundStart(v)'
  <2>1. FoundStart(v)
    BY <1>2 DEF FoundOK
  <2>2. inSync[v] /\ StartsIn(lastFrame[v], pending[v]) /\ NotWhole(pending[v])
    BY <1>1, <2>1 DEF FoundStart
  <2>3. QED BY <1>2, <2>2 DEF FoundStart
<1>3. CASE ~Takes(f)
  <2>1. Reject(f) \/ Filter(f)
    BY <1>3 DEF HandleFrame, AcceptIdle, AcceptBadPointer, AcceptNoStart, AcceptPointer
  <2>2. UNCHANGED <<pc, pending, inSync, lastFrame>>
    BY <1>3, <2>1 DEF Reject, Filter, Note, deframer
  <2>3. QED BY <1>1, <1>2, <2>2 DEF FoundOK
<1>4. CASE Takes(f)
  <2>1. lastFrame' = [lastFrame EXCEPT ![f.vc] = f]
    BY <1>4 DEF Note
  <2>2. \E octets, sync : Leave(f, octets, sync)
    BY <1>4 DEF HandleFrame, Reject, Filter, Takes, AcceptIdle, AcceptBadPointer, AcceptNoStart,
       AcceptPointer
  <2>3. (pc' = pc /\ cur' = cur) \/ cur' = f.vc
    BY <1>4 DEF HandleFrame, Reject, Filter, Takes, AcceptIdle, AcceptBadPointer, AcceptNoStart,
       AcceptPointer, Continue
  <2>4. ASSUME NEW v \in VCs, v # f.vc, lastFrame'[v] # None, PointsAtStart(lastFrame'[v])
        PROVE  FoundStart(v)'
    <3>1. pending'[v] = pending[v] /\ inSync'[v] = inSync[v] /\ lastFrame'[v] = lastFrame[v]
      BY <2>1, <2>2, <2>4 DEF Leave
    <3>2. pc' = "ready" \/ cur' # v
      BY <1>1, <2>3, <2>4
    <3>3. QED BY <1>2, <2>4, <3>1, <3>2
  <2>5. ASSUME PointsAtStart(lastFrame'[f.vc])
        PROVE  FoundStart(f.vc)'
    <3>1. lastFrame'[f.vc] = f
      BY <1>1, <2>1 DEF CarriedOK
    <3>2. PointsAtStart(f)
      BY <2>5, <3>1
    <3>3. /\ StartsIn(f, DataFrom(f, f.fhp)) /\ f.fhp \notin {OnlyIdle, NoStart}
          /\ f.data \in Seq(Octet) /\ Len(f.data) \in Nat /\ f.fhp \in Nat
      BY <3>2, PointedAt
    <3>4. AcceptPointer(f)
      <4>1. ~(f.fhp >= Len(f.data))
        BY <3>2, <3>3 DEF PointsAtStart
      <4>2. QED BY <1>4, <3>3, <4>1 DEF HandleFrame, Reject, Filter, Takes, AcceptIdle,
                    AcceptBadPointer, AcceptNoStart
    <3>5. CASE Continue("finish", f, SubSeq(f.data, f.fhp + 1, Len(f.data)))
      BY <3>1, <3>5 DEF Continue, FoundStart, DataFrom
    <3>6. CASE /\ Leave(f, SubSeq(f.data, f.fhp + 1, Len(f.data)), TRUE)
               /\ Continue("last", f, <<>>)
      <4>1. pending \in [VCs -> Seq(Octet)] /\ inSync \in [VCs -> BOOLEAN]
        BY DEF HeldOK
      <4>2. pending'[f.vc] = DataFrom(f, f.fhp) /\ inSync'[f.vc] /\ pc' = "last" /\ cur' = f.vc
        BY <1>1, <3>6, <4>1 DEF Leave, Continue, DataFrom
      <4>3. QED BY <3>1, <3>3, <4>2 DEF FoundStart
    <3>7. QED BY <3>4, <3>5, <3>6 DEF AcceptPointer
  <2>6. QED BY <2>4, <2>5 DEF FoundOK
<1>5. QED BY <1>3, <1>4

\* A turn of a drain.
LEMMA FoundInDrain ==
    ASSUME SenderOK, CarriedOK, HeldOK, FoundOK, Drain, UNCHANGED <<stream, lastFrame>>
    PROVE  FoundOK'
<1>1. /\ pc \in {"finish", "last"} /\ cur \in VCs
      /\ pending \in [VCs -> Seq(Octet)] /\ inSync \in [VCs -> BOOLEAN]
  BY DEF Drain, Extract, DrainLosesSync, DrainEnds, HasHeader, HeldOK
<1>2. /\ cur' = cur
      /\ \E octets : pending' = [pending EXCEPT ![cur] = octets] \/ pending' = pending
      /\ \E sync : inSync' = [inSync EXCEPT ![cur] = sync] \/ inSync' = inSync
  BY DEF Drain, Extract, DrainLosesSync, DrainEnds
<1>3. ASSUME NEW v \in VCs, v # cur, lastFrame[v] # None, PointsAtStart(lastFrame[v])
      PROVE  FoundStart(v)'
  <2>1. pending'[v] = pending[v]
    <3>1. PICK octets : pending' = [pending EXCEPT ![cur] = octets] \/ pending' = pending
      BY <1>2
    <3>2. QED BY <1>1, <1>3, <3>1
  <2>2. inSync'[v] = inSync[v]
    <3>1. PICK sync : inSync' = [inSync EXCEPT ![cur] = sync] \/ inSync' = inSync
      BY <1>2
    <3>2. QED BY <1>1, <1>3, <3>1
  <2>3. cur' # v /\ lastFrame' = lastFrame
    BY <1>2, <1>3
  <2>4. FoundStart(v)
    BY <1>3 DEF FoundOK
  <2>5. inSync[v] /\ StartsIn(lastFrame[v], pending[v]) /\ NotWhole(pending[v])
    BY <1>3, <2>4 DEF FoundStart
  <2>6. QED BY <2>1, <2>2, <2>3, <2>5 DEF FoundStart
<1>4. ASSUME lastFrame[cur] # None, PointsAtStart(lastFrame[cur])
      PROVE  FoundStart(cur)'
  <2> DEFINE f == lastFrame[cur]
             S == stream[cur]
             q == pending[cur]
  <2>1. f \in Known /\ f.vc = cur
    BY <1>1, <1>4 DEF CarriedOK, Known
  <2>2. Carried(f) /\ Whole(S) /\ Piece(S, f.data, f.from)
    <3>1. Carried(f)
      BY <2>1 DEF CarriedOK
    <3>2. Whole(S)
      BY <1>1 DEF SenderOK
    <3>3. QED BY <2>1, <3>1, <3>2 DEF Carried
  <2>3. /\ StartsIn(f, DataFrom(f, f.fhp))
        /\ f.data \in Seq(Octet) /\ Len(f.data) \in Nat /\ f.fhp \in Nat
    BY <1>4, <2>2, PointedAt
  <2>4. FoundStart(cur) /\ lastFrame'[cur] = f /\ cur' = cur
    BY <1>1, <1>2, <1>4 DEF FoundOK
  <2>5. CASE pc = "finish"
    <3>1. rest = DataFrom(f, f.fhp)
      BY <2>4, <2>5 DEF FoundStart
    <3>2. CASE Extract \/ DrainLosesSync
      <4>1. pc' = pc /\ rest' = rest
        BY <3>2 DEF Extract, DrainLosesSync
      <4>2. QED BY <2>4, <2>5, <3>1, <4>1 DEF FoundStart
    <3>3. CASE DrainEnds
      <4>1. /\ pending' = [pending EXCEPT ![cur] = rest] /\ inSync' = [inSync EXCEPT ![cur] = TRUE]
            /\ pc' = "last"
        BY <2>5, <3>3 DEF DrainEnds
      <4>2. pending'[cur] = DataFrom(f, f.fhp) /\ inSync'[cur]
        BY <1>1, <3>1, <4>1
      <4>3. QED BY <2>3, <2>4, <4>1, <4>2 DEF FoundStart
    <3>4. QED BY <3>2, <3>3 DEF Drain
  <2>6. CASE pc = "last"
    <3>1. inSync[cur] /\ StartsIn(f, q)
      BY <2>4, <2>6 DEF FoundStart
    <3>2. PICK k \in f.fhp .. Len(f.data) : q = DataFrom(f, k) /\ (q # <<>> => q[1].at = 0)
      BY <3>1 DEF StartsIn
    <3> DEFINE d == f.data
               b == f.from
               a == b + k
    <3>3. /\ d \in Seq(Octet) /\ Piece(S, d, b) /\ k \in Nat /\ k <= Len(d) /\ Len(d) \in Nat /\ b \in Nat
          /\ q = SubSeq(d, k + 1, Len(d)) /\ (q # <<>> => q[1].at = 0) /\ Whole(S) /\ S \in Seq(Octet)
      BY <2>2, <2>3, <3>2 DEF DataFrom, Piece, Whole
    <3> HIDE DEF d, b, q, S, f
    <3>4. Piece(S, q, a) /\ Len(q) = Len(d) - k /\ a \in Nat /\ q \in Seq(Octet) /\ Len(q) \in Nat
      <4>1. Piece(S, SubSeq(d, k + 1, Len(d)), b + k) /\ Len(SubSeq(d, k + 1, Len(d))) = Len(d) - k
        <5>1. /\ S \in Seq(Octet) /\ Piece(S, d, b) /\ k \in Nat /\ Len(d) \in Nat
              /\ k <= Len(d) /\ Len(d) <= Len(d)
          BY <3>3
        <5>2. QED BY ONLY <5>1, PieceCut
      <4>2. Piece(S, q, b + k) /\ Len(q) = Len(d) - k
        BY <3>3, <4>1
      <4>3. b + k \in Nat /\ q \in Seq(Octet)
        BY <3>3, <4>2 DEF Piece
      <4>4. QED BY <4>2, <4>3
    <3>5. ASSUME HasHeader
          PROVE  LET p == q[1].pkt IN
                 /\ p.len \in Nat /\ Boundary(S, a + p.len)
                 /\ Readings(q) = {[version0 |-> TRUE, len |-> p.len, idle |-> p.idle]}
      <4>1. Len(q) >= HdrLen /\ Len(q) > 0
        BY <3>4, <3>5, FormatAssumption DEF HasHeader, q
      <4>2. q # <<>> /\ 1 \in 1 .. Len(q)
        BY <3>4, <4>1
      <4>3. q[1] = S[a + 1] /\ a + 1 <= Len(S)
        BY <3>4, <4>1, <4>2 DEF Piece
      <4>4. Boundary(S, a)
        BY <3>3, <3>4, <4>2, <4>3 DEF Boundary
      <4>5. QED BY <3>3, <3>4, <4>1, <4>4, PieceReads DEF Packet
    <3> DEFINE p == q[1].pkt
    <3>6. CASE Extract
      <4>1. PICK h \in Readings(q) : /\ Len(q) >= h.len
                                     /\ pending' = [pending EXCEPT ![cur] = SubSeq(@, h.len + 1, Len(@))]
        BY <3>6 DEF Extract, q
      <4>2. HasHeader /\ UNCHANGED <<pc, inSync>>
        BY <3>6 DEF Extract
      <4>3. h.len = p.len /\ p.len \in Nat /\ Boundary(S, a + p.len)
        BY <3>5, <4>1, <4>2
      <4> DEFINE n == p.len
                 o == SubSeq(q, n + 1, Len(q))
      <4>4. pending'[cur] = o
        BY <1>1, <4>1, <4>3 DEF q
      <4>5. n \in 0 .. Len(d) - k /\ k \in 0 .. Len(d) /\ k + n \in Nat /\ k + n <= Len(d)
        <5>1. n \in Nat /\ n <= Len(q)
          BY <4>1, <4>3
        <5>2. Len(q) = Len(d) - k /\ k \in Nat /\ k <= Len(d) /\ Len(d) \in Nat
          BY <3>3, <3>4
        <5> HIDE DEF n, p, o
        <5>3. QED BY ONLY <5>1, <5>2
      <4> HIDE DEF p
      <4>6. o = SubSeq(d, (k + n) + 1, Len(d))
        BY <3>3, <4>5, CutTwice
      <4>7. o # <<>> => o[1].at = 0
        <5> SUFFICES ASSUME o # <<>> PROVE o[1].at = 0
          OBVIOUS
        <5>1. Piece(S, SubSeq(d, (k + n) + 1, Len(d)), b + (k + n))
              /\ Len(SubSeq(d, (k + n) + 1, Len(d))) = Len(d) - (k + n)
          <6>1. /\ S \in Seq(Octet) /\ Piece(S, d, b) /\ k + n \in Nat /\ Len(d) \in Nat
                /\ k + n <= Len(d) /\ Len(d) <= Len(d)
            BY <3>3, <4>5
          <6>2. QED BY ONLY <6>1, PieceCut
        <5>2. Piece(S, o, a + n) /\ o \in Seq(Octet) /\ Len(o) \in Nat /\ a + n \in Nat
          <6>1. b + (k + n) = a + n
            <7>1. n \in Nat
              BY <4>5
            <7> HIDE DEF n
            <7>2. QED BY <3>3, <7>1
          <6>2. Piece(S, o, a + n)
            BY <4>6, <5>1, <6>1
          <6>3. a + n \in Nat
            <7>1. n \in Nat
              BY <4>5
            <7> HIDE DEF n
            <7>2. QED BY <3>4, <7>1
          <6> HIDE DEF o, n, a
          <6>4. QED BY <6>2, <6>3 DEF Piece
        <5> HIDE DEF o, n, a
        <5>3. 1 \in 1 .. Len(o)
          BY <5>2
        <5>4. o[1] = S[(a + n) + 1] /\ a + n < Len(S)
          BY <3>3, <5>2, <5>3 DEF Piece
        <5>5. Boundary(S, a + n)
          BY <4>3 DEF n
        <5>6. QED BY <5>4, <5>5 DEF Boundary
      <4> HIDE DEF n, o
      <4>8. StartsIn(f, o)
        <5>1. k + n \in f.fhp .. Len(f.data)
          <6>1. k >= f.fhp /\ f.fhp \in Nat
            BY <2>3, <3>2 DEF f
          <6>2. n \in Nat
            BY <4>3 DEF n
          <6>3. k + n >= f.fhp
            BY <3>3, <6>1, <6>2
          <6>4. QED BY <3>3, <4>5, <6>1, <6>3 DEF d
        <5>2. o = DataFrom(f, k + n)
          BY <4>6 DEF DataFrom, d
        <5>3. QED BY <4>7, <5>1, <5>2 DEF StartsIn
      <4>9. QED BY <2>4, <2>6, <3>1, <4>2, <4>4, <4>8 DEF FoundStart, f
    <3>7. CASE DrainLosesSync
      <4>1. HasHeader /\ \E h \in Readings(q) : ~h.version0
        BY <3>7 DEF DrainLosesSync, q
      <4>2. QED BY <3>5, <4>1
    <3>8. CASE DrainEnds
      <4>1. /\ HasHeader => \E h \in Readings(q) : Len(q) < h.len
            /\ pc' = "ready" /\ UNCHANGED <<pending, inSync>>
        BY <2>6, <3>8 DEF DrainEnds, q
      <4>2. NotWhole(q)
        <5> SUFFICES ASSUME Len(q) >= HdrLen PROVE Len(q) < q[1].pkt.len
          BY DEF NotWhole
        <5>1. HasHeader
          BY <2>6 DEF HasHeader, q
        <5>2. QED BY <3>5, <4>1, <5>1
      <4>3. QED BY <2>4, <3>1, <4>1, <4>2 DEF FoundStart, q, f
    <3>9. QED BY <3>6, <3>7, <3>8 DEF Drain
  <2>7. QED BY <1>1, <2>5, <2>6
<1>5. lastFrame' = lastFrame
  OBVIOUS
<1>6. ASSUME NEW v \in VCs, lastFrame[v] # None, PointsAtStart(lastFrame[v])
      PROVE  FoundStart(v)'
  <2>1. CASE v = cur
    <3>1. lastFrame[cur] # None /\ PointsAtStart(lastFrame[cur])
      BY <1>6, <2>1
    <3>2. QED BY <1>2, <1>4, <2>1, <3>1 DEF FoundStart
  <2>2. CASE v # cur
    BY <1>3, <1>6, <2>2
  <2>3. QED BY <2>1, <2>2
<1>7. ASSUME NEW v \in VCs, lastFrame'[v] # None, PointsAtStart(lastFrame'[v])
      PROVE  FoundStart(v)'
  BY <1>5, <1>6, <1>7
<1>8. QED BY <1>7 DEF FoundOK

LEMMA FoundStep == AnyLinkOK /\ FoundOK /\ [Next]_vars => FoundOK'
<1> SUFFICES ASSUME AnyLinkOK, FoundOK, [Next]_vars PROVE FoundOK'
  OBVIOUS
<1>1. CountingOK /\ SendingOK /\ SenderOK /\ CarriedOK /\ HeldOK
  BY DEF AnyLinkOK, SendingOK
<1>2. CASE UNCHANGED <<deframer, lastFrame>>
  <2>1. UNCHANGED <<pc, cur, rest, pending, inSync, lastFrame>>
    BY <1>2 DEF deframer
  <2>2. QED BY <2>1 DEF FoundOK, FoundStart
<1>3. CASE Lagged
  BY <1>3 DEF Lagged, FoundOK
<1>4. CASE Receive
  <2>1. PICK i \in 1 .. Len(channel) : HandleFrame(channel[i]) /\ Note(channel[i])
    BY <1>4 DEF Receive
  <2>2. PICK f : f = channel[i]
    OBVIOUS
  <2>3. f \in ToSet(channel) /\ f \in Frame
    BY <1>1, <2>2 DEF CarriedOK, ToSet
  <2>4. f \in Known
    BY <2>3, FrameNotNone DEF Known
  <2>5. Carried(f)
    BY <1>1, <2>4 DEF CarriedOK
  <2>6. QED BY <1>1, <2>1, <2>2, <2>5, FoundAtFrame
<1>5. CASE DrainPackets
  BY <1>1, <1>5, FoundInDrain DEF DrainPackets, framer, link
<1>6. QED BY <1>2, <1>3, <1>4, <1>5
          DEF Next, vars, link, PackPacket, FlushChannel, SendFrame, SendIdle, Lose, Damage, Mispoint,
              Duplicate, Stray

\* A wrong pointer, which nothing protects, costs no more than what is pending: one
\* frame whose pointer is right puts the deframer back on a packet's first octet,
\* whatever it held (frames.rs, TmDeframer::accept and drain_packets).
THEOREM PointerResyncs == Spec => []GarbageEndsAtPointer
<1>1. Init => AnyLinkOK /\ FoundOK
  BY AnyLinkInit DEF Init, FoundOK
<1>2. (AnyLinkOK /\ FoundOK) /\ [Next]_vars => (AnyLinkOK /\ FoundOK)'
  BY AnyLinkStep, FoundStep
<1>3. FoundOK => GarbageEndsAtPointer
  <2> SUFFICES ASSUME FoundOK, pc = "ready", NEW v \in VCs, lastFrame[v] # None,
                      PointsAtStart(lastFrame[v])
               PROVE  LET f == lastFrame[v] IN
                      /\ inSync[v]
                      /\ \E k \in f.fhp .. Len(f.data) : pending[v] = SubSeq(f.data, k + 1, Len(f.data))
                      /\ pending[v] # <<>> =>
                           /\ pending[v][1].at = 0
                           /\ Len(pending[v]) >= HdrLen => Len(pending[v]) < pending[v][1].pkt.len
    BY DEF GarbageEndsAtPointer, PointsAtStart
  <2>1. FoundStart(v)
    BY DEF FoundOK
  <2>2. inSync[v] /\ StartsIn(lastFrame[v], pending[v]) /\ NotWhole(pending[v])
    BY <2>1 DEF FoundStart
  <2>3. QED BY <2>2 DEF StartsIn, DataFrom, NotWhole
<1>4. QED BY <1>1, <1>2, <1>3, PTL DEF Spec
=============================================================================

------------------------ MODULE SyncAndHealthProofs -------------------------
(* Two components that share nothing but this module.                          *)
(* AsmSync: the search for the marker misses no undamaged frame, and does not  *)
(* depend on how the bytes were cut, for any marker, frame length and number   *)
(* of frames.                                                                  *)
(* Health: a status report can be relied on whatever is counted between its    *)
(* loads, for counters and thresholds of any size.                             *)
EXTENDS AsmSync, Health, SequenceTheorems, WellFoundedInduction, TLAPS

-----------------------------------------------------------------------------
(* The inductive invariant. *)

AsmLen == Len(Marker)
Passed == Len(seen) - Len(stream)

Typed ==
    /\ wire \in Seq(Byte) /\ seen \in Seq(Byte) /\ stream \in Seq(Byte)
    /\ frames \in 0 .. MaxFrames
    /\ handled \in Seq(0 .. MaxFrames) /\ discarded \in Nat
    /\ before.handled \in Seq(0 .. MaxFrames) /\ before.discarded \in Nat
    /\ pc \in {"ready", "scan"}

\* What is searched is the end of what was pushed.
StreamOK ==
    /\ Len(stream) <= Len(seen)
    /\ \A i \in 1 .. Len(stream) : stream[i] = seen[Passed + i]

\* Bytes of frames stay in the order they were sent in.
Earlier(x, y) ==
    x.at > 0 /\ y.at > 0 => x.frame < y.frame \/ (x.frame = y.frame /\ x.at < y.at)
InOrder(s) == \A i, j \in 1 .. Len(s) : i < j => Earlier(s[i], s[j])

OrderOK ==
    /\ InOrder(stream) /\ InOrder(wire)
    /\ \A i \in 1 .. Len(stream) : \A j \in 1 .. Len(wire) : Earlier(stream[i], wire[j])

\* What is still to be searched belongs to frames sent after those handled.
Newer(x) == x.at > 0 => x.frame <= frames /\ \A k \in 1 .. Len(handled) : handled[k] < x.frame

AheadOK ==
    /\ \A i \in 1 .. Len(stream) : Newer(stream[i])
    /\ \A i \in 1 .. Len(wire) : Newer(wire[i])
    /\ \A k \in 1 .. Len(handled) : handled[k] <= frames
    /\ \A j, k \in 1 .. Len(handled) : j < k => handled[j] < handled[k]

\* Where the search has passed there is no marker, a byte of a frame, or the
\* start of one that was handled; whatever is pushed later.
Cleared(s, h, i) ==
    \/ i + AsmLen <= Len(s) /\ ~IsMarker(s, i)
    \/ \E k \in 1 .. AsmLen : i + k <= Len(s) /\ s[i + k].at # 0
    \/ /\ i + AsmLen + FrameLen <= Len(s)
       /\ \A n \in 0 .. MaxFrames : Whole(s, n, i) => n \in ToSet(h)

PassedOK == \A i \in 0 .. Passed - 1 : Cleared(seen, handled, i)

FoundInv == Typed /\ StreamOK /\ OrderOK /\ AheadOK /\ PassedOK

\* What a search of all from where this one stands would add.
Rest == Searches(seen)[Passed]
ScanOK ==
    pc = "scan" =>
        /\ handled \o Rest.handled = before.handled \o InOneGo.handled
        /\ discarded + Rest.discarded = before.discarded + InOneGo.discarded
        /\ Rest.stream = InOneGo.stream

CutInv == ScanOK /\ CutsInvisible

-----------------------------------------------------------------------------
(* Sequences of bytes. *)

LEMMA LeastNumber ==
    ASSUME NEW S \in SUBSET Nat, S # {}
    PROVE  \E n \in S : \A k \in S : n <= k
<1> DEFINE R == OpToRel(<, Nat)
<1>1. IsWellFoundedOn(R, Nat)
  BY NatLessThanWellFounded
<1>2. \A x, y \in Nat : x < y => <<x, y>> \in R
  BY DEF OpToRel
<1> HIDE DEF R
<1>3. PICK n \in S : \A k \in S : <<k, n>> \notin R
  BY <1>1, WFMin
<1>4. \A k \in S : ~(k < n)
  BY <1>2, <1>3
<1>5. QED BY <1>4

LEMMA FramesInThree ==
    \A x, y, z \in Seq(0 .. MaxFrames) : (x \o y) \o z = x \o (y \o z)
<1> DEFINE S == 0 .. MaxFrames
<1> HIDE DEF S
<1>1. \A x, y, z \in Seq(S) : (x \o y) \o z = x \o (y \o z)
  <2> SUFFICES ASSUME NEW x \in Seq(S), NEW y \in Seq(S), NEW z \in Seq(S)
               PROVE  (x \o y) \o z = x \o (y \o z)
    OBVIOUS
  <2>1. QED BY ConcatAssociative
<1>2. QED BY <1>1 DEF S

LEMMA MarkerLength == AsmLen \in Nat \ {0} /\ FrameLen \in Nat \ {0}
BY AsmAssumption, EmptySeq DEF AsmLen

LEMMA DropIs ==
    ASSUME NEW S, NEW s \in Seq(S), NEW n \in 0 .. Len(s)
    PROVE  /\ Drop(s, n) \in Seq(S) /\ Len(Drop(s, n)) = Len(s) - n
           /\ \A i \in 1 .. Len(s) - n : Drop(s, n)[i] = s[n + i]
<1>1. Len(s) \in Nat /\ \A i \in n + 1 .. Len(s) : s[i] \in S
  BY LenProperties
<1>2. /\ SubSeq(s, n + 1, Len(s)) \in Seq(S)
      /\ Len(SubSeq(s, n + 1, Len(s))) = IF n + 1 <= Len(s) THEN Len(s) - (n + 1) + 1 ELSE 0
      /\ \A i \in 1 .. Len(s) - (n + 1) + 1 : SubSeq(s, n + 1, Len(s))[i] = s[n + 1 + i - 1]
  <2>1. n + 1 \in Int /\ Len(s) \in Int
    BY <1>1
  <2>2. QED BY <1>1, <2>1, SubSeqProperties
<1>3. QED BY <1>1, <1>2 DEF Drop

LEMMA FrontIs ==
    ASSUME NEW S, NEW s \in Seq(S), NEW n \in 0 .. Len(s)
    PROVE  /\ SubSeq(s, 1, n) \in Seq(S) /\ Len(SubSeq(s, 1, n)) = n
           /\ \A i \in 1 .. n : SubSeq(s, 1, n)[i] = s[i]
<1>1. Len(s) \in Nat /\ \A i \in 1 .. n : s[i] \in S
  BY LenProperties
<1>2. /\ SubSeq(s, 1, n) \in Seq(S)
      /\ Len(SubSeq(s, 1, n)) = IF 1 <= n THEN n - 1 + 1 ELSE 0
      /\ \A i \in 1 .. n - 1 + 1 : SubSeq(s, 1, n)[i] = s[1 + i - 1]
  <2>1. 1 \in Int /\ n \in Int
    BY <1>1
  <2>2. QED BY <1>1, <2>1, SubSeqProperties
<1>3. QED BY <1>1, <1>2

\* What is dropped in two pieces is dropped in one.
LEMMA DropTwice ==
    ASSUME NEW S, NEW s \in Seq(S), NEW n \in 0 .. Len(s), NEW k \in 0 .. Len(s) - n
    PROVE  Drop(Drop(s, n), k) = Drop(s, n + k)
<1>1. Len(s) \in Nat
  BY LenProperties
<1>2. /\ Drop(s, n) \in Seq(S) /\ Len(Drop(s, n)) = Len(s) - n
      /\ \A i \in 1 .. Len(s) - n : Drop(s, n)[i] = s[n + i]
  BY DropIs
<1>3. /\ Drop(Drop(s, n), k) \in Seq(S) /\ Len(Drop(Drop(s, n), k)) = Len(s) - n - k
      /\ \A i \in 1 .. Len(s) - n - k : Drop(Drop(s, n), k)[i] = Drop(s, n)[k + i]
  BY <1>2, DropIs
<1>4. n + k \in 0 .. Len(s)
  BY <1>1
<1>5. /\ Drop(s, n + k) \in Seq(S) /\ Len(Drop(s, n + k)) = Len(s) - (n + k)
      /\ \A i \in 1 .. Len(s) - (n + k) : Drop(s, n + k)[i] = s[n + k + i]
  BY <1>4, DropIs
<1>6. \A i \in 1 .. Len(s) - n - k : Drop(Drop(s, n), k)[i] = Drop(s, n + k)[i]
  <2> SUFFICES ASSUME NEW i \in 1 .. Len(s) - n - k
               PROVE  Drop(Drop(s, n), k)[i] = Drop(s, n + k)[i]
    OBVIOUS
  <2>1. k + i \in 1 .. Len(s) - n /\ n + (k + i) = n + k + i
    BY <1>1
  <2>2. QED BY <1>1, <1>2, <1>3, <1>5, <2>1
<1>7. QED BY <1>1, <1>3, <1>5, <1>6, SeqEqual

LEMMA FirstIsFirst ==
    ASSUME NEW s \in Seq(Byte), Found(s) # {}
    PROVE  /\ First(s) \in Nat /\ First(s) + AsmLen <= Len(s) /\ IsMarker(s, First(s))
           /\ \A i \in Nat : i < First(s) => ~IsMarker(s, i)
<1>1. Len(s) \in Nat /\ AsmLen \in Nat
  BY LenProperties, MarkerLength
<1>2. Found(s) \in SUBSET Nat
  BY <1>1 DEF Found, AsmLen
<1>3. \E n \in Found(s) : \A k \in Found(s) : n <= k
  BY <1>2, LeastNumber
<1>4. First(s) \in Found(s) /\ \A k \in Found(s) : First(s) <= k
  BY <1>3 DEF First
<1>5. /\ First(s) \in Nat /\ First(s) + AsmLen <= Len(s) /\ IsMarker(s, First(s))
  BY <1>1, <1>4 DEF Found, AsmLen
<1>6. ASSUME NEW i \in Nat, i < First(s) PROVE ~IsMarker(s, i)
  <2>1. i \in 0 .. Len(s) - AsmLen /\ Len(s) >= AsmLen
    BY <1>1, <1>5, <1>6
  <2>2. i \notin Found(s)
    BY <1>4, <1>5, <1>6
  <2>3. QED BY <2>1, <2>2 DEF Found, AsmLen
<1>7. QED BY <1>5, <1>6

LEMMA NoneFound ==
    ASSUME NEW s \in Seq(Byte), Found(s) = {}
    PROVE  \A i \in Nat : i + AsmLen <= Len(s) => ~IsMarker(s, i)
<1>1. Len(s) \in Nat /\ AsmLen \in Nat
  BY LenProperties, MarkerLength
<1> SUFFICES ASSUME NEW i \in Nat, i + AsmLen <= Len(s) PROVE ~IsMarker(s, i)
  OBVIOUS
<1>2. i \in 0 .. Len(s) - AsmLen /\ Len(s) >= AsmLen
  BY <1>1
<1>3. QED BY <1>2 DEF Found, AsmLen

LEMMA TailKeptIs ==
    ASSUME NEW s \in Seq(Byte)
    PROVE  \E d \in 0 .. Len(s) : /\ TailKept(s) = Drop(s, d)
                                  /\ d = IF Len(s) > AsmLen - 1 THEN Len(s) - (AsmLen - 1) ELSE 0
<1>1. Len(s) \in Nat /\ AsmLen \in Nat \ {0}
  BY LenProperties, MarkerLength
<1>2. QED BY <1>1 DEF TailKept, AsmLen

-----------------------------------------------------------------------------
(* What the search has passed stays cleared. *)

LEMMA PassedIs ==
    ASSUME Typed, StreamOK
    PROVE  /\ Len(seen) \in Nat /\ Len(stream) \in Nat
           /\ Passed \in Nat /\ Passed + Len(stream) = Len(seen)
           /\ stream = Drop(seen, Passed)
<1>1. Len(seen) \in Nat /\ Len(stream) \in Nat
  BY LenProperties DEF Typed
<1>2. Passed \in 0 .. Len(seen) /\ Passed + Len(stream) = Len(seen)
  BY <1>1 DEF StreamOK, Passed
<1>3. /\ Drop(seen, Passed) \in Seq(Byte) /\ Len(Drop(seen, Passed)) = Len(seen) - Passed
      /\ \A i \in 1 .. Len(seen) - Passed : Drop(seen, Passed)[i] = seen[Passed + i]
  BY <1>2, DropIs DEF Typed
<1>4. stream \in Seq(Byte) /\ \A i \in 1 .. Len(stream) : stream[i] = Drop(seen, Passed)[i]
  <2>1. Len(seen) - Passed = Len(stream)
    BY <1>1, <1>2
  <2>2. QED BY <1>3, <2>1 DEF Typed, StreamOK
<1>5. Len(stream) = Len(Drop(seen, Passed))
  BY <1>1, <1>2, <1>3
<1>6. stream = Drop(seen, Passed)
  BY <1>3, <1>4, <1>5, SeqEqual
<1>7. QED BY <1>1, <1>2, <1>6

LEMMA MarkerInSeen ==
    ASSUME Typed, StreamOK, NEW i \in Nat, i + AsmLen <= Len(stream)
    PROVE  IsMarker(stream, i) <=> IsMarker(seen, Passed + i)
<1>1. Len(seen) \in Nat /\ Len(stream) \in Nat /\ Passed \in Nat
  BY PassedIs
<1>2. \A k \in 1 .. Len(Marker) : stream[i + k] = seen[Passed + i + k]
  <2> SUFFICES ASSUME NEW k \in 1 .. Len(Marker) PROVE stream[i + k] = seen[Passed + i + k]
    OBVIOUS
  <2>1. AsmLen \in Nat /\ k \in 1 .. AsmLen
    BY MarkerLength DEF AsmLen
  <2>2. i + k \in 1 .. Len(stream)
    BY <1>1, <2>1
  <2>3. stream[i + k] = seen[Passed + (i + k)]
    BY <2>2 DEF StreamOK
  <2>4. Passed + (i + k) = Passed + i + k
    BY <1>1, <2>1
  <2>5. QED BY <2>3, <2>4
<1>3. QED BY <1>2 DEF IsMarker

SeenGrows ==
    /\ Len(seen) <= Len(seen')
    /\ \A i \in 1 .. Len(seen) : seen'[i] = seen[i]

LEMMA ClearedStays ==
    ASSUME Typed, Typed', SeenGrows, ToSet(handled) \subseteq ToSet(handled'),
           NEW i \in Nat, Cleared(seen, handled, i)
    PROVE  Cleared(seen', handled', i)
<1>1. Len(seen) \in Nat /\ Len(seen') \in Nat /\ AsmLen \in Nat /\ FrameLen \in Nat
  BY LenProperties, MarkerLength DEF Typed
<1>2. \A k \in Nat \ {0} : i + k <= Len(seen) => seen'[i + k] = seen[i + k]
  <2> SUFFICES ASSUME NEW k \in Nat \ {0}, i + k <= Len(seen) PROVE seen'[i + k] = seen[i + k]
    OBVIOUS
  <2>1. i + k \in 1 .. Len(seen)
    BY <1>1
  <2>2. QED BY <2>1 DEF SeenGrows
<1>3. CASE i + AsmLen <= Len(seen) /\ ~IsMarker(seen, i)
  <2>1. PICK k \in 1 .. Len(Marker) : seen[i + k].val # Marker[k]
    BY <1>3 DEF IsMarker
  <2>2. k \in Nat \ {0} /\ i + k <= Len(seen)
    BY <1>1, <1>3 DEF AsmLen
  <2>3. ~IsMarker(seen', i)
    BY <1>2, <2>1, <2>2 DEF IsMarker
  <2>4. i + AsmLen <= Len(seen')
    BY <1>1, <1>3 DEF SeenGrows
  <2>5. QED BY <2>3, <2>4 DEF Cleared, IsMarker
<1>4. CASE \E k \in 1 .. AsmLen : i + k <= Len(seen) /\ seen[i + k].at # 0
  <2>1. PICK k \in 1 .. AsmLen : i + k <= Len(seen) /\ seen[i + k].at # 0
    BY <1>4
  <2>2. seen'[i + k] = seen[i + k] /\ i + k <= Len(seen')
    BY <1>1, <1>2, <2>1 DEF SeenGrows
  <2>3. QED BY <2>1, <2>2 DEF Cleared
<1>5. CASE /\ i + AsmLen + FrameLen <= Len(seen)
           /\ \A n \in 0 .. MaxFrames : Whole(seen, n, i) => n \in ToSet(handled)
  <2>1. ASSUME NEW n \in 0 .. MaxFrames, Whole(seen', n, i) PROVE n \in ToSet(handled')
    <3>1. \A k \in 1 .. Len(Marker) : seen'[i + k] = seen[i + k]
      <4> SUFFICES ASSUME NEW k \in 1 .. Len(Marker) PROVE seen'[i + k] = seen[i + k]
        OBVIOUS
      <4>1. k \in Nat \ {0} /\ i + k <= Len(seen)
        BY <1>1, <1>5 DEF AsmLen
      <4>2. QED BY <1>2, <4>1
    <3>2. \A k \in 1 .. FrameLen :
            seen'[i + Len(Marker) + k] = seen[i + Len(Marker) + k]
      <4> SUFFICES ASSUME NEW k \in 1 .. FrameLen
                   PROVE  seen'[i + Len(Marker) + k] = seen[i + Len(Marker) + k]
        OBVIOUS
      <4>1. /\ AsmLen + k \in Nat \ {0} /\ i + (AsmLen + k) <= Len(seen)
            /\ i + (AsmLen + k) = i + AsmLen + k
        BY <1>1, <1>5
      <4>2. QED BY <1>2, <4>1 DEF AsmLen
    <3>3. IsMarker(seen, i)
      BY <2>1, <3>1 DEF Whole, IsMarker
    <3>4. Whole(seen, n, i)
      BY <1>5, <2>1, <3>1, <3>2, <3>3 DEF Whole, AsmLen
    <3>5. QED BY <1>5, <3>4
  <2>2. i + AsmLen + FrameLen <= Len(seen')
    BY <1>1, <1>5 DEF SeenGrows
  <2>3. QED BY <2>1, <2>2 DEF Cleared
<1>6. QED BY <1>3, <1>4, <1>5 DEF Cleared

\* The search goes forward in what was pushed.
LEMMA AdvanceKeeps ==
    ASSUME Typed, StreamOK, OrderOK, NEW d \in 0 .. Len(stream),
           stream' = Drop(stream, d), seen' = seen, wire' = wire
    PROVE  /\ stream' \in Seq(Byte) /\ Len(stream') = Len(stream) - d
           /\ \A i \in 1 .. Len(stream) - d : stream'[i] = stream[d + i]
           /\ Passed' = Passed + d /\ StreamOK' /\ OrderOK'
<1>1. Len(seen) \in Nat /\ Len(stream) \in Nat /\ Passed \in Nat
  BY PassedIs
<1>2. /\ stream' \in Seq(Byte) /\ Len(stream') = Len(stream) - d
      /\ \A i \in 1 .. Len(stream) - d : stream'[i] = stream[d + i]
  BY DropIs DEF Typed
<1>3. Passed' = Passed + d
  BY <1>1, <1>2 DEF Passed
<1>4. \A i \in 1 .. Len(stream') : d + i \in 1 .. Len(stream) /\ stream'[i] = stream[d + i]
  BY <1>1, <1>2
<1>5. StreamOK'
  <2>1. ASSUME NEW i \in 1 .. Len(stream') PROVE stream'[i] = seen[Passed + d + i]
    <3>1. stream'[i] = seen[Passed + (d + i)]
      BY <1>4 DEF StreamOK
    <3>2. Passed + (d + i) = Passed + d + i
      BY <1>1, <1>2
    <3>3. QED BY <3>1, <3>2
  <2>2. Len(stream') <= Len(seen')
    BY <1>1, <1>2 DEF StreamOK
  <2>3. QED BY <1>3, <2>1, <2>2 DEF StreamOK
<1>6. OrderOK'
  <2>1. ASSUME NEW i \in 1 .. Len(stream'), NEW j \in 1 .. Len(stream'), i < j
        PROVE  Earlier(stream'[i], stream'[j])
    <3>1. d + i < d + j
      BY <1>1, <1>2, <2>1
    <3>2. QED BY <1>4, <3>1 DEF OrderOK, InOrder
  <2>2. \A i \in 1 .. Len(stream') : \A j \in 1 .. Len(wire) : Earlier(stream'[i], wire[j])
    BY <1>4 DEF OrderOK
  <2>3. InOrder(stream')
    BY <2>1 DEF InOrder
  <2>4. QED BY <2>2, <2>3 DEF OrderOK, InOrder, Earlier
<1>7. QED BY <1>2, <1>3, <1>5, <1>6

LEMMA PassedKeeps ==
    ASSUME Typed, Typed', StreamOK, PassedOK, NEW d \in Nat, Passed' = Passed + d,
           SeenGrows, ToSet(handled) \subseteq ToSet(handled'),
           \A j \in 0 .. d - 1 : Cleared(seen', handled', Passed + j)
    PROVE  PassedOK'
<1>1. Passed \in Nat
  BY PassedIs
<1>2. ASSUME NEW i \in 0 .. Passed + d - 1 PROVE Cleared(seen', handled', i)
  <2>1. CASE i < Passed
    <3>1. Cleared(seen, handled, i)
      BY <1>1, <2>1 DEF PassedOK
    <3>2. i \in Nat
      BY <1>1
    <3>3. QED BY <3>1, <3>2, ClearedStays
  <2>2. CASE i >= Passed
    <3>1. i - Passed \in 0 .. d - 1 /\ i = Passed + (i - Passed)
      BY <1>1, <2>2
    <3>2. PICK j \in 0 .. d - 1 : i = Passed + j
      BY <3>1
    <3>3. QED BY <3>2
  <2>3. QED BY <1>1, <2>1, <2>2
<1>3. \A i \in 0 .. Passed' - 1 : Cleared(seen', handled', i)
  <2>1. Passed' - 1 = Passed + d - 1
    BY <1>1
  <2>2. \A i \in 0 .. Passed + d - 1 : Cleared(seen', handled', i)
    BY <1>2
  <2>3. QED BY <2>1, <2>2
<1>4. QED BY <1>3 DEF PassedOK

LEMMA CandidateIs ==
    ASSUME NEW s \in Seq(Byte), Found(s) # {}, Enough(s)
    PROVE  /\ First(s) + AsmLen + FrameLen \in 0 .. Len(s)
           /\ \A i \in 1 .. FrameLen : /\ First(s) + AsmLen + i \in 1 .. Len(s)
                                       /\ Candidate(s)[i] = s[First(s) + AsmLen + i]
<1>1. Len(s) \in Nat /\ AsmLen \in Nat \ {0} /\ FrameLen \in Nat \ {0} /\ First(s) \in Nat
  BY LenProperties, MarkerLength, FirstIsFirst
<1>2. First(s) + AsmLen + FrameLen <= Len(s)
  BY DEF Enough, AsmLen
<1> DEFINE n == First(s) + AsmLen
<1>3. n \in 0 .. Len(s) /\ FrameLen \in 0 .. Len(s) - n
  BY <1>1, <1>2
<1>4. /\ Drop(s, n) \in Seq(Byte) /\ Len(Drop(s, n)) = Len(s) - n
      /\ \A i \in 1 .. Len(s) - n : Drop(s, n)[i] = s[n + i]
  BY <1>3, DropIs
<1>5. \A i \in 1 .. FrameLen : SubSeq(Drop(s, n), 1, FrameLen)[i] = Drop(s, n)[i]
  BY <1>3, <1>4, FrontIs
<1>6. Candidate(s) = SubSeq(Drop(s, n), 1, FrameLen)
  BY DEF Candidate, AsmLen
<1>7. ASSUME NEW i \in 1 .. FrameLen
      PROVE  n + i \in 1 .. Len(s) /\ Candidate(s)[i] = s[n + i]
  <2>1. i \in 1 .. Len(s) - n /\ n + i \in 1 .. Len(s)
    BY <1>1, <1>3
  <2>2. QED BY <1>4, <1>5, <1>6, <2>1
<1>8. QED BY <1>1, <1>2, <1>7

LEMMA FoundInit == SyncInit => FoundInv
<1> SUFFICES ASSUME SyncInit PROVE FoundInv
  OBVIOUS
<1>1. Typed
  BY AsmAssumption, EmptySeq DEF SyncInit, Typed
<1>2. Len(seen) = 0 /\ Len(stream) = 0 /\ Len(wire) = 0 /\ Len(handled) = 0 /\ Passed = 0
  BY DEF SyncInit, Passed
<1>3. StreamOK /\ OrderOK /\ AheadOK /\ PassedOK
  BY <1>2 DEF StreamOK, OrderOK, InOrder, AheadOK, PassedOK
<1>4. QED BY <1>1, <1>3 DEF FoundInv

\* What waits on the wire may lose bytes, and those that stay may be damaged.
LEMMA WireKeeps ==
    ASSUME FoundInv, wire' \in Seq(Byte), UNCHANGED <<stream, handled, frames>>,
           NEW r \in [1 .. Len(wire') -> 1 .. Len(wire)],
           \A j, k \in 1 .. Len(wire') : j < k => r[j] < r[k],
           \A j \in 1 .. Len(wire') : wire'[j].at = 0 \/ wire'[j] = wire[r[j]]
    PROVE  OrderOK' /\ AheadOK'
<1>1. Len(wire') \in Nat
  BY LenProperties
<1>2. ASSUME NEW j \in 1 .. Len(wire'), NEW k \in 1 .. Len(wire'), j < k
      PROVE  Earlier(wire'[j], wire'[k])
  <2>1. r[j] < r[k] /\ r[j] \in 1 .. Len(wire) /\ r[k] \in 1 .. Len(wire)
    BY <1>2
  <2>2. Earlier(wire[r[j]], wire[r[k]])
    BY <2>1 DEF FoundInv, OrderOK, InOrder
  <2>3. QED BY <2>2, <1>2 DEF Earlier
<1>3. ASSUME NEW i \in 1 .. Len(stream), NEW j \in 1 .. Len(wire')
      PROVE  Earlier(stream[i], wire'[j])
  <2>1. Earlier(stream[i], wire[r[j]])
    BY DEF FoundInv, OrderOK
  <2>2. QED BY <2>1 DEF Earlier
<1>4. OrderOK'
  <2>1. InOrder(wire')
    BY <1>2 DEF InOrder
  <2>2. QED BY <1>3, <2>1 DEF FoundInv, OrderOK, InOrder, Earlier
<1>5. ASSUME NEW j \in 1 .. Len(wire'), wire'[j].at > 0
      PROVE  wire'[j].frame <= frames /\ \A k \in 1 .. Len(handled) : handled[k] < wire'[j].frame
  <2>1. wire'[j] = wire[r[j]] /\ r[j] \in 1 .. Len(wire)
    BY <1>5
  <2>2. QED BY <1>5, <2>1 DEF FoundInv, AheadOK, Newer
<1>6. AheadOK'
  BY <1>5 DEF FoundInv, AheadOK, Newer
<1>7. QED BY <1>4, <1>6

LEMMA NoiseIsAByte == \A v \in Values : Noise(v) \in Byte /\ Noise(v).at = 0
BY AsmAssumption DEF Noise, Byte

\* What is sent goes behind what waits: bytes of no frame, or of the newest.
LEMMA WireGrows ==
    ASSUME FoundInv, UNCHANGED <<seen, stream, handled, discarded, before, pc>>,
           frames' \in 0 .. MaxFrames, frames <= frames',
           NEW w \in Seq(Byte), wire' = wire \o w, InOrder(w),
           \A i \in 1 .. Len(w) : w[i].at > 0 => w[i].frame = frames' /\ frames < frames'
    PROVE  FoundInv'
<1>1. /\ wire \in Seq(Byte) /\ stream \in Seq(Byte) /\ handled \in Seq(0 .. MaxFrames)
      /\ Len(wire) \in Nat /\ Len(w) \in Nat /\ frames \in 0 .. MaxFrames /\ MaxFrames \in Nat
  BY AsmAssumption DEF FoundInv, Typed
<1>2. /\ wire' \in Seq(Byte) /\ Len(wire') = Len(wire) + Len(w)
      /\ \A i \in 1 .. Len(wire') :
            wire'[i] = IF i <= Len(wire) THEN wire[i] ELSE w[i - Len(wire)]
  BY <1>1, ConcatProperties
\* A byte on the wire was on it, or is one of w.
<1>3. ASSUME NEW i \in 1 .. Len(wire')
      PROVE  \/ i \in 1 .. Len(wire) /\ wire'[i] = wire[i]
             \/ \E k \in 1 .. Len(w) : i = Len(wire) + k /\ wire'[i] = w[k]
  <2>1. CASE i <= Len(wire)
    BY <1>1, <1>2, <2>1
  <2>2. CASE ~(i <= Len(wire))
    <3>1. /\ i - Len(wire) \in 1 .. Len(w) /\ i = Len(wire) + (i - Len(wire))
          /\ wire'[i] = w[i - Len(wire)]
      BY <1>1, <1>2, <2>2
    <3>2. QED BY <3>1
  <2>3. QED BY <2>1, <2>2
\* What was sent before belongs to frames that were.
<1>4. ASSUME NEW x \in Byte, x.at > 0 => x.frame <= frames, NEW k \in 1 .. Len(w)
      PROVE  Earlier(x, w[k])
  <2>1. x.frame \in Nat /\ frames \in Nat /\ frames' \in Nat
    BY <1>1 DEF Byte
  <2>2. w[k].at > 0 => w[k].frame = frames' /\ frames < frames'
    OBVIOUS
  <2>3. x.at > 0 /\ w[k].at > 0 => x.frame < w[k].frame
    BY <1>4, <2>1, <2>2
  <2>4. QED BY <2>3 DEF Earlier
<1>5. \A i \in 1 .. Len(wire) : wire[i] \in Byte /\ (wire[i].at > 0 => wire[i].frame <= frames)
  BY <1>1, ElementOfSeq DEF FoundInv, AheadOK, Newer
<1>6. \A i \in 1 .. Len(stream) :
         stream[i] \in Byte /\ (stream[i].at > 0 => stream[i].frame <= frames)
  BY <1>1, ElementOfSeq DEF FoundInv, AheadOK, Newer
<1>7. Typed' /\ StreamOK' /\ PassedOK'
  BY <1>2 DEF FoundInv, Typed, StreamOK, PassedOK, Passed
<1>8. OrderOK'
  <2>1. ASSUME NEW i \in 1 .. Len(wire'), NEW j \in 1 .. Len(wire'), i < j
        PROVE  Earlier(wire'[i], wire'[j])
    <3>1. CASE j \in 1 .. Len(wire) /\ wire'[j] = wire[j]
      <4>1. i \in 1 .. Len(wire) /\ wire'[i] = wire[i]
        BY <1>1, <1>2, <2>1, <3>1
      <4>2. QED BY <2>1, <3>1, <4>1 DEF FoundInv, OrderOK, InOrder
    <3>2. ASSUME NEW k \in 1 .. Len(w), j = Len(wire) + k, wire'[j] = w[k]
          PROVE  Earlier(wire'[i], wire'[j])
      <4>1. CASE i \in 1 .. Len(wire) /\ wire'[i] = wire[i]
        BY <1>4, <1>5, <3>2, <4>1
      <4>2. ASSUME NEW m \in 1 .. Len(w), i = Len(wire) + m, wire'[i] = w[m]
            PROVE  Earlier(wire'[i], wire'[j])
        <5>1. m < k
          BY <1>1, <2>1, <3>2, <4>2
        <5>2. QED BY <3>2, <4>2, <5>1 DEF InOrder
      <4>3. QED BY <1>3, <4>1, <4>2
    <3>3. QED BY <1>3, <3>1, <3>2
  <2>2. ASSUME NEW i \in 1 .. Len(stream), NEW j \in 1 .. Len(wire')
        PROVE  Earlier(stream[i], wire'[j])
    <3>1. CASE j \in 1 .. Len(wire) /\ wire'[j] = wire[j]
      BY <3>1 DEF FoundInv, OrderOK
    <3>2. ASSUME NEW k \in 1 .. Len(w), wire'[j] = w[k]
          PROVE  Earlier(stream[i], wire'[j])
      BY <1>4, <1>6, <3>2
    <3>3. QED BY <1>3, <3>1, <3>2
  <2>3. InOrder(wire')
    BY <2>1 DEF InOrder
  <2>4. InOrder(stream')
    <3>1. InOrder(stream) /\ stream' = stream
      BY DEF FoundInv, OrderOK
    <3>2. QED BY <3>1 DEF InOrder, Earlier
  <2>5. \A i \in 1 .. Len(stream') : \A j \in 1 .. Len(wire') : Earlier(stream'[i], wire'[j])
    BY <2>2
  <2>6. QED BY <2>3, <2>4, <2>5 DEF OrderOK, InOrder, Earlier
<1>9. AheadOK'
  <2>1. \A k \in 1 .. Len(handled) : handled[k] \in Nat /\ handled[k] <= frames
    <3>1. \A k \in 1 .. Len(handled) : handled[k] \in 0 .. MaxFrames
      BY <1>1, ElementOfSeq
    <3>2. QED BY <1>1, <3>1 DEF FoundInv, AheadOK
  <2>2. ASSUME NEW x \in Byte, Newer(x), x.at > 0
        PROVE  x.frame <= frames' /\ \A k \in 1 .. Len(handled) : handled[k] < x.frame
    BY <1>1, <2>2 DEF Newer, Byte
  <2>3. \A i \in 1 .. Len(stream) : stream[i].at > 0 =>
           stream[i].frame <= frames' /\ \A k \in 1 .. Len(handled) : handled[k] < stream[i].frame
    BY <1>6, <2>2 DEF FoundInv, AheadOK
  <2>4. ASSUME NEW i \in 1 .. Len(wire'), wire'[i].at > 0
        PROVE  /\ wire'[i].frame <= frames'
               /\ \A k \in 1 .. Len(handled) : handled[k] < wire'[i].frame
    <3>1. CASE i \in 1 .. Len(wire) /\ wire'[i] = wire[i]
      BY <1>5, <2>2, <2>4, <3>1 DEF FoundInv, AheadOK
    <3>2. ASSUME NEW k \in 1 .. Len(w), wire'[i] = w[k]
          PROVE  /\ wire'[i].frame = frames' /\ frames < frames'
      BY <2>4, <3>2
    <3>3. CASE \E k \in 1 .. Len(w) : i = Len(wire) + k /\ wire'[i] = w[k]
      <4>1. wire'[i].frame = frames' /\ frames < frames'
        BY <3>2, <3>3
      <4>2. frames \in Nat /\ frames' \in Nat
        BY <1>1
      <4>3. QED BY <2>1, <4>1, <4>2
    <3>4. QED BY <1>3, <3>1, <3>3
  <2>5. \A k \in 1 .. Len(handled) : handled[k] <= frames'
    BY <1>1, <2>1
  <2>6. QED BY <2>3, <2>4, <2>5 DEF FoundInv, AheadOK, Newer
<1>10. QED BY <1>7, <1>8, <1>9 DEF FoundInv

LEMMA SendNoiseKeeps ==
    ASSUME FoundInv, SendNoise PROVE FoundInv'
<1>1. PICK v \in Values : wire' = Append(wire, Noise(v))
  BY DEF SendNoise
<1>. DEFINE w == <<Noise(v)>>
<1>2. w \in Seq(Byte) /\ Len(w) = 1 /\ w[1].at = 0
  BY NoiseIsAByte
<1>3. wire' = wire \o w
  BY <1>1, <1>2, AppendIsConcat DEF FoundInv, Typed
<1>4. InOrder(w) /\ \A i \in 1 .. Len(w) : ~(w[i].at > 0)
  BY <1>2 DEF InOrder
<1>5. /\ UNCHANGED <<seen, stream, handled, discarded, before, pc, frames>>
      /\ frames \in 0 .. MaxFrames /\ MaxFrames \in Nat
  BY AsmAssumption DEF SendNoise, FoundInv, Typed
<1>6. \A i \in 1 .. Len(w) : w[i].at > 0 => w[i].frame = frames' /\ frames < frames'
  BY <1>4
<1>7. frames' \in 0 .. MaxFrames /\ frames <= frames'
  BY <1>5
<1>. HIDE DEF w
<1>8. QED BY ONLY FoundInv, <1>2, <1>3, <1>4, <1>5, <1>6, <1>7, WireGrows

LEMMA NewFrameParts ==
    ASSUME NEW n \in 0 .. MaxFrames, NEW data \in [1 .. FrameLen -> Values]
    PROVE  /\ MarkerBytes(n) \in Seq(Byte) /\ Len(MarkerBytes(n)) = AsmLen
           /\ FrameBytes(n, data) \in Seq(Byte) /\ Len(FrameBytes(n, data)) = FrameLen
<1>1. AsmLen \in Nat \ {0} /\ FrameLen \in Nat \ {0} /\ Marker \in [1 .. AsmLen -> Values]
  BY AsmAssumption, MarkerLength, LenProperties DEF AsmLen
<1>2. MarkerBytes(n) \in [1 .. AsmLen -> Byte]
  BY <1>1 DEF MarkerBytes, Byte, AsmLen
<1>3. FrameBytes(n, data) \in [1 .. FrameLen -> Byte]
  BY <1>1 DEF FrameBytes, Byte
<1>4. QED BY <1>1, <1>2, <1>3, SeqDef

LEMMA NewFrameIs ==
    ASSUME NEW n \in 0 .. MaxFrames, NEW data \in [1 .. FrameLen -> Values]
    PROVE  LET w == MarkerBytes(n) \o FrameBytes(n, data) IN
           /\ w \in Seq(Byte)
           /\ \A i \in 1 .. Len(w) :
                 w[i].frame = n /\ w[i].at = IF i <= AsmLen THEN 0 ELSE i - AsmLen
<1> DEFINE a == MarkerBytes(n)
           b == FrameBytes(n, data)
<1>1. AsmLen \in Nat \ {0} /\ FrameLen \in Nat \ {0} /\ Marker \in [1 .. AsmLen -> Values]
  BY AsmAssumption, MarkerLength, LenProperties DEF AsmLen
<1>2. a \in Seq(Byte) /\ Len(a) = AsmLen
  BY NewFrameParts
<1>3. b \in Seq(Byte) /\ Len(b) = FrameLen
  BY NewFrameParts
<1>4. \A i \in 1 .. AsmLen : a[i].frame = n /\ a[i].at = 0
  BY DEF MarkerBytes, AsmLen
<1>5. \A i \in 1 .. FrameLen : b[i].frame = n /\ b[i].at = i
  BY DEF FrameBytes
<1> HIDE DEF a, b
<1>6. /\ a \o b \in Seq(Byte) /\ Len(a \o b) = AsmLen + FrameLen
      /\ \A i \in 1 .. AsmLen + FrameLen :
            (a \o b)[i] = IF i <= AsmLen THEN a[i] ELSE b[i - AsmLen]
  BY <1>2, <1>3, ConcatProperties
<1>7. ASSUME NEW i \in 1 .. Len(a \o b)
      PROVE  /\ (a \o b)[i].frame = n
             /\ (a \o b)[i].at = IF i <= AsmLen THEN 0 ELSE i - AsmLen
  <2>1. CASE i <= AsmLen
    <3>1. i \in 1 .. AsmLen /\ (a \o b)[i] = a[i]
      BY <1>1, <1>6, <2>1
    <3>2. QED BY <1>4, <2>1, <3>1
  <2>2. CASE ~(i <= AsmLen)
    <3>1. i - AsmLen \in 1 .. FrameLen /\ (a \o b)[i] = b[i - AsmLen]
      BY <1>1, <1>6, <2>2
    <3>2. QED BY <1>5, <2>2, <3>1
  <2>3. QED BY <2>1, <2>2
<1>8. QED BY <1>6, <1>7 DEF a, b

LEMMA SendFrameKeeps ==
    ASSUME FoundInv, SendFrame PROVE FoundInv'
<1>1. PICK data \in [1 .. FrameLen -> Values] :
         wire' = wire \o MarkerBytes(frames + 1) \o FrameBytes(frames + 1, data)
  BY DEF SendFrame
<1>2. frames \in Nat /\ frames' = frames + 1 /\ frames + 1 \in 0 .. MaxFrames
  BY AsmAssumption DEF SendFrame, FoundInv, Typed
<1>. DEFINE w == MarkerBytes(frames + 1) \o FrameBytes(frames + 1, data)
<1>3. /\ w \in Seq(Byte)
      /\ \A i \in 1 .. Len(w) : /\ w[i].frame = frames + 1
                                /\ w[i].at = IF i <= AsmLen THEN 0 ELSE i - AsmLen
  BY <1>2, NewFrameIs
<1>4. wire' = wire \o w
  <2>1. /\ wire \in Seq(Byte) /\ MarkerBytes(frames + 1) \in Seq(Byte)
        /\ FrameBytes(frames + 1, data) \in Seq(Byte)
    BY <1>2, NewFrameParts DEF FoundInv, Typed
  <2>2. QED BY <1>1, <2>1, ConcatAssociative
<1>. HIDE DEF w
<1>5. Len(w) \in Nat /\ AsmLen \in Nat
  BY <1>3, LenProperties, MarkerLength
<1>6. ASSUME NEW i \in 1 .. Len(w), NEW j \in 1 .. Len(w), i < j
      PROVE  Earlier(w[i], w[j])
  BY <1>3, <1>5, <1>6 DEF Earlier
<1>7. InOrder(w)
  BY <1>6 DEF InOrder
<1>8. UNCHANGED <<seen, stream, handled, discarded, before, pc>>
  BY DEF SendFrame
<1>9. \A i \in 1 .. Len(w) : w[i].at > 0 => w[i].frame = frames' /\ frames < frames'
  BY <1>2, <1>3
<1>10. frames' \in 0 .. MaxFrames /\ frames <= frames'
  BY <1>2
<1>11. QED BY ONLY FoundInv, <1>3, <1>4, <1>7, <1>8, <1>9, <1>10, WireGrows

LEMMA DamageKeeps ==
    ASSUME FoundInv, Damage PROVE FoundInv'
<1>1. PICK i \in 1 .. Len(wire) :
         \/ \E v \in Values \ {wire[i].val} : wire' = [wire EXCEPT ![i] = Noise(v)]
         \/ wire' = RemoveAt(wire, i)
  BY DEF Damage
<1>2. wire \in Seq(Byte) /\ Len(wire) \in Nat
  BY LenProperties DEF FoundInv, Typed
<1>3. UNCHANGED <<frames, seen, before, pc, stream, handled, discarded>>
  BY DEF Damage
<1> DEFINE Kept(r) ==
        /\ wire' \in Seq(Byte) /\ r \in [1 .. Len(wire') -> 1 .. Len(wire)]
        /\ \A j, k \in 1 .. Len(wire') : j < k => r[j] < r[k]
        /\ \A j \in 1 .. Len(wire') : wire'[j].at = 0 \/ wire'[j] = wire[r[j]]
<1>4. ASSUME \E v \in Values \ {wire[i].val} : wire' = [wire EXCEPT ![i] = Noise(v)]
      PROVE  \E r : Kept(r)
  <2>1. PICK v \in Values : wire' = [wire EXCEPT ![i] = Noise(v)]
    BY <1>4
  <2>2. Noise(v) \in Byte /\ Noise(v).at = 0
    BY NoiseIsAByte
  <2>3. /\ wire' \in Seq(Byte) /\ Len(wire') = Len(wire)
        /\ \A j \in 1 .. Len(wire) : wire'[j] = IF j = i THEN Noise(v) ELSE wire[j]
    BY <1>2, <2>1, <2>2, ExceptSeq
  <2>4. Kept([j \in 1 .. Len(wire') |-> j])
    BY <1>2, <2>2, <2>3
  <2>5. QED BY <2>4
<1>5. ASSUME wire' = RemoveAt(wire, i) PROVE \E r : Kept(r)
  <2> DEFINE a == SubSeq(wire, 1, i - 1)
             b == Drop(wire, i)
  <2>1. a \in Seq(Byte) /\ Len(a) = i - 1 /\ \A j \in 1 .. i - 1 : a[j] = wire[j]
    <3>1. i - 1 \in 0 .. Len(wire)
      BY <1>2
    <3>2. QED BY <1>2, <3>1, FrontIs
  <2>2. /\ b \in Seq(Byte) /\ Len(b) = Len(wire) - i
        /\ \A j \in 1 .. Len(wire) - i : b[j] = wire[i + j]
    <3>1. i \in 0 .. Len(wire)
      BY <1>2
    <3>2. QED BY <1>2, <3>1, DropIs
  <2>3. wire' = a \o b
    BY <1>5 DEF RemoveAt, Drop
  <2> HIDE DEF a, b
  <2>4. /\ a \o b \in Seq(Byte) /\ Len(a \o b) = Len(a) + Len(b)
        /\ \A j \in 1 .. Len(a) + Len(b) :
              (a \o b)[j] = IF j <= Len(a) THEN a[j] ELSE b[j - Len(a)]
    BY <2>1, <2>2, ConcatProperties
  <2>5. wire' \in Seq(Byte) /\ Len(wire') = Len(wire) - 1
    BY <1>2, <2>1, <2>2, <2>3, <2>4
  <2> DEFINE r == [j \in 1 .. Len(wire') |-> IF j < i THEN j ELSE j + 1]
  <2>6. \A j \in 1 .. Len(wire') : wire'[j] = wire[r[j]]
    <3> SUFFICES ASSUME NEW j \in 1 .. Len(wire') PROVE wire'[j] = wire[r[j]]
      OBVIOUS
    <3>1. j \in 1 .. Len(a) + Len(b) /\ j \in Nat
      BY <1>2, <2>1, <2>2, <2>5
    <3>2. CASE j < i
      <4>1. j \in 1 .. i - 1 /\ j <= Len(a)
        BY <1>2, <2>1, <3>1, <3>2
      <4>2. wire'[j] = wire[j]
        BY <2>1, <2>3, <2>4, <3>1, <4>1
      <4>3. QED BY <3>2, <4>2
    <3>3. CASE ~(j < i)
      <4>1. /\ ~(j <= Len(a)) /\ j - Len(a) \in 1 .. Len(wire) - i
            /\ i + (j - Len(a)) = j + 1
        <5>1. i \in 1 .. Len(wire) /\ Len(a) = i - 1 /\ j \in 1 .. Len(wire) - 1
          BY <2>1, <2>5
        <5>2. QED BY <1>2, <3>3, <5>1
      <4>2. wire'[j] = wire[j + 1]
        BY <2>2, <2>3, <2>4, <3>1, <4>1
      <4>3. QED BY <3>3, <4>2
    <3>4. QED BY <3>2, <3>3
  <2>7. /\ r \in [1 .. Len(wire') -> 1 .. Len(wire)]
        /\ \A j, k \in 1 .. Len(wire') : j < k => r[j] < r[k]
    BY <1>2, <2>5
  <2> HIDE DEF r
  <2>8. Kept(r)
    BY <2>5, <2>6, <2>7
  <2>9. QED BY <2>8
<1>6. PICK r : Kept(r)
  <2> HIDE DEF Kept
  <2>1. QED BY <1>1, <1>4, <1>5
<1>7. OrderOK' /\ AheadOK'
  BY <1>3, <1>6, WireKeeps
<1>8. Typed' /\ StreamOK'
  BY <1>3, <1>6 DEF FoundInv, Typed, StreamOK, Passed
<1>9. PassedOK'
  BY <1>3 DEF FoundInv, PassedOK, Passed
<1>10. QED BY <1>7, <1>8, <1>9 DEF FoundInv

\* The bytes of a datagram, and what is left on the wire.
LEMMA WireShortens ==
    ASSUME Typed, NEW n \in 1 .. Len(wire)
    PROVE  LET w == SubSeq(wire, n + 1, Len(wire)) IN
           /\ w \in Seq(Byte) /\ Len(w) = Len(wire) - n
           /\ \A j \in 1 .. Len(w) : n + j \in 1 .. Len(wire) /\ w[j] = wire[n + j]
<1> DEFINE w == Drop(wire, n)
<1>1. wire \in Seq(Byte) /\ Len(wire) \in Nat
  BY LenProperties DEF Typed
<1>2. n \in 0 .. Len(wire)
  BY <1>1
<1>3. /\ w \in Seq(Byte) /\ Len(w) = Len(wire) - n
      /\ \A j \in 1 .. Len(wire) - n : w[j] = wire[n + j]
  BY <1>1, <1>2, DropIs
<1> HIDE DEF w
<1>4. \A j \in 1 .. Len(w) : n + j \in 1 .. Len(wire) /\ w[j] = wire[n + j]
  BY <1>1, <1>3
<1>5. w = SubSeq(wire, n + 1, Len(wire))
  BY DEF w, Drop
<1>6. QED BY <1>3, <1>4, <1>5

LEMMA Joined ==
    ASSUME Typed, NEW n \in 1 .. Len(wire), NEW t \in Seq(Byte)
    PROVE  LET u == t \o SubSeq(wire, 1, n) IN
           /\ u \in Seq(Byte) /\ Len(u) = Len(t) + n
           /\ \A i \in 1 .. Len(t) : u[i] = t[i]
           /\ \A i \in 1 .. n : i \in 1 .. Len(wire) /\ u[Len(t) + i] = wire[i]
<1> DEFINE f == SubSeq(wire, 1, n)
           u == t \o f
<1>1. wire \in Seq(Byte) /\ Len(wire) \in Nat /\ Len(t) \in Nat
  BY LenProperties DEF Typed
<1>2. n \in 0 .. Len(wire)
  BY <1>1
<1>3. f \in Seq(Byte) /\ Len(f) = n /\ \A i \in 1 .. n : f[i] = wire[i]
  BY <1>1, <1>2, FrontIs
<1> HIDE DEF f
<1>4. /\ u \in Seq(Byte) /\ Len(u) = Len(t) + Len(f)
      /\ \A i \in 1 .. Len(t) + Len(f) : u[i] = IF i <= Len(t) THEN t[i] ELSE f[i - Len(t)]
  BY <1>3, ConcatProperties
<1> HIDE DEF u
<1>5. \A i \in 1 .. Len(t) : u[i] = t[i]
  BY <1>1, <1>3, <1>4
<1>6. ASSUME NEW i \in 1 .. n PROVE i \in 1 .. Len(wire) /\ u[Len(t) + i] = wire[i]
  <2>1. /\ Len(t) + i \in 1 .. Len(t) + Len(f) /\ ~(Len(t) + i <= Len(t))
        /\ (Len(t) + i) - Len(t) = i /\ i \in 1 .. Len(wire)
    BY <1>1, <1>3
  <2>2. u[Len(t) + i] = f[(Len(t) + i) - Len(t)]
    BY <1>4, <2>1
  <2>3. QED BY <1>3, <2>1, <2>2
<1>7. u = t \o SubSeq(wire, 1, n)
  BY DEF u, f
<1>8. QED BY <1>3, <1>4, <1>5, <1>6, <1>7

LEMMA PushKeeps ==
    ASSUME FoundInv, Push PROVE FoundInv'
<1>1. PICK n \in 1 .. Len(wire) : /\ stream' = stream \o SubSeq(wire, 1, n)
                                  /\ seen' = seen \o SubSeq(wire, 1, n)
                                  /\ wire' = SubSeq(wire, n + 1, Len(wire))
  BY DEF Push
<1>2. /\ wire \in Seq(Byte) /\ stream \in Seq(Byte) /\ seen \in Seq(Byte)
      /\ Len(wire) \in Nat /\ Typed /\ StreamOK
  BY LenProperties DEF FoundInv, Typed
<1>3. UNCHANGED <<frames, before, handled, discarded>>
  BY DEF Push
<1>4. /\ Len(seen) \in Nat /\ Len(stream) \in Nat /\ Passed \in Nat
      /\ Passed + Len(stream) = Len(seen)
  BY <1>2, PassedIs
<1>5. /\ wire' \in Seq(Byte) /\ Len(wire') = Len(wire) - n
      /\ \A j \in 1 .. Len(wire') : n + j \in 1 .. Len(wire) /\ wire'[j] = wire[n + j]
      /\ stream' \in Seq(Byte) /\ Len(stream') = Len(stream) + n
      /\ \A i \in 1 .. Len(stream) : stream'[i] = stream[i]
      /\ \A i \in 1 .. n : i \in 1 .. Len(wire) /\ stream'[Len(stream) + i] = wire[i]
  <2>1. /\ wire' \in Seq(Byte) /\ Len(wire') = Len(wire) - n
        /\ \A j \in 1 .. Len(wire') : n + j \in 1 .. Len(wire) /\ wire'[j] = wire[n + j]
    BY <1>1, <1>2, WireShortens
  <2>2. /\ stream' \in Seq(Byte) /\ Len(stream') = Len(stream) + n
        /\ \A i \in 1 .. Len(stream) : stream'[i] = stream[i]
        /\ \A i \in 1 .. n : i \in 1 .. Len(wire) /\ stream'[Len(stream) + i] = wire[i]
    BY <1>1, <1>2, Joined
  <2>3. QED BY <2>1, <2>2
<1>6. /\ seen' \in Seq(Byte) /\ Len(seen') = Len(seen) + n
      /\ \A i \in 1 .. Len(seen) : seen'[i] = seen[i]
      /\ \A i \in 1 .. n : seen'[Len(seen) + i] = wire[i]
  BY <1>1, <1>2, Joined
<1>7. Passed' = Passed
  BY <1>4, <1>5, <1>6 DEF Passed
<1>8. Typed'
  BY <1>3, <1>5, <1>6 DEF FoundInv, Typed, Push
\* A byte of the stream was in it, or is one of the first n of the wire.
<1>9. ASSUME NEW i \in 1 .. Len(stream')
      PROVE  \/ i \in 1 .. Len(stream) /\ stream'[i] = stream[i]
             \/ \E k \in 1 .. n : i = Len(stream) + k /\ stream'[i] = wire[k]
  <2>1. CASE i <= Len(stream)
    BY <1>4, <1>5, <2>1
  <2>2. CASE ~(i <= Len(stream))
    <3>1. i - Len(stream) \in 1 .. n /\ i = Len(stream) + (i - Len(stream))
      BY <1>4, <1>5, <2>2
    <3>2. QED BY <1>5, <3>1
  <2>3. QED BY <2>1, <2>2
<1>10. StreamOK'
  <2>1. ASSUME NEW i \in 1 .. Len(stream') PROVE stream'[i] = seen'[Passed + i]
    <3>1. CASE i \in 1 .. Len(stream) /\ stream'[i] = stream[i]
      <4>1. stream[i] = seen[Passed + i] /\ Passed + i \in 1 .. Len(seen)
        BY <1>2, <1>4, <3>1 DEF StreamOK
      <4>2. QED BY <1>6, <3>1, <4>1
    <3>2. ASSUME NEW k \in 1 .. n, i = Len(stream) + k, stream'[i] = wire[k]
          PROVE  stream'[i] = seen'[Passed + i]
      <4>1. Passed + i = Len(seen) + k
        BY <1>4, <3>2
      <4>2. QED BY <1>6, <3>2, <4>1
    <3>3. QED BY <1>9, <3>1, <3>2
  <2>2. Len(stream') <= Len(seen')
    BY <1>2, <1>4, <1>5, <1>6 DEF StreamOK
  <2>3. QED BY <1>7, <2>1, <2>2 DEF StreamOK
<1>11. OrderOK'
  <2>1. ASSUME NEW i \in 1 .. Len(stream'), NEW j \in 1 .. Len(wire')
        PROVE  Earlier(stream'[i], wire'[j])
    <3>1. n + j \in 1 .. Len(wire) /\ wire'[j] = wire[n + j]
      BY <1>5
    <3>2. CASE i \in 1 .. Len(stream) /\ stream'[i] = stream[i]
      BY <3>1, <3>2 DEF FoundInv, OrderOK
    <3>3. ASSUME NEW k \in 1 .. n, i = Len(stream) + k, stream'[i] = wire[k]
          PROVE  Earlier(stream'[i], wire'[j])
      <4>1. k \in 1 .. Len(wire) /\ k < n + j
        BY <1>2, <1>5
      <4>2. QED BY <3>1, <3>3, <4>1 DEF FoundInv, OrderOK, InOrder
    <3>4. QED BY <1>9, <3>2, <3>3
  <2>2. ASSUME NEW i \in 1 .. Len(wire'), NEW j \in 1 .. Len(wire'), i < j
        PROVE  Earlier(wire'[i], wire'[j])
    <3>1. n + i < n + j
      BY <1>2, <1>5, <2>2
    <3>2. QED BY <1>5, <3>1 DEF FoundInv, OrderOK, InOrder
  <2>3. ASSUME NEW i \in 1 .. Len(stream'), NEW j \in 1 .. Len(stream'), i < j
        PROVE  Earlier(stream'[i], stream'[j])
    <3>1. CASE j \in 1 .. Len(stream) /\ stream'[j] = stream[j]
      <4>1. i \in 1 .. Len(stream) /\ stream'[i] = stream[i]
        BY <1>4, <1>5, <2>3, <3>1
      <4>2. QED BY <2>3, <3>1, <4>1 DEF FoundInv, OrderOK, InOrder
    <3>2. ASSUME NEW k \in 1 .. n, j = Len(stream) + k, stream'[j] = wire[k]
          PROVE  Earlier(stream'[i], stream'[j])
      <4>1. k \in 1 .. Len(wire)
        BY <1>5
      <4>2. CASE i \in 1 .. Len(stream) /\ stream'[i] = stream[i]
        BY <3>2, <4>1, <4>2 DEF FoundInv, OrderOK
      <4>3. ASSUME NEW m \in 1 .. n, i = Len(stream) + m, stream'[i] = wire[m]
            PROVE  Earlier(stream'[i], stream'[j])
        <5>1. m < k /\ m \in 1 .. Len(wire)
          BY <1>4, <1>5, <2>3, <3>2, <4>3
        <5>2. QED BY <3>2, <4>1, <4>3, <5>1 DEF FoundInv, OrderOK, InOrder
      <4>4. QED BY <1>9, <4>2, <4>3
    <3>3. QED BY <1>9, <3>1, <3>2
  <2>4. InOrder(stream') /\ InOrder(wire')
    BY <2>2, <2>3 DEF InOrder
  <2>5. QED BY <2>1, <2>4 DEF OrderOK, InOrder, Earlier
<1>12. AheadOK'
  <2>1. ASSUME NEW i \in 1 .. Len(stream'), stream'[i].at > 0
        PROVE  /\ stream'[i].frame <= frames
               /\ \A k \in 1 .. Len(handled) : handled[k] < stream'[i].frame
    BY <1>5, <1>9, <2>1 DEF FoundInv, AheadOK, Newer
  <2>2. ASSUME NEW i \in 1 .. Len(wire'), wire'[i].at > 0
        PROVE  /\ wire'[i].frame <= frames
               /\ \A k \in 1 .. Len(handled) : handled[k] < wire'[i].frame
    BY <1>5, <2>2 DEF FoundInv, AheadOK, Newer
  <2>3. QED BY <1>3, <2>1, <2>2 DEF FoundInv, AheadOK, Newer
<1>13. PassedOK'
  <2>1. SeenGrows
    <3>1. n \in Nat
      BY <1>2
    <3>2. Len(seen) <= Len(seen')
      BY <1>4, <1>6, <3>1
    <3>3. QED BY <1>6, <3>2 DEF SeenGrows
  <2>2. ToSet(handled) \subseteq ToSet(handled')
    BY <1>3
  <2>3. Passed' = Passed + 0 /\ \A j \in 0 .. 0 - 1 : Cleared(seen', handled', Passed + j)
    BY <1>4, <1>7
  <2>4. PassedOK
    BY DEF FoundInv
  <2>5. QED BY <1>2, <1>8, <2>1, <2>2, <2>3, <2>4, PassedKeeps
<1>14. QED BY <1>8, <1>10, <1>11, <1>12, <1>13 DEF FoundInv

LEMMA ResetKeeps ==
    ASSUME FoundInv, Reset PROVE FoundInv'
<1>1. PICK n \in 1 .. Len(wire) : wire' = SubSeq(wire, n + 1, Len(wire))
  BY DEF Reset
<1>2. Len(wire) \in Nat
  BY LenProperties DEF FoundInv, Typed
<1>3. /\ wire' \in Seq(Byte) /\ Len(wire') = Len(wire) - n
      /\ \A j \in 1 .. Len(wire') : n + j \in 1 .. Len(wire) /\ wire'[j] = wire[n + j]
  BY <1>1, WireShortens DEF FoundInv
<1>4. /\ Len(stream') = 0 /\ Len(seen') = 0 /\ stream' = <<>> /\ seen' = <<>>
      /\ frames' = frames /\ handled' = handled
      /\ before'.handled = handled /\ before'.discarded = discarded
  BY DEF Reset
<1>5. Typed'
  BY <1>3, <1>4, EmptySeq DEF FoundInv, Typed, Reset
<1>6. Passed' = 0
  BY <1>4 DEF Passed
<1>7. StreamOK' /\ PassedOK'
  BY <1>4, <1>6 DEF StreamOK, PassedOK
<1>8. OrderOK'
  <2>1. ASSUME NEW i \in 1 .. Len(wire'), NEW j \in 1 .. Len(wire'), i < j
        PROVE  Earlier(wire'[i], wire'[j])
    <3>1. n + i < n + j
      BY <1>2, <1>3, <2>1
    <3>2. QED BY <1>3, <3>1 DEF FoundInv, OrderOK, InOrder
  <2>2. InOrder(wire')
    BY <2>1 DEF InOrder
  <2>3. QED BY <1>4, <2>2 DEF OrderOK, InOrder
<1>9. AheadOK'
  <2>1. ASSUME NEW i \in 1 .. Len(wire'), wire'[i].at > 0
        PROVE  /\ wire'[i].frame <= frames
               /\ \A k \in 1 .. Len(handled) : handled[k] < wire'[i].frame
    BY <1>3, <2>1 DEF FoundInv, AheadOK, Newer
  <2>2. QED BY <1>4, <2>1 DEF FoundInv, AheadOK, Newer
<1>10. QED BY <1>5, <1>7, <1>8, <1>9 DEF FoundInv

LEMMA NoMarkerCleared ==
    ASSUME Typed, StreamOK, NEW h, NEW j \in Nat, j + AsmLen <= Len(stream), ~IsMarker(stream, j)
    PROVE  Cleared(seen, h, Passed + j)
<1>1. /\ Len(seen) \in Nat /\ Len(stream) \in Nat /\ Passed \in Nat /\ AsmLen \in Nat
      /\ Passed + Len(stream) = Len(seen)
  BY PassedIs, MarkerLength
<1>2. ~IsMarker(seen, Passed + j)
  BY MarkerInSeen
<1>3. (Passed + j) + AsmLen <= Len(seen)
  BY <1>1
<1>4. QED BY <1>2, <1>3 DEF Cleared

LEMMA QuietAdvance ==
    ASSUME FoundInv, Typed', NEW d \in 0 .. Len(stream), stream' = Drop(stream, d),
           UNCHANGED <<link, handled>>,
           \A j \in 0 .. d - 1 : Cleared(seen, handled, Passed + j)
    PROVE  FoundInv'
<1>1. /\ Typed /\ StreamOK /\ OrderOK /\ PassedOK
      /\ seen' = seen /\ wire' = wire /\ frames' = frames /\ handled' = handled
  BY DEF FoundInv, link
<1>2. /\ Len(stream') = Len(stream) - d
      /\ \A i \in 1 .. Len(stream) - d : stream'[i] = stream[d + i]
      /\ Passed' = Passed + d /\ StreamOK' /\ OrderOK'
  BY <1>1, AdvanceKeeps
<1>3. Len(stream) \in Nat /\ d \in Nat /\ Len(seen) \in Nat
  BY <1>1, PassedIs
<1>4. AheadOK'
  <2>1. ASSUME NEW i \in 1 .. Len(stream')
        PROVE  d + i \in 1 .. Len(stream) /\ stream'[i] = stream[d + i]
    BY <1>2, <1>3
  <2>2. QED BY <1>1, <2>1 DEF FoundInv, AheadOK, Newer
<1>5. SeenGrows /\ ToSet(handled) \subseteq ToSet(handled')
  BY <1>1, <1>3 DEF SeenGrows
<1>6. PassedOK'
  <2>1. \A j \in 0 .. d - 1 : Cleared(seen', handled', Passed + j)
    BY <1>1
  <2>2. QED BY <1>1, <1>2, <1>3, <1>5, <2>1, PassedKeeps
<1>7. QED BY <1>2, <1>4, <1>6 DEF FoundInv

LEMMA NoMarkerKeeps ==
    ASSUME FoundInv, NoMarker PROVE FoundInv'
<1>1. Typed /\ StreamOK /\ stream \in Seq(Byte) /\ Len(stream) \in Nat /\ AsmLen \in Nat \ {0}
  BY PassedIs, MarkerLength DEF FoundInv, Typed
<1>2. PICK d \in 0 .. Len(stream) : /\ TailKept(stream) = Drop(stream, d)
                                    /\ d = IF Len(stream) > AsmLen - 1
                                           THEN Len(stream) - (AsmLen - 1) ELSE 0
  BY <1>1, TailKeptIs
<1>3. stream' = Drop(stream, d) /\ UNCHANGED <<link, handled>>
  BY <1>2 DEF NoMarker
<1>4. stream' \in Seq(Byte) /\ Len(stream') = Len(stream) - d
  BY <1>1, <1>3, DropIs
<1>5. discarded' \in Nat
  <2>1. discarded' = discarded + Len(stream) - Len(stream')
    BY DEF NoMarker
  <2>2. d \in Nat /\ discarded \in Nat
    BY <1>1 DEF Typed
  <2>3. discarded' = discarded + d
    BY <1>1, <1>4, <2>1, <2>2
  <2>4. QED BY <2>2, <2>3
<1>6. Typed'
  BY <1>1, <1>3, <1>4, <1>5 DEF NoMarker, Typed, link
<1>7. ASSUME NEW j \in 0 .. d - 1 PROVE Cleared(seen, handled, Passed + j)
  <2>1. j \in Nat /\ j + AsmLen <= Len(stream)
    BY <1>1, <1>2
  <2>2. ~IsMarker(stream, j)
    BY <1>1, <2>1, NoneFound DEF NoMarker
  <2>3. QED BY <1>1, <2>1, <2>2, NoMarkerCleared
<1>8. QED BY <1>3, <1>6, <1>7, QuietAdvance

LEMMA IncompleteKeeps ==
    ASSUME FoundInv, Incomplete PROVE FoundInv'
<1>1. Typed /\ StreamOK /\ stream \in Seq(Byte) /\ Len(stream) \in Nat /\ AsmLen \in Nat \ {0}
  BY PassedIs, MarkerLength DEF FoundInv, Typed
<1>2. /\ First(stream) \in Nat /\ First(stream) + AsmLen <= Len(stream)
      /\ \A i \in Nat : i < First(stream) => ~IsMarker(stream, i)
  BY <1>1, FirstIsFirst DEF Incomplete
<1>3. /\ First(stream) \in 0 .. Len(stream) /\ stream' = Drop(stream, First(stream))
      /\ UNCHANGED <<link, handled>>
  BY <1>1, <1>2 DEF Incomplete
<1>4. stream' \in Seq(Byte)
  BY <1>1, <1>3, DropIs
<1>5. Typed'
  BY <1>1, <1>2, <1>3, <1>4 DEF Incomplete, Typed, link
<1>6. ASSUME NEW j \in 0 .. First(stream) - 1 PROVE Cleared(seen, handled, Passed + j)
  <2>1. j \in Nat /\ j + AsmLen <= Len(stream) /\ ~IsMarker(stream, j)
    BY <1>1, <1>2
  <2>2. QED BY <1>1, <2>1, NoMarkerCleared
<1>7. QED BY <1>3, <1>5, <1>6, QuietAdvance

\* Where the search has found a marker with enough bytes behind it.
LEMMA AtCandidate ==
    ASSUME FoundInv, Found(stream) # {}, Enough(stream)
    PROVE  /\ Typed /\ StreamOK /\ stream \in Seq(Byte) /\ seen \in Seq(Byte)
           /\ Len(stream) \in Nat /\ Passed \in Nat /\ Passed + Len(stream) = Len(seen)
           /\ AsmLen \in Nat \ {0} /\ FrameLen \in Nat \ {0}
           /\ First(stream) \in Nat /\ First(stream) + AsmLen + FrameLen <= Len(stream)
           /\ First(stream) + AsmLen + FrameLen \in 0 .. Len(stream)
           /\ First(stream) + 1 \in 0 .. Len(stream)
           /\ \A j \in 0 .. First(stream) - 1 : \A h : Cleared(seen, h, Passed + j)
           /\ \A i \in 1 .. FrameLen :
                 /\ First(stream) + AsmLen + i \in 1 .. Len(stream)
                 /\ Candidate(stream)[i] = stream[First(stream) + AsmLen + i]
                 /\ Candidate(stream)[i] = seen[Passed + First(stream) + AsmLen + i]
<1>1. /\ Typed /\ StreamOK /\ stream \in Seq(Byte) /\ seen \in Seq(Byte)
      /\ Len(stream) \in Nat /\ Passed \in Nat /\ Passed + Len(stream) = Len(seen)
      /\ AsmLen \in Nat \ {0} /\ FrameLen \in Nat \ {0}
  BY PassedIs, MarkerLength DEF FoundInv, Typed
<1>2. /\ First(stream) \in Nat /\ First(stream) + AsmLen <= Len(stream)
      /\ \A i \in Nat : i < First(stream) => ~IsMarker(stream, i)
  BY <1>1, FirstIsFirst
<1>3. /\ First(stream) + AsmLen + FrameLen \in 0 .. Len(stream)
      /\ \A i \in 1 .. FrameLen :
            /\ First(stream) + AsmLen + i \in 1 .. Len(stream)
            /\ Candidate(stream)[i] = stream[First(stream) + AsmLen + i]
  BY <1>1, CandidateIs
<1>4. First(stream) + AsmLen + FrameLen <= Len(stream) /\ First(stream) + 1 \in 0 .. Len(stream)
  BY <1>1, <1>2, <1>3
<1>5. ASSUME NEW j \in 0 .. First(stream) - 1, NEW h PROVE Cleared(seen, h, Passed + j)
  <2>1. j \in Nat /\ j + AsmLen <= Len(stream) /\ ~IsMarker(stream, j)
    BY <1>1, <1>2
  <2>2. QED BY <1>1, <2>1, NoMarkerCleared
<1>6. ASSUME NEW i \in 1 .. FrameLen
      PROVE  Candidate(stream)[i] = seen[Passed + First(stream) + AsmLen + i]
  <2>1. stream[First(stream) + AsmLen + i] = seen[Passed + (First(stream) + AsmLen + i)]
    BY <1>1, <1>3 DEF StreamOK
  <2>2. Passed + (First(stream) + AsmLen + i) = Passed + First(stream) + AsmLen + i
    BY <1>1, <1>2
  <2>3. QED BY <1>3, <2>1, <2>2
<1>7. QED BY <1>1, <1>2, <1>3, <1>4, <1>5, <1>6

LEMMA BadFrameKeeps ==
    ASSUME FoundInv, BadFrame PROVE FoundInv'
<1> DEFINE q == First(stream)
           c == Candidate(stream)
<1>1. /\ Typed /\ StreamOK /\ stream \in Seq(Byte)
      /\ Len(stream) \in Nat /\ Passed \in Nat /\ Passed + Len(stream) = Len(seen)
      /\ AsmLen \in Nat \ {0} /\ FrameLen \in Nat \ {0}
      /\ q \in Nat /\ q + AsmLen + FrameLen <= Len(stream) /\ q + 1 \in 0 .. Len(stream)
      /\ \A j \in 0 .. q - 1 : \A h : Cleared(seen, h, Passed + j)
      /\ \A i \in 1 .. FrameLen : c[i] = seen[Passed + q + AsmLen + i]
  BY AtCandidate DEF BadFrame
<1>2. stream' = Drop(stream, q + 1) /\ UNCHANGED <<link, handled>> /\ ~Passes(c)
  BY DEF BadFrame
<1>0. discarded' = discarded + q /\ UNCHANGED pc
  BY DEF BadFrame
<1> HIDE DEF q, c
<1>3. stream' \in Seq(Byte)
  BY <1>1, <1>2, DropIs
<1>4. Typed'
  <2>1. discarded' \in Nat
    BY <1>1, <1>0 DEF Typed
  <2>2. QED BY <1>1, <1>2, <1>3, <1>0, <2>1 DEF Typed, link
<1>5. Cleared(seen, handled, Passed + q)
  <2>1. (Passed + q) + AsmLen + FrameLen <= Len(seen)
    BY <1>1
  <2>2. ASSUME NEW n \in 0 .. MaxFrames, Whole(seen, n, Passed + q) PROVE FALSE
    <3>1. \A k \in 1 .. FrameLen : /\ seen[(Passed + q) + AsmLen + k].frame = n
                                   /\ seen[(Passed + q) + AsmLen + k].at = k
      BY <2>2 DEF Whole, AsmLen
    <3>2. \A k \in 1 .. FrameLen : c[k].frame = n /\ c[k].at = k
      BY <1>1, <3>1
    <3>3. QED BY <1>1, <1>2, <3>2 DEF Passes
  <2>3. QED BY <2>1, <2>2 DEF Cleared
<1>6. ASSUME NEW j \in 0 .. (q + 1) - 1 PROVE Cleared(seen, handled, Passed + j)
  <2>1. j \in 0 .. q - 1 \/ j = q
    BY <1>1
  <2>2. QED BY <1>1, <1>5, <2>1
<1>7. QED BY <1>1, <1>2, <1>4, <1>6, QuietAdvance

LEMMA GoodFrameKeeps ==
    ASSUME FoundInv, GoodFrame PROVE FoundInv'
<1> DEFINE q == First(stream)
           c == Candidate(stream)
           f == c[1].frame
           e == q + AsmLen + FrameLen
<1>1. /\ Typed /\ StreamOK /\ stream \in Seq(Byte) /\ seen \in Seq(Byte)
      /\ Len(stream) \in Nat /\ Passed \in Nat /\ Passed + Len(stream) = Len(seen)
      /\ AsmLen \in Nat \ {0} /\ FrameLen \in Nat \ {0}
      /\ q \in Nat /\ e <= Len(stream) /\ e \in 0 .. Len(stream)
      /\ \A j \in 0 .. q - 1 : \A h : Cleared(seen, h, Passed + j)
      /\ \A i \in 1 .. FrameLen : /\ q + AsmLen + i \in 1 .. Len(stream)
                                  /\ c[i] = stream[q + AsmLen + i]
                                  /\ c[i] = seen[Passed + q + AsmLen + i]
  BY AtCandidate DEF GoodFrame
<1>2. /\ stream' = Drop(stream, e) /\ UNCHANGED <<link, pc>>
      /\ handled' = Append(handled, f) /\ discarded' = discarded + q
  BY DEF GoodFrame, AsmLen
<1>3. \A i \in 1 .. FrameLen : c[i].frame = f /\ c[i].at = i
  BY DEF GoodFrame, Passes
<1>4. /\ seen' = seen /\ wire' = wire /\ frames' = frames /\ before' = before
      /\ OrderOK /\ AheadOK /\ PassedOK
  BY <1>2 DEF link, FoundInv
<1>5. e = q + AsmLen + FrameLen
  OBVIOUS
<1> HIDE DEF q, c, f, e
<1>6. f \in 0 .. MaxFrames /\ f \in Nat /\ q \in Nat /\ e \in Nat
  <2>1. 1 \in 1 .. FrameLen
    BY <1>1
  <2>2. c[1] \in Byte /\ c[1].frame = f
    BY <1>1, <1>3, <2>1, ElementOfSeq
  <2>3. c[1].frame \in 0 .. MaxFrames
    BY <2>2 DEF Byte
  <2>4. QED BY <1>1, <2>2, <2>3, AsmAssumption
<1>7. /\ handled \in Seq(0 .. MaxFrames) /\ Len(handled) \in Nat
      /\ \A k \in 1 .. Len(handled) : handled[k] \in Nat
  <2>1. handled \in Seq(0 .. MaxFrames)
    BY <1>1 DEF Typed
  <2>2. \A k \in 1 .. Len(handled) : handled[k] \in 0 .. MaxFrames
    BY <2>1, ElementOfSeq
  <2>3. QED BY <2>1, <2>2, LenProperties, AsmAssumption
<1>8. /\ handled' \in Seq(0 .. MaxFrames) /\ Len(handled') = Len(handled) + 1
      /\ \A k \in 1 .. Len(handled) : handled'[k] = handled[k]
      /\ handled'[Len(handled) + 1] = f
  BY <1>2, <1>6, <1>7, AppendProperties
<1>9. /\ stream' \in Seq(Byte) /\ Len(stream') = Len(stream) - e
      /\ \A i \in 1 .. Len(stream) - e : stream'[i] = stream[e + i]
      /\ Passed' = Passed + e /\ StreamOK' /\ OrderOK'
  BY <1>1, <1>2, <1>4, AdvanceKeeps
<1>10. Typed'
  <2>1. discarded \in Nat
    BY <1>1 DEF Typed
  <2>2. discarded' \in Nat
    BY <1>2, <1>6, <2>1
  <2>3. QED BY <1>1, <1>2, <1>4, <1>8, <1>9, <2>2 DEF Typed
\* The frame is newer than those handled before it, older than what follows.
<1>11. /\ f <= frames /\ \A k \in 1 .. Len(handled) : handled[k] < f
  <2>1. Newer(stream[q + AsmLen + 1])
    BY <1>1, <1>4 DEF AheadOK
  <2>2. c[1].at = 1 /\ c[1].frame = f /\ c[1] = stream[q + AsmLen + 1]
    BY <1>1, <1>3
  <2>3. QED BY <2>1, <2>2 DEF Newer
<1>12. ASSUME NEW x \in Byte, x.at > 0, Earlier(c[FrameLen], x) PROVE f < x.frame
  <2>1. c[FrameLen].frame = f /\ c[FrameLen].at = FrameLen
    BY <1>1, <1>3
  <2>2. f < x.frame \/ FrameLen < x.at
    BY <1>1, <1>12, <2>1 DEF Earlier
  <2>3. x.at \in 0 .. FrameLen
    BY DEF Byte
  <2>4. QED BY <1>1, <2>2, <2>3
<1>13. /\ e \in 1 .. Len(stream) /\ c[FrameLen] = stream[e]
  BY <1>1, <1>5
<1>14. ASSUME NEW i \in 1 .. Len(stream') PROVE stream'[i].at > 0 => f < stream'[i].frame
  <2>1. /\ e + i \in 1 .. Len(stream) /\ e < e + i /\ stream'[i] = stream[e + i]
    BY <1>1, <1>9
  <2>2. Earlier(c[FrameLen], stream'[i])
    BY <1>4, <1>13, <2>1 DEF OrderOK, InOrder
  <2>3. stream'[i] \in Byte
    BY <1>9, ElementOfSeq
  <2>4. QED BY <1>12, <2>2, <2>3
<1>15. ASSUME NEW i \in 1 .. Len(wire) PROVE wire[i].at > 0 => f < wire[i].frame
  <2>1. Earlier(c[FrameLen], wire[i])
    BY <1>4, <1>13 DEF OrderOK
  <2>2. wire[i] \in Byte
    BY <1>1, ElementOfSeq DEF Typed
  <2>3. QED BY <1>12, <2>1, <2>2
<1>16. \A k \in 1 .. Len(handled') :
         \/ k \in 1 .. Len(handled) /\ handled'[k] = handled[k]
         \/ k = Len(handled) + 1 /\ handled'[k] = f
  <2> SUFFICES ASSUME NEW k \in 1 .. Len(handled) + 1
               PROVE  \/ k \in 1 .. Len(handled) /\ handled'[k] = handled[k]
                      \/ k = Len(handled) + 1 /\ handled'[k] = f
    BY <1>8
  <2>1. k \in 1 .. Len(handled) \/ k = Len(handled) + 1
    BY <1>7
  <2>2. QED BY <1>8, <2>1
<1>17. AheadOK'
  <2>1. ASSUME NEW i \in 1 .. Len(stream'), stream'[i].at > 0
        PROVE  /\ stream'[i].frame <= frames
               /\ \A k \in 1 .. Len(handled') : handled'[k] < stream'[i].frame
    <3>1. e + i \in 1 .. Len(stream) /\ stream'[i] = stream[e + i]
      <4>1. i \in 1 .. Len(stream) - e
        BY <1>9
      <4>2. e + i \in 1 .. Len(stream)
        BY <1>1, <1>6, <4>1
      <4>3. QED BY <1>9, <4>1, <4>2
    <3>2. /\ stream'[i].frame <= frames
          /\ \A k \in 1 .. Len(handled) : handled[k] < stream'[i].frame
      BY <1>4, <2>1, <3>1 DEF AheadOK, Newer
    <3>3. QED BY <1>14, <1>16, <2>1, <3>2
  <2>2. ASSUME NEW i \in 1 .. Len(wire), wire[i].at > 0
        PROVE  /\ wire[i].frame <= frames
               /\ \A k \in 1 .. Len(handled') : handled'[k] < wire[i].frame
    <3>1. /\ wire[i].frame <= frames
          /\ \A k \in 1 .. Len(handled) : handled[k] < wire[i].frame
      BY <1>4, <2>2 DEF AheadOK, Newer
    <3>2. QED BY <1>15, <1>16, <2>2, <3>1
  <2>3. \A k \in 1 .. Len(handled') : handled'[k] <= frames
    BY <1>4, <1>11, <1>16 DEF AheadOK
  <2>4. ASSUME NEW j \in 1 .. Len(handled'), NEW k \in 1 .. Len(handled'), j < k
        PROVE  handled'[j] < handled'[k]
    <3>1. j \in 1 .. Len(handled) /\ handled'[j] = handled[j]
      BY <1>7, <1>8, <2>4
    <3>2. CASE k \in 1 .. Len(handled)
      BY <1>4, <1>8, <2>4, <3>1, <3>2 DEF AheadOK
    <3>3. CASE k = Len(handled) + 1
      BY <1>8, <1>11, <3>1, <3>3
    <3>4. QED BY <1>7, <1>8, <3>2, <3>3
  <2>5. QED BY <1>4, <2>1, <2>2, <2>3, <2>4 DEF AheadOK, Newer
<1>18. f \in ToSet(handled') /\ ToSet(handled) \subseteq ToSet(handled')
  <2>1. DOMAIN handled = 1 .. Len(handled) /\ DOMAIN handled' = 1 .. Len(handled')
    BY <1>7, <1>8, LenProperties
  <2>2. QED BY <1>7, <1>8, <2>1 DEF ToSet
\* No undamaged frame but this one starts before its end.
<1>19. ASSUME NEW j \in 0 .. e - 1 PROVE Cleared(seen, handled', Passed + j)
  <2>1. CASE j < q
    <3>1. j \in 0 .. q - 1
      BY <1>6, <2>1
    <3>2. QED BY <1>1, <3>1
  <2>2. CASE j = q
    <3>1. (Passed + q) + AsmLen + FrameLen <= Len(seen)
      BY <1>1, <1>5
    <3>2. ASSUME NEW n \in 0 .. MaxFrames, Whole(seen, n, Passed + q) PROVE n \in ToSet(handled')
      <4>1. seen[(Passed + q) + AsmLen + 1].frame = n
        BY <1>1, <3>2 DEF Whole, AsmLen
      <4>2. c[1].frame = n
        BY <1>1, <4>1
      <4>3. QED BY <1>18, <4>2 DEF f
    <3>3. QED BY <2>2, <3>1, <3>2 DEF Cleared
  <2>3. CASE j > q /\ j < q + AsmLen
    <3>1. q + AsmLen + 1 - j \in 1 .. AsmLen
      BY <1>1, <2>3
    <3>2. (Passed + j) + (q + AsmLen + 1 - j) = Passed + q + AsmLen + 1
      BY <1>1
    <3>3. /\ Passed + q + AsmLen + 1 <= Len(seen)
          /\ seen[Passed + q + AsmLen + 1] = c[1] /\ c[1].at = 1
      BY <1>1, <1>3
    <3>4. QED BY <3>1, <3>2, <3>3 DEF Cleared
  <2>4. CASE j >= q + AsmLen
    <3>1. PICK i \in 1 .. FrameLen : j + 1 = q + AsmLen + i
      <4>1. j + 1 - (q + AsmLen) \in 1 .. FrameLen
        BY <1>1, <1>5, <1>6, <2>4
      <4>2. j + 1 = q + AsmLen + (j + 1 - (q + AsmLen))
        BY <1>1
      <4>3. QED BY <4>1, <4>2
    <3>2. (Passed + j) + 1 = Passed + q + AsmLen + i
      BY <1>1, <3>1
    <3>3. /\ Passed + q + AsmLen + i <= Len(seen)
          /\ seen[Passed + q + AsmLen + i] = c[i] /\ c[i].at = i
      BY <1>1, <1>3
    <3>4. 1 \in 1 .. AsmLen /\ i # 0
      BY <1>1
    <3>5. QED BY <3>2, <3>3, <3>4 DEF Cleared
  <2>5. QED BY <1>1, <1>6, <2>1, <2>2, <2>3, <2>4
<1>20. PassedOK'
  <2>1. SeenGrows
    BY <1>1, <1>4 DEF SeenGrows
  <2>2. \A j \in 0 .. e - 1 : Cleared(seen', handled', Passed + j)
    BY <1>4, <1>19
  <2>3. QED BY <1>1, <1>4, <1>6, <1>9, <1>10, <1>18, <2>1, <2>2, PassedKeeps
<1>21. QED BY <1>9, <1>10, <1>17, <1>20 DEF FoundInv

LEMMA FoundStep == FoundInv /\ [SyncNext]_syncVars => FoundInv'
<1> SUFFICES ASSUME FoundInv, [SyncNext]_syncVars PROVE FoundInv'
  OBVIOUS
<1>1. CASE SendFrame \/ SendNoise \/ Damage
  BY <1>1, SendFrameKeeps, SendNoiseKeeps, DamageKeeps
<1>2. CASE Push \/ Reset
  BY <1>2, PushKeeps, ResetKeeps
<1>3. CASE Scan
  BY <1>3, NoMarkerKeeps, IncompleteKeeps, GoodFrameKeeps, BadFrameKeeps DEF Scan
<1>4. CASE UNCHANGED syncVars
  <2>1. UNCHANGED <<wire, frames, seen, before, pc, stream, handled, discarded>>
    BY <1>4 DEF syncVars, link
  <2>2. Typed' /\ StreamOK'
    BY <2>1 DEF FoundInv, Typed, StreamOK, Passed
  <2>3. OrderOK'
    BY <2>1 DEF FoundInv, OrderOK, InOrder, Earlier
  <2>4. AheadOK'
    BY <2>1 DEF FoundInv, AheadOK, Newer
  <2>5. PassedOK'
    BY <2>1 DEF FoundInv, PassedOK, Passed
  <2>6. QED BY <2>2, <2>3, <2>4, <2>5 DEF FoundInv
<1>5. QED BY <1>1, <1>2, <1>3, <1>4 DEF SyncNext

LEMMA FoundInvFinds == FoundInv => UndamagedFramesFound
<1> SUFFICES ASSUME FoundInv PROVE UndamagedFramesFound
  OBVIOUS
<1>1. AsmLen \in Nat \ {0} /\ FrameLen \in Nat \ {0} /\ Passed \in Nat /\ Len(seen) \in Nat
  BY MarkerLength, PassedIs DEF FoundInv
<1>2. frames \in 0 .. MaxFrames
  BY DEF FoundInv, Typed
<1>3. ASSUME NEW n \in 1 .. frames, NEW i \in 0 .. Len(seen) - Len(stream) - 1,
             Whole(seen, n, i)
      PROVE  n \in ToSet(handled)
  <2>1. Cleared(seen, handled, i)
    BY DEF FoundInv, PassedOK, Passed
  <2>2. IsMarker(seen, i) /\ \A k \in 1 .. AsmLen : seen[i + k].at = 0
    BY <1>3 DEF Whole, AsmLen
  <2>3. n \in 0 .. MaxFrames
    BY <1>2, AsmAssumption
  <2>4. QED BY <1>3, <2>1, <2>2, <2>3 DEF Cleared
<1>4. QED BY <1>3 DEF UndamagedFramesFound, FoundInv, AheadOK

-----------------------------------------------------------------------------
(* The search of all the bytes, by where it stands. *)

\* What holds of a position when it holds of all further on holds of all.
LEMMA Backwards ==
    ASSUME NEW L \in Nat, NEW G,
           \A n \in 0 .. L : (\A k \in n + 1 .. L : k \in G) => n \in G
    PROVE  \A n \in 0 .. L : n \in G
<1> SUFFICES ASSUME NEW x \in 0 .. L, x \notin G PROVE FALSE
  OBVIOUS
<1> DEFINE Others == {k \in 0 .. L : L - k \notin G}
<1>1. L - x \in Others
  <2>1. L - (L - x) = x /\ L - x \in 0 .. L
    OBVIOUS
  <2>2. QED BY <2>1
<1>2. Others \in SUBSET Nat /\ Others # {}
  <2>1. \A k \in 0 .. L : k \in Nat
    OBVIOUS
  <2>2. Others \subseteq Nat
    BY <2>1
  <2> HIDE DEF Others
  <2>3. QED BY <1>1, <2>2
<1> HIDE DEF Others
<1>3. PICK k \in Others : \A j \in Others : k <= j
  BY <1>2, LeastNumber
<1>4. k \in 0 .. L /\ L - k \in 0 .. L /\ L - k \notin G
  BY <1>3 DEF Others
<1>5. ASSUME NEW i \in (L - k) + 1 .. L PROVE i \in G
  <2>1. L - i \in 0 .. L /\ L - i < k /\ L - (L - i) = i
    BY <1>4
  <2>2. L - i \notin Others
    BY <1>3, <1>4, <2>1
  <2>3. QED BY <2>1, <2>2 DEF Others
<1>6. QED BY <1>4, <1>5

\* Where markers are, and frames.
Clear(all, n) == \A i \in n .. Len(all) - AsmLen : ~IsMarker(all, i)
FirstAt(all, n, q) ==
    /\ q \in n .. Len(all) - AsmLen /\ IsMarker(all, q)
    /\ \A i \in n .. q - 1 : ~IsMarker(all, i)
FrameAt(all, q) ==
    \A i \in 1 .. FrameLen : /\ all[q + AsmLen + i].frame = all[q + AsmLen + 1].frame
                             /\ all[q + AsmLen + i].at = i

\* Where the search goes on, what it has got, and from where bytes are kept.
EndAt(all, q) == q + IF FrameAt(all, q) THEN AsmLen + FrameLen ELSE 1
Got(all, q) == IF FrameAt(all, q) THEN <<all[q + AsmLen + 1].frame>> ELSE <<>>
TailFrom(all, n) == IF Len(all) - n > AsmLen - 1 THEN Len(all) - (AsmLen - 1) ELSE n

LEMMA MarkerBehind ==
    ASSUME NEW all \in Seq(Byte), NEW n \in 0 .. Len(all), NEW i \in Nat,
           n + i + AsmLen <= Len(all)
    PROVE  IsMarker(Drop(all, n), i) <=> IsMarker(all, n + i)
<1>1. Len(all) \in Nat /\ AsmLen \in Nat /\ n \in Nat
  BY LenProperties, MarkerLength
<1>2. \A k \in 1 .. Len(all) - n : Drop(all, n)[k] = all[n + k]
  BY DropIs
<1>3. \A k \in 1 .. Len(Marker) : Drop(all, n)[i + k] = all[n + i + k]
  <2> SUFFICES ASSUME NEW k \in 1 .. AsmLen PROVE Drop(all, n)[i + k] = all[n + i + k]
    BY DEF AsmLen
  <2>1. i + k \in 1 .. Len(all) - n /\ n + (i + k) = n + i + k
    BY <1>1
  <2>2. QED BY <1>2, <2>1
<1>4. QED BY <1>3 DEF IsMarker

LEMMA MarkersBehind ==
    ASSUME NEW all \in Seq(Byte), NEW n \in 0 .. Len(all)
    PROVE  /\ Found(Drop(all, n)) = {} <=> Clear(all, n)
           /\ Found(Drop(all, n)) # {} => FirstAt(all, n, n + First(Drop(all, n)))
<1> DEFINE s == Drop(all, n)
<1>1. Len(all) \in Nat /\ AsmLen \in Nat \ {0} /\ n \in Nat
  BY LenProperties, MarkerLength
<1>2. s \in Seq(Byte) /\ Len(s) = Len(all) - n
  BY DropIs
<1>3. \A i \in Nat : n + i + AsmLen <= Len(all) => (IsMarker(s, i) <=> IsMarker(all, n + i))
  BY MarkerBehind
<1> HIDE DEF s
<1>4. ASSUME Found(s) = {} PROVE Clear(all, n)
  <2> SUFFICES ASSUME NEW i \in n .. Len(all) - AsmLen PROVE ~IsMarker(all, i)
    BY DEF Clear
  <2>1. /\ i - n \in Nat /\ n + (i - n) + AsmLen <= Len(all) /\ n + (i - n) = i
        /\ (i - n) + AsmLen <= Len(s)
    BY <1>1, <1>2
  <2>2. ~IsMarker(s, i - n)
    BY <1>2, <1>4, <2>1, NoneFound
  <2>3. IsMarker(s, i - n) <=> IsMarker(all, n + (i - n))
    BY <1>3, <2>1
  <2>4. QED BY <2>1, <2>2, <2>3
<1>5. ASSUME Found(s) # {} PROVE FirstAt(all, n, n + First(s))
  <2>1. /\ First(s) \in Nat /\ First(s) + AsmLen <= Len(s) /\ IsMarker(s, First(s))
        /\ \A i \in Nat : i < First(s) => ~IsMarker(s, i)
    BY <1>2, <1>5, FirstIsFirst
  <2>2. n + First(s) \in n .. Len(all) - AsmLen /\ n + First(s) + AsmLen <= Len(all)
    BY <1>1, <1>2, <2>1
  <2>3. IsMarker(all, n + First(s))
    BY <1>3, <2>1, <2>2
  <2>4. ASSUME NEW i \in n .. (n + First(s)) - 1 PROVE ~IsMarker(all, i)
    <3>1. /\ i - n \in Nat /\ i - n < First(s) /\ n + (i - n) + AsmLen <= Len(all)
          /\ n + (i - n) = i
      BY <1>1, <1>2, <2>1
    <3>2. IsMarker(s, i - n) <=> IsMarker(all, n + (i - n))
      BY <1>3, <3>1
    <3>3. QED BY <2>1, <3>1, <3>2
  <2>5. QED BY <2>2, <2>3, <2>4 DEF FirstAt
<1>6. ASSUME Found(s) # {} PROVE ~Clear(all, n)
  BY <1>5, <1>6 DEF FirstAt, Clear
<1>7. QED BY <1>4, <1>5, <1>6 DEF s

LEMMA FirstAtOnce ==
    ASSUME NEW all \in Seq(Byte), NEW n \in 0 .. Len(all), NEW q, NEW r,
           FirstAt(all, n, q), FirstAt(all, n, r)
    PROVE  q = r
<1>1. Len(all) \in Nat /\ AsmLen \in Nat
  BY LenProperties, MarkerLength
<1>2. q \in Int /\ r \in Int /\ n <= q /\ n <= r /\ IsMarker(all, q) /\ IsMarker(all, r)
  BY <1>1 DEF FirstAt
<1>3. ~(q < r) /\ ~(r < q)
  BY <1>1, <1>2 DEF FirstAt
<1>4. QED BY <1>2, <1>3

LEMMA ClearOrFirst ==
    ASSUME NEW all \in Seq(Byte), NEW n \in 0 .. Len(all)
    PROVE  Clear(all, n) \/ \E q : FirstAt(all, n, q)
BY MarkersBehind

LEMMA FirstAtRange ==
    ASSUME NEW all \in Seq(Byte), NEW n \in 0 .. Len(all), NEW q, FirstAt(all, n, q)
    PROVE  /\ q \in Nat /\ n <= q /\ q + AsmLen <= Len(all) /\ q \in 0 .. Len(all)
           /\ q + AsmLen + FrameLen <= Len(all) =>
                EndAt(all, q) \in q + 1 .. Len(all) /\ Got(all, q) \in Seq(0 .. MaxFrames)
<1>1. Len(all) \in Nat /\ AsmLen \in Nat \ {0} /\ FrameLen \in Nat \ {0} /\ n \in Nat
  BY LenProperties, MarkerLength
<1>2. q \in Nat /\ n <= q /\ q + AsmLen <= Len(all)
  BY <1>1 DEF FirstAt
<1>3. ASSUME q + AsmLen + FrameLen <= Len(all)
      PROVE  EndAt(all, q) \in q + 1 .. Len(all) /\ Got(all, q) \in Seq(0 .. MaxFrames)
  <2>1. EndAt(all, q) \in q + 1 .. Len(all)
    BY <1>1, <1>2, <1>3 DEF EndAt
  <2>2. all[q + AsmLen + 1].frame \in 0 .. MaxFrames
    <3>1. q + AsmLen + 1 \in 1 .. Len(all)
      BY <1>1, <1>2, <1>3
    <3>2. all[q + AsmLen + 1] \in Byte
      BY <3>1, ElementOfSeq
    <3>3. QED BY <3>2 DEF Byte
  <2>3. <<all[q + AsmLen + 1].frame>> \in Seq(0 .. MaxFrames) /\ <<>> \in Seq(0 .. MaxFrames)
    BY <2>2
  <2>4. QED BY <2>1, <2>3 DEF Got
<1>4. QED BY <1>1, <1>2, <1>3

LEMMA TurnNone ==
    ASSUME NEW all \in Seq(Byte), NEW n \in 0 .. Len(all), NEW g, Clear(all, n)
    PROVE  /\ TailFrom(all, n) \in n .. Len(all)
           /\ Turn(all, g, n) = [handled |-> <<>>, stream |-> Drop(all, TailFrom(all, n)),
                                 discarded |-> TailFrom(all, n) - n]
<1> DEFINE s == Drop(all, n)
<1>1. Len(all) \in Nat /\ AsmLen \in Nat \ {0} /\ n \in Nat
  BY LenProperties, MarkerLength
<1>2. s \in Seq(Byte) /\ Len(s) = Len(all) - n /\ Found(s) = {}
  BY DropIs, MarkersBehind
<1> HIDE DEF s
<1>3. PICK d \in 0 .. Len(s) : /\ TailKept(s) = Drop(s, d)
                               /\ d = IF Len(s) > AsmLen - 1 THEN Len(s) - (AsmLen - 1) ELSE 0
  BY <1>2, TailKeptIs
<1>4. n + d = TailFrom(all, n) /\ d \in 0 .. Len(all) - n
  BY <1>1, <1>2, <1>3 DEF TailFrom
<1>5. TailKept(s) = Drop(all, n + d)
  BY <1>3, <1>4, DropTwice DEF s
<1>6. Len(TailKept(s)) = Len(s) - d
  BY <1>2, <1>3, DropIs
<1>7. Len(s) - Len(TailKept(s)) = TailFrom(all, n) - n
  <2>1. Len(s) \in Nat /\ d \in Nat /\ Len(s) - (Len(s) - d) = d
    BY <1>1, <1>2
  <2>2. Len(s) - Len(TailKept(s)) = d
    BY <1>6, <2>1
  <2>3. (n + d) - n = d
    BY <1>1, <2>1
  <2>4. QED BY <1>4, <2>2, <2>3
<1>8. Turn(all, g, n) = [handled |-> <<>>, stream |-> TailKept(s),
                         discarded |-> Len(s) - Len(TailKept(s))]
  BY <1>2 DEF Turn, s
<1>9. TailFrom(all, n) \in n .. Len(all)
  BY <1>1, <1>4
<1>10. QED BY <1>4, <1>5, <1>7, <1>8, <1>9

LEMMA TurnFound ==
    ASSUME NEW all \in Seq(Byte), NEW n \in 0 .. Len(all), NEW g, NEW q, FirstAt(all, n, q)
    PROVE  Turn(all, g, n) =
             IF q + AsmLen + FrameLen > Len(all)
             THEN [handled |-> <<>>, stream |-> Drop(all, q), discarded |-> q - n]
             ELSE [handled |-> Got(all, q) \o g[EndAt(all, q)].handled,
                   stream |-> g[EndAt(all, q)].stream,
                   discarded |-> (q - n) + g[EndAt(all, q)].discarded]
<1> DEFINE s == Drop(all, n)
<1>1. Len(all) \in Nat /\ AsmLen \in Nat \ {0} /\ FrameLen \in Nat \ {0} /\ n \in Nat
  BY LenProperties, MarkerLength
<1>2. /\ s \in Seq(Byte) /\ Len(s) = Len(all) - n /\ Found(s) # {}
      /\ \A i \in 1 .. Len(all) - n : s[i] = all[n + i]
  <2>1. /\ s \in Seq(Byte) /\ Len(s) = Len(all) - n
        /\ \A i \in 1 .. Len(all) - n : s[i] = all[n + i]
    BY DropIs
  <2>2. ~Clear(all, n)
    BY DEF Clear, FirstAt
  <2>3. Found(s) # {}
    BY <2>2, MarkersBehind
  <2>4. QED BY <2>1, <2>3
<1>3. q = n + First(s)
  BY <1>2, MarkersBehind, FirstAtOnce
<1>4. q \in Nat /\ n <= q /\ q + AsmLen <= Len(all)
  BY FirstAtRange
<1>5. First(s) \in Nat /\ First(s) + AsmLen <= Len(s)
  BY <1>2, FirstIsFirst
<1>6. First(s) = q - n
  BY <1>1, <1>3, <1>5
<1>7. Enough(s) <=> ~(q + AsmLen + FrameLen > Len(all))
  <2>1. Enough(s) <=> Len(s) >= First(s) + AsmLen + FrameLen
    BY DEF Enough, AsmLen
  <2> HIDE DEF s
  <2>2. QED BY <1>1, <1>2, <1>4, <1>6, <2>1
<1>8. CASE ~Enough(s)
  <2>1. Turn(all, g, n) = [handled |-> <<>>, stream |-> Drop(s, First(s)),
                           discarded |-> First(s)]
    BY <1>2, <1>8 DEF Turn
  <2>2. Drop(s, First(s)) = Drop(all, n + First(s))
    <3>1. First(s) \in 0 .. Len(all) - n
      BY <1>1, <1>2, <1>5
    <3>2. QED BY <3>1, DropTwice
  <2>3. QED BY <1>3, <1>6, <1>7, <1>8, <2>1, <2>2
<1>9. CASE Enough(s)
  <2>1. \A i \in 1 .. FrameLen : Candidate(s)[i] = all[q + AsmLen + i]
    <3> SUFFICES ASSUME NEW i \in 1 .. FrameLen PROVE Candidate(s)[i] = all[q + AsmLen + i]
      OBVIOUS
    <3>1. /\ First(s) + AsmLen + i \in 1 .. Len(s)
          /\ Candidate(s)[i] = s[First(s) + AsmLen + i]
      BY <1>2, <1>9, CandidateIs
    <3> HIDE DEF s
    <3>2. s[First(s) + AsmLen + i] = all[n + (First(s) + AsmLen + i)]
      BY <1>2, <3>1
    <3>3. n + (First(s) + AsmLen + i) = q + AsmLen + i
      BY <1>1, <1>3, <1>5
    <3>4. QED BY <3>1, <3>2, <3>3
  <2>2. 1 \in 1 .. FrameLen
    BY <1>1
  <2>3. Passes(Candidate(s)) <=> FrameAt(all, q)
    BY <2>1, <2>2 DEF Passes, FrameAt
  <2>4. n + First(s) + (IF Passes(Candidate(s)) THEN Len(Marker) + FrameLen ELSE 1) = EndAt(all, q)
    BY <1>3, <2>3 DEF EndAt, AsmLen
  <2>5. (IF Passes(Candidate(s)) THEN <<Candidate(s)[1].frame>> ELSE <<>>) = Got(all, q)
    BY <2>1, <2>2, <2>3 DEF Got
  <2>6. Turn(all, g, n) =
          [handled |-> (IF Passes(Candidate(s)) THEN <<Candidate(s)[1].frame>> ELSE <<>>)
                         \o g[EndAt(all, q)].handled,
           stream |-> g[EndAt(all, q)].stream,
           discarded |-> First(s) + g[EndAt(all, q)].discarded]
    BY <1>2, <1>9, <2>4 DEF Turn
  <2>7. QED BY <1>6, <1>7, <1>9, <2>5, <2>6
<1>10. QED BY <1>8, <1>9

\* A turn reads what is found further on, and nothing else.
LEMMA TurnReads ==
    ASSUME NEW all \in Seq(Byte), NEW n \in 0 .. Len(all), NEW g, NEW h,
           \A k \in n + 1 .. Len(all) : g[k] = h[k]
    PROVE  Turn(all, g, n) = Turn(all, h, n)
<1>1. CASE Clear(all, n)
  <2>1. /\ Turn(all, g, n) = [handled |-> <<>>, stream |-> Drop(all, TailFrom(all, n)),
                              discarded |-> TailFrom(all, n) - n]
        /\ Turn(all, h, n) = [handled |-> <<>>, stream |-> Drop(all, TailFrom(all, n)),
                              discarded |-> TailFrom(all, n) - n]
    BY <1>1, TurnNone
  <2>2. QED BY <2>1
<1>2. CASE ~Clear(all, n)
  <2>1. PICK q : FirstAt(all, n, q)
    BY <1>2, ClearOrFirst
  <2>2. /\ q \in Nat /\ n <= q /\ q + AsmLen <= Len(all)
        /\ q + AsmLen + FrameLen <= Len(all) => EndAt(all, q) \in q + 1 .. Len(all)
        /\ Len(all) \in Nat /\ AsmLen \in Nat /\ FrameLen \in Nat
    BY <2>1, FirstAtRange, LenProperties, MarkerLength
  <2>3. CASE q + AsmLen + FrameLen > Len(all)
    <3>1. /\ Turn(all, g, n) = [handled |-> <<>>, stream |-> Drop(all, q), discarded |-> q - n]
          /\ Turn(all, h, n) = [handled |-> <<>>, stream |-> Drop(all, q), discarded |-> q - n]
      BY <2>1, <2>3, TurnFound
    <3>2. QED BY <3>1
  <2>4. CASE ~(q + AsmLen + FrameLen > Len(all))
    <3>1. EndAt(all, q) \in n + 1 .. Len(all)
      BY <2>2, <2>4
    <3>2. g[EndAt(all, q)] = h[EndAt(all, q)]
      BY <3>1
    <3>3. /\ Turn(all, g, n) = [handled |-> Got(all, q) \o g[EndAt(all, q)].handled,
                                stream |-> g[EndAt(all, q)].stream,
                                discarded |-> (q - n) + g[EndAt(all, q)].discarded]
          /\ Turn(all, h, n) = [handled |-> Got(all, q) \o h[EndAt(all, q)].handled,
                                stream |-> h[EndAt(all, q)].stream,
                                discarded |-> (q - n) + h[EndAt(all, q)].discarded]
      BY <2>1, <2>4, TurnFound
    <3>4. QED BY <3>2, <3>3
  <2>5. QED BY <2>3, <2>4
<1>3. QED BY <1>1, <1>2

\* There is a search: one from n on, given one from each position further on.
LEMMA SearchesExist ==
    ASSUME NEW all \in Seq(Byte)
    PROVE  \E g : g = [n \in 0 .. Len(all) |-> Turn(all, g, n)]
<1> DEFINE L == Len(all)
           From(g, n) == g = [k \in n .. L |-> Turn(all, g, k)]
           G == {n \in 0 .. L : \E g : From(g, n)}
<1>1. L \in Nat
  BY LenProperties
<1>2. ASSUME NEW n \in 0 .. L, \A k \in n + 1 .. L : k \in G PROVE n \in G
  <2>1. PICK g : n < L => From(g, n + 1)
    <3>1. CASE n < L
      <4>1. n + 1 \in n + 1 .. L
        BY <1>1, <3>1
      <4>2. n + 1 \in G
        BY <1>2, <4>1
      <4>3. QED BY <4>2
    <3>2. QED BY <3>1
  <2> DEFINE h == [k \in n .. L |-> IF k = n THEN Turn(all, g, n) ELSE g[k]]
  <2>2. \A k \in n + 1 .. L : /\ k \in n .. L /\ k # n /\ n < L /\ k \in 0 .. L
                              /\ \A i \in k + 1 .. L : i \in n + 1 .. L
    BY <1>1
  <2>3. \A k \in n + 1 .. L : h[k] = g[k]
    BY <2>2
  <2>4. \A k \in n + 1 .. L : g[k] = Turn(all, g, k)
    <3> HIDE DEF h
    <3> SUFFICES ASSUME NEW k \in n + 1 .. L PROVE g[k] = Turn(all, g, k)
      OBVIOUS
    <3>1. g = [i \in n + 1 .. L |-> Turn(all, g, i)]
      BY <2>1, <2>2
    <3> DEFINE f == [i \in n + 1 .. L |-> Turn(all, g, i)]
    <3>2. f[k] = Turn(all, g, k)
      OBVIOUS
    <3>3. g = f
      BY <3>1
    <3> HIDE DEF f
    <3>4. QED BY <3>2, <3>3
  <2>5. h[n] = Turn(all, g, n)
    BY <1>1
  <2> HIDE DEF h
  <2>6. n \in n .. L /\ \A k \in n .. L : k = n \/ k \in n + 1 .. L
    BY <1>1
  <2>7. \A k \in n .. L : h[k] = Turn(all, h, k)
    <3> SUFFICES ASSUME NEW k \in n .. L PROVE h[k] = Turn(all, h, k)
      OBVIOUS
    <3>1. CASE k = n
      <4>1. Turn(all, h, n) = Turn(all, g, n)
        BY <2>3, TurnReads
      <4>2. QED BY <2>5, <3>1, <4>1
    <3>2. CASE k \in n + 1 .. L
      <4>1. \A i \in k + 1 .. L : h[i] = g[i]
        BY <2>2, <2>3, <3>2
      <4>2. k \in 0 .. L
        BY <2>2, <3>2
      <4>3. Turn(all, h, k) = Turn(all, g, k)
        BY <4>1, <4>2, TurnReads
      <4>4. QED BY <2>3, <2>4, <3>2, <4>3
    <3>3. QED BY <2>6, <3>1, <3>2
  <2>8. h = [k \in n .. L |-> h[k]]
    BY DEF h
  <2>9. From(h, n)
    BY <2>7, <2>8
  <2>10. QED BY <2>9
<1>3. 0 \in G
  <2>1. 0 \in 0 .. L
    BY <1>1
  <2> HIDE DEF G
  <2>2. \A n \in 0 .. L : n \in G
    BY <1>1, <1>2, Backwards
  <2>3. QED BY <2>1, <2>2
<1>4. QED BY <1>3

LEMMA SearchIs ==
    ASSUME NEW all \in Seq(Byte), NEW n \in 0 .. Len(all)
    PROVE  Searches(all)[n] = Turn(all, Searches(all), n)
<1> DEFINE f == [k \in 0 .. Len(all) |-> Turn(all, Searches(all), k)]
<1>1. Searches(all) = f
  BY SearchesExist DEF Searches
<1>2. f[n] = Turn(all, Searches(all), n)
  OBVIOUS
<1> HIDE DEF f
<1>3. QED BY <1>1, <1>2

\* What a search finds is well formed, and what it keeps is the end of the bytes.
Kept(all, n) == Len(all) - Len(Searches(all)[n].stream)
WellFound(all, n) ==
    /\ Searches(all)[n].handled \in Seq(0 .. MaxFrames)
    /\ Searches(all)[n].discarded \in Nat
    /\ Kept(all, n) \in n .. Len(all)
    /\ Searches(all)[n].stream = Drop(all, Kept(all, n))

LEMMA KeptFrom ==
    ASSUME NEW all \in Seq(Byte), NEW n \in 0 .. Len(all), NEW p \in 0 .. Len(all),
           Searches(all)[n].stream = Drop(all, p)
    PROVE  Kept(all, n) = p
<1>1. Len(Drop(all, p)) = Len(all) - p /\ Len(all) \in Nat
  BY DropIs, LenProperties
<1>2. QED BY <1>1 DEF Kept

LEMMA SearchTypes ==
    ASSUME NEW all \in Seq(Byte)
    PROVE  \A n \in 0 .. Len(all) : WellFound(all, n)
<1> DEFINE L == Len(all)
           R == Searches(all)
           G == {n \in 0 .. L : WellFound(all, n)}
<1>1. L \in Nat /\ AsmLen \in Nat /\ FrameLen \in Nat
  BY LenProperties, MarkerLength
<1>2. ASSUME NEW n \in 0 .. L, \A k \in n + 1 .. L : k \in G PROVE n \in G
  <2>1. R[n] = Turn(all, R, n)
    BY SearchIs
  <2>2. CASE Clear(all, n)
    <3>1. /\ TailFrom(all, n) \in n .. L
          /\ R[n].handled = <<>> /\ R[n].stream = Drop(all, TailFrom(all, n))
          /\ R[n].discarded = TailFrom(all, n) - n
      BY <2>1, <2>2, TurnNone
    <3>2. TailFrom(all, n) \in 0 .. L /\ TailFrom(all, n) - n \in Nat
      BY <1>1, <3>1
    <3>3. Kept(all, n) = TailFrom(all, n)
      BY <3>1, <3>2, KeptFrom
    <3>4. QED BY <3>1, <3>2, <3>3, EmptySeq DEF WellFound
  <2>3. CASE ~Clear(all, n)
    <3>1. PICK q : FirstAt(all, n, q)
      BY <2>3, ClearOrFirst
    <3>2. /\ q \in Nat /\ n <= q /\ q + AsmLen <= L /\ q \in 0 .. L
          /\ q + AsmLen + FrameLen <= L =>
               EndAt(all, q) \in q + 1 .. L /\ Got(all, q) \in Seq(0 .. MaxFrames)
      BY <3>1, FirstAtRange
    <3>3. CASE q + AsmLen + FrameLen > L
      <4>1. R[n].handled = <<>> /\ R[n].stream = Drop(all, q) /\ R[n].discarded = q - n
        <5>1. R[n] = [handled |-> <<>>, stream |-> Drop(all, q), discarded |-> q - n]
          BY <2>1, <3>1, <3>3, TurnFound
        <5>2. QED BY <5>1
      <4>2. Kept(all, n) = q
        BY <3>2, <4>1, KeptFrom
      <4>3. q \in n .. L /\ q - n \in Nat
        BY <1>1, <3>2
      <4>4. QED BY <4>1, <4>2, <4>3, EmptySeq DEF WellFound
    <3>4. CASE ~(q + AsmLen + FrameLen > L)
      <4> DEFINE e == EndAt(all, q)
      <4>1. R[n] = [handled |-> Got(all, q) \o R[e].handled, stream |-> R[e].stream,
                    discarded |-> (q - n) + R[e].discarded]
        BY <2>1, <3>1, <3>4, TurnFound
      <4>2. e \in q + 1 .. L /\ Got(all, q) \in Seq(0 .. MaxFrames)
        BY <1>1, <3>2, <3>4
      <4> HIDE DEF e
      <4>3. e \in n + 1 .. L
        BY <1>1, <3>2, <4>2
      <4>4. WellFound(all, e)
        BY <1>2, <4>3
      <4>5. /\ R[e].handled \in Seq(0 .. MaxFrames) /\ R[e].discarded \in Nat
            /\ Kept(all, e) \in e .. L /\ R[e].stream = Drop(all, Kept(all, e))
        BY <4>4 DEF WellFound
      <4>6. Kept(all, n) = Kept(all, e)
        BY <4>1 DEF Kept
      <4>7. Kept(all, n) \in n .. L /\ (q - n) + R[e].discarded \in Nat
        <5>1. n \in Nat /\ q - n \in Nat
          BY <1>1, <3>2
        <5>2. Kept(all, e) \in n .. L
          BY <1>1, <4>3, <4>5, <5>1
        <5>3. QED BY <4>5, <4>6, <5>1, <5>2
      <4>8. Got(all, q) \o R[e].handled \in Seq(0 .. MaxFrames)
        BY <4>2, <4>5, ConcatProperties
      <4>9. /\ R[n].handled = Got(all, q) \o R[e].handled /\ R[n].stream = R[e].stream
            /\ R[n].discarded = (q - n) + R[e].discarded
        BY <4>1
      <4>10. QED BY <4>5, <4>6, <4>7, <4>8, <4>9 DEF WellFound
    <3>5. QED BY <3>3, <3>4
  <2>4. QED BY <2>2, <2>3
<1> HIDE DEF G
<1>3. \A n \in 0 .. L : n \in G
  BY <1>1, <1>2, Backwards
<1>4. QED BY <1>3 DEF G

-----------------------------------------------------------------------------
(* Cutting the bytes in two makes no difference to a search. *)

\* What a search from n on finds, by what comes first.
LEMMA SearchNone ==
    ASSUME NEW all \in Seq(Byte), NEW n \in 0 .. Len(all), Clear(all, n)
    PROVE  /\ Searches(all)[n].handled = <<>>
           /\ Searches(all)[n].stream = Drop(all, TailFrom(all, n))
           /\ Searches(all)[n].discarded = TailFrom(all, n) - n
           /\ Kept(all, n) = TailFrom(all, n) /\ TailFrom(all, n) \in n .. Len(all)
<1>1. Len(all) \in Nat
  BY LenProperties
<1>2. /\ TailFrom(all, n) \in n .. Len(all)
      /\ Searches(all)[n] = [handled |-> <<>>, stream |-> Drop(all, TailFrom(all, n)),
                             discarded |-> TailFrom(all, n) - n]
  BY SearchIs, TurnNone
<1>3. Searches(all)[n].stream = Drop(all, TailFrom(all, n)) /\ TailFrom(all, n) \in 0 .. Len(all)
  BY <1>1, <1>2
<1>4. Kept(all, n) = TailFrom(all, n)
  BY <1>3, KeptFrom
<1>5. QED BY <1>2, <1>4

LEMMA SearchShort ==
    ASSUME NEW all \in Seq(Byte), NEW n \in 0 .. Len(all), NEW q, FirstAt(all, n, q),
           q + AsmLen + FrameLen > Len(all)
    PROVE  /\ Searches(all)[n].handled = <<>> /\ Searches(all)[n].stream = Drop(all, q)
           /\ Searches(all)[n].discarded = q - n /\ Kept(all, n) = q
<1>1. Searches(all)[n] = [handled |-> <<>>, stream |-> Drop(all, q), discarded |-> q - n]
  BY SearchIs, TurnFound
<1>2. q \in 0 .. Len(all)
  BY FirstAtRange
<1>3. Searches(all)[n].stream = Drop(all, q)
  BY <1>1
<1>4. Kept(all, n) = q
  BY <1>2, <1>3, KeptFrom
<1>5. QED BY <1>1, <1>4

LEMMA SearchFrame ==
    ASSUME NEW all \in Seq(Byte), NEW n \in 0 .. Len(all), NEW q, FirstAt(all, n, q),
           ~(q + AsmLen + FrameLen > Len(all))
    PROVE  /\ Searches(all)[n].handled = Got(all, q) \o Searches(all)[EndAt(all, q)].handled
           /\ Searches(all)[n].stream = Searches(all)[EndAt(all, q)].stream
           /\ Searches(all)[n].discarded = (q - n) + Searches(all)[EndAt(all, q)].discarded
           /\ Kept(all, n) = Kept(all, EndAt(all, q))
<1>1. Searches(all)[n] =
        [handled |-> Got(all, q) \o Searches(all)[EndAt(all, q)].handled,
         stream |-> Searches(all)[EndAt(all, q)].stream,
         discarded |-> (q - n) + Searches(all)[EndAt(all, q)].discarded]
  <2> DEFINE R == Searches(all)
  <2>1. R[n] = Turn(all, R, n)
    BY SearchIs
  <2> HIDE DEF R
  <2>2. R[n] = [handled |-> Got(all, q) \o R[EndAt(all, q)].handled,
                stream |-> R[EndAt(all, q)].stream,
                discarded |-> (q - n) + R[EndAt(all, q)].discarded]
    BY <2>1, TurnFound
  <2>3. QED BY <2>2 DEF R
<1>2. QED BY <1>1 DEF Kept

\* Bytes before the first marker may be left out.
LEMMA Skip ==
    ASSUME NEW all \in Seq(Byte), NEW n \in 0 .. Len(all), NEW p \in n .. Len(all),
           \A i \in n .. p - 1 : i + AsmLen <= Len(all) => ~IsMarker(all, i),
           p = n \/ p + (AsmLen - 1) <= Len(all)
    PROVE  /\ Searches(all)[n].handled = Searches(all)[p].handled
           /\ Searches(all)[n].stream = Searches(all)[p].stream
           /\ Searches(all)[n].discarded = (p - n) + Searches(all)[p].discarded
<1> DEFINE L == Len(all)
           R == Searches(all)
<1>1. L \in Nat /\ AsmLen \in Nat \ {0} /\ FrameLen \in Nat \ {0} /\ n \in Nat /\ p \in Nat
  BY LenProperties, MarkerLength
<1>2. p \in 0 .. L
  BY <1>1
<1>3. CASE Clear(all, p)
  <2>1. Clear(all, n)
    <3> SUFFICES ASSUME NEW i \in n .. L - AsmLen PROVE ~IsMarker(all, i)
      BY DEF Clear
    <3>1. CASE i < p
      <4>1. i \in n .. p - 1 /\ i + AsmLen <= L
        BY <1>1, <3>1
      <4>2. QED BY <4>1
    <3>2. CASE ~(i < p)
      <4>1. i \in p .. L - AsmLen
        BY <1>1, <3>2
      <4>2. QED BY <1>3, <4>1 DEF Clear
    <3>3. QED BY <3>1, <3>2
  <2>2. /\ R[n].handled = <<>> /\ R[n].stream = Drop(all, TailFrom(all, n))
        /\ R[n].discarded = TailFrom(all, n) - n /\ TailFrom(all, n) \in n .. L
    BY <2>1, SearchNone
  <2>3. /\ R[p].handled = <<>> /\ R[p].stream = Drop(all, TailFrom(all, p))
        /\ R[p].discarded = TailFrom(all, p) - p /\ TailFrom(all, p) \in p .. L
    BY <1>2, <1>3, SearchNone
  <2>4. TailFrom(all, n) = TailFrom(all, p)
    BY <1>1 DEF TailFrom
  <2>5. TailFrom(all, p) - n = (p - n) + (TailFrom(all, p) - p)
    BY <1>1, <2>3
  <2>6. QED BY <2>2, <2>3, <2>4, <2>5
<1>4. CASE ~Clear(all, p)
  <2>1. PICK q : FirstAt(all, p, q)
    BY <1>2, <1>4, ClearOrFirst
  <2>2. /\ q \in Nat /\ p <= q /\ q + AsmLen <= L /\ q \in 0 .. L
        /\ q + AsmLen + FrameLen <= L =>
             EndAt(all, q) \in q + 1 .. L /\ Got(all, q) \in Seq(0 .. MaxFrames)
    BY <1>2, <2>1, FirstAtRange
  <2>3. FirstAt(all, n, q)
    <3>1. q \in n .. L - AsmLen /\ IsMarker(all, q)
      BY <1>1, <2>1, <2>2 DEF FirstAt
    <3>2. ASSUME NEW i \in n .. q - 1 PROVE ~IsMarker(all, i)
      <4>1. CASE i < p
        <5>1. i \in n .. p - 1 /\ i + AsmLen <= L
          BY <1>1, <2>2, <4>1
        <5>2. QED BY <5>1
      <4>2. CASE ~(i < p)
        <5>1. i \in p .. q - 1
          BY <1>1, <2>2, <4>2
        <5>2. QED BY <2>1, <5>1 DEF FirstAt
      <4>3. QED BY <4>1, <4>2
    <3>3. QED BY <3>1, <3>2 DEF FirstAt
  <2>4. CASE q + AsmLen + FrameLen > L
    <3>1. /\ R[n].handled = <<>> /\ R[n].stream = Drop(all, q) /\ R[n].discarded = q - n
      BY <2>3, <2>4, SearchShort
    <3>2. /\ R[p].handled = <<>> /\ R[p].stream = Drop(all, q) /\ R[p].discarded = q - p
      BY <1>2, <2>1, <2>4, SearchShort
    <3>3. q - n = (p - n) + (q - p)
      BY <1>1, <2>2
    <3>4. QED BY <3>1, <3>2, <3>3
  <2>5. CASE ~(q + AsmLen + FrameLen > L)
    <3> DEFINE e == EndAt(all, q)
    <3>1. /\ R[n].handled = Got(all, q) \o R[e].handled /\ R[n].stream = R[e].stream
          /\ R[n].discarded = (q - n) + R[e].discarded
      BY <2>3, <2>5, SearchFrame
    <3>2. /\ R[p].handled = Got(all, q) \o R[e].handled /\ R[p].stream = R[e].stream
          /\ R[p].discarded = (q - p) + R[e].discarded
      BY <1>2, <2>1, <2>5, SearchFrame
    <3>3. R[e].discarded \in Nat
      <4>1. e \in 0 .. L
        BY <1>1, <2>2, <2>5
      <4>2. QED BY <4>1, SearchTypes DEF WellFound
    <3>4. (q - n) + R[e].discarded = (p - n) + ((q - p) + R[e].discarded)
      <4> DEFINE x == R[e].discarded
      <4>1. x \in Nat
        BY <3>3
      <4> HIDE DEF x
      <4>2. (q - n) + x = (p - n) + ((q - p) + x)
        BY <1>1, <2>2, <4>1
      <4>3. QED BY <4>2 DEF x
    <3>5. QED BY <3>1, <3>2, <3>4
  <2>6. QED BY <2>4, <2>5
<1>5. QED BY <1>3, <1>4

\* b goes on where a ends.
Continues(a, b) == Len(a) <= Len(b) /\ \A i \in 1 .. Len(a) : b[i] = a[i]

LEMMA ContinuesMarkers ==
    ASSUME NEW a \in Seq(Byte), NEW b \in Seq(Byte), Continues(a, b),
           NEW i \in Nat, i + AsmLen <= Len(a)
    PROVE  IsMarker(b, i) <=> IsMarker(a, i)
<1>1. Len(a) \in Nat /\ AsmLen \in Nat
  BY LenProperties, MarkerLength
<1>2. \A k \in 1 .. Len(Marker) : b[i + k] = a[i + k]
  <2> SUFFICES ASSUME NEW k \in 1 .. AsmLen PROVE b[i + k] = a[i + k]
    BY DEF AsmLen
  <2>1. i + k \in 1 .. Len(a)
    BY <1>1
  <2>2. QED BY <2>1 DEF Continues
<1>3. QED BY <1>2 DEF IsMarker

LEMMA ContinuesFrames ==
    ASSUME NEW a \in Seq(Byte), NEW b \in Seq(Byte), Continues(a, b),
           NEW q \in Nat, q + AsmLen + FrameLen <= Len(a)
    PROVE  EndAt(b, q) = EndAt(a, q) /\ Got(b, q) = Got(a, q)
<1>1. Len(a) \in Nat /\ AsmLen \in Nat /\ FrameLen \in Nat \ {0}
  BY LenProperties, MarkerLength
<1>2. \A k \in 1 .. FrameLen : b[q + AsmLen + k] = a[q + AsmLen + k]
  <2> SUFFICES ASSUME NEW k \in 1 .. FrameLen PROVE b[q + AsmLen + k] = a[q + AsmLen + k]
    OBVIOUS
  <2>1. q + AsmLen + k \in 1 .. Len(a)
    BY <1>1
  <2>2. QED BY <2>1 DEF Continues
<1>3. 1 \in 1 .. FrameLen
  BY <1>1
<1>4. (FrameAt(b, q) <=> FrameAt(a, q)) /\ b[q + AsmLen + 1] = a[q + AsmLen + 1]
  BY <1>2, <1>3 DEF FrameAt
<1>5. QED BY <1>4 DEF EndAt, Got

\* A search of all the bytes finds what one of the first of them finds, and then
\* what one finds from where that stopped.
LEMMA Cut ==
    ASSUME NEW a \in Seq(Byte), NEW b \in Seq(Byte), Continues(a, b)
    PROVE  \A n \in 0 .. Len(a) :
              LET p == Kept(a, n) IN
              /\ Searches(b)[n].handled = Searches(a)[n].handled \o Searches(b)[p].handled
              /\ Searches(b)[n].discarded = Searches(a)[n].discarded + Searches(b)[p].discarded
              /\ Searches(b)[n].stream = Searches(b)[p].stream
<1> DEFINE L == Len(a)
           A == Searches(a)
           B == Searches(b)
           P(n) == LET p == Kept(a, n) IN
                   /\ B[n].handled = A[n].handled \o B[p].handled
                   /\ B[n].discarded = A[n].discarded + B[p].discarded
                   /\ B[n].stream = B[p].stream
           G == {n \in 0 .. L : P(n)}
<1>1. /\ L \in Nat /\ Len(b) \in Nat /\ L <= Len(b)
      /\ AsmLen \in Nat \ {0} /\ FrameLen \in Nat \ {0}
  BY LenProperties, MarkerLength DEF Continues
<1>2. /\ \A n \in 0 .. L : WellFound(a, n)
      /\ \A n \in 0 .. L : n \in 0 .. Len(b) /\ WellFound(b, n)
  BY <1>1, SearchTypes
\* Without a frame, the bytes up to where it stopped are passed once more.
<1>3. ASSUME NEW n \in 0 .. L, NEW p \in n .. L, p = Kept(a, n),
             A[n].handled = <<>>, A[n].discarded = p - n,
             \A i \in n .. p - 1 : i + AsmLen <= L /\ ~IsMarker(a, i),
             p = n \/ p + (AsmLen - 1) <= L
      PROVE  P(n)
  <2>1. n \in 0 .. Len(b) /\ p \in n .. Len(b) /\ p \in 0 .. L /\ n \in Nat
    BY <1>1
  <2>2. ASSUME NEW i \in n .. p - 1, i + AsmLen <= Len(b) PROVE ~IsMarker(b, i)
    <3>1. i \in Nat /\ i + AsmLen <= Len(a) /\ ~IsMarker(a, i)
      BY <1>3, <2>1
    <3>2. QED BY <3>1, ContinuesMarkers
  <2>3. p = n \/ p + (AsmLen - 1) <= Len(b)
    BY <1>1, <1>3, <2>1
  <2>4. /\ B[n].handled = B[p].handled /\ B[n].stream = B[p].stream
        /\ B[n].discarded = (p - n) + B[p].discarded
    BY <2>1, <2>2, <2>3, Skip
  <2>5. B[p].handled \in Seq(0 .. MaxFrames)
    BY <1>2, <2>1 DEF WellFound
  <2>6. <<>> \o B[p].handled = B[p].handled
    BY <2>5, ConcatEmptySeq
  <2> HIDE DEF A, B
  <2>7. QED BY <1>3, <2>4, <2>6
<1>4. ASSUME NEW n \in 0 .. L, \A k \in n + 1 .. L : k \in G PROVE n \in G
  <2>1. CASE Clear(a, n)
    <3> DEFINE p == TailFrom(a, n)
    <3>1. /\ A[n].handled = <<>> /\ A[n].discarded = p - n
          /\ Kept(a, n) = p /\ p \in n .. L
      BY <2>1, SearchNone
    <3>2. (p = n \/ p + (AsmLen - 1) = L) /\ (p > n => p + (AsmLen - 1) = L)
      BY <1>1 DEF TailFrom
    <3> HIDE DEF p
    <3>3. ASSUME NEW i \in n .. p - 1 PROVE i + AsmLen <= L /\ ~IsMarker(a, i)
      <4>1. i \in n .. L - AsmLen /\ i + AsmLen <= L
        BY <1>1, <3>1, <3>2
      <4>2. QED BY <2>1, <4>1 DEF Clear
    <3>4. p = n \/ p + (AsmLen - 1) <= L
      BY <1>1, <3>2
    <3> HIDE DEF P
    <3>5. P(n)
      BY <1>3, <3>1, <3>3, <3>4
    <3>6. QED BY <3>5
  <2>2. CASE ~Clear(a, n)
    <3>1. PICK q : FirstAt(a, n, q)
      BY <2>2, ClearOrFirst
    <3>2. /\ q \in Nat /\ n <= q /\ q + AsmLen <= L /\ q \in 0 .. L
          /\ q + AsmLen + FrameLen <= L =>
               EndAt(a, q) \in q + 1 .. L /\ Got(a, q) \in Seq(0 .. MaxFrames)
      BY <3>1, FirstAtRange
    <3>3. \A i \in n .. q - 1 : i + AsmLen <= L /\ ~IsMarker(a, i)
      BY <1>1, <3>1, <3>2 DEF FirstAt
    <3>4. CASE q + AsmLen + FrameLen > L
      <4>1. A[n].handled = <<>> /\ A[n].discarded = q - n /\ q = Kept(a, n)
        BY <3>1, <3>4, SearchShort
      <4>2. q \in n .. L /\ (q = n \/ q + (AsmLen - 1) <= L)
        BY <1>1, <3>2
      <4> HIDE DEF P
      <4>3. P(n)
        BY <1>3, <3>3, <4>1, <4>2
      <4>4. QED BY <4>3
    <3>5. CASE ~(q + AsmLen + FrameLen > L)
      <4> DEFINE e == EndAt(a, q)
                 g == Got(a, q)
                 p == Kept(a, e)
      <4>1. FirstAt(b, n, q)
        <5>1. q \in n .. Len(b) - AsmLen
          BY <1>1, <3>2
        <5>2. IsMarker(b, q)
          BY <3>1, <3>2, ContinuesMarkers DEF FirstAt
        <5>3. \A i \in n .. q - 1 : ~IsMarker(b, i)
          BY <1>1, <3>3, ContinuesMarkers
        <5>4. QED BY <5>1, <5>2, <5>3 DEF FirstAt
      <4>2. q + AsmLen + FrameLen <= L /\ ~(q + AsmLen + FrameLen > Len(b))
        BY <1>1, <3>2, <3>5
      <4>3. EndAt(b, q) = e /\ Got(b, q) = g
        BY <3>2, <4>2, ContinuesFrames
      <4>4. n \in 0 .. Len(b)
        BY <1>1
      <4>5. /\ A[n].handled = g \o A[e].handled /\ A[n].stream = A[e].stream
            /\ A[n].discarded = (q - n) + A[e].discarded /\ Kept(a, n) = p
        BY <3>1, <3>5, SearchFrame
      <4>6. /\ B[n].handled = g \o B[e].handled /\ B[n].stream = B[e].stream
            /\ B[n].discarded = (q - n) + B[e].discarded
        <5>1. /\ B[n].handled = Got(b, q) \o B[EndAt(b, q)].handled
              /\ B[n].stream = B[EndAt(b, q)].stream
              /\ B[n].discarded = (q - n) + B[EndAt(b, q)].discarded
          BY <4>1, <4>2, <4>4, SearchFrame
        <5> HIDE DEF e, g, B
        <5>2. QED BY <4>3, <5>1
      <4>7. g \in Seq(0 .. MaxFrames) /\ e \in n + 1 .. L /\ e \in 0 .. L /\ q - n \in Nat
        BY <1>1, <3>2, <4>2
      <4> HIDE DEF e, g, p
      <4>8. P(e)
        BY <1>4, <4>7
      <4>9. /\ A[e].handled \in Seq(0 .. MaxFrames) /\ A[e].discarded \in Nat
            /\ p \in e .. L
        BY <1>2, <4>7 DEF WellFound, p
      <4>10. p \in 0 .. L
        BY <1>1, <4>7, <4>9
      <4>11. B[p].handled \in Seq(0 .. MaxFrames) /\ B[p].discarded \in Nat
        BY <1>2, <4>10 DEF WellFound
      <4>12. /\ B[e].handled = A[e].handled \o B[p].handled
             /\ B[e].discarded = A[e].discarded + B[p].discarded
             /\ B[e].stream = B[p].stream
        BY <4>8 DEF p
      <4> HIDE DEF A, B
      <4>13. B[n].handled = A[n].handled \o B[p].handled
        <5>1. (g \o A[e].handled) \o B[p].handled = g \o (A[e].handled \o B[p].handled)
          BY <4>7, <4>9, <4>11, FramesInThree
        <5>2. QED BY <4>5, <4>6, <4>12, <5>1
      <4>14. B[n].discarded = A[n].discarded + B[p].discarded
        <5>1. /\ A[n].discarded = (q - n) + A[e].discarded
              /\ B[n].discarded = (q - n) + (A[e].discarded + B[p].discarded)
          BY <4>5, <4>6, <4>12
        <5>2. (q - n) + (A[e].discarded + B[p].discarded) =
                ((q - n) + A[e].discarded) + B[p].discarded
          <6>1. q - n \in Nat /\ A[e].discarded \in Nat /\ B[p].discarded \in Nat
            BY <4>7, <4>9, <4>11
          <6>2. QED BY <6>1
        <5>3. QED BY <5>1, <5>2
      <4>15. B[n].stream = B[p].stream
        BY <4>6, <4>12
      <4>16. P(n)
        BY <4>5, <4>13, <4>14, <4>15
      <4> HIDE DEF P
      <4>17. QED BY <4>16
    <3>6. QED BY <3>4, <3>5
  <2>3. QED BY <2>1, <2>2
<1> HIDE DEF G
<1>5. \A n \in 0 .. L : n \in G
  BY <1>1, <1>4, Backwards
<1>6. QED BY <1>5 DEF G

-----------------------------------------------------------------------------
(* The cuts between datagrams are invisible. *)

Standing ==
    /\ Typed /\ StreamOK /\ 0 \in 0 .. Len(seen) /\ Passed \in 0 .. Len(seen)
    /\ stream = Drop(seen, Passed) /\ WellFound(seen, 0) /\ WellFound(seen, Passed)

LEMMA StandingHolds == FoundInv => Standing
<1> SUFFICES ASSUME FoundInv PROVE Standing
  OBVIOUS
<1>1. /\ Typed /\ StreamOK /\ Len(seen) \in Nat /\ Passed \in Nat
      /\ Passed + Len(stream) = Len(seen) /\ stream = Drop(seen, Passed) /\ Len(stream) \in Nat
  BY PassedIs DEF FoundInv
<1>2. 0 \in 0 .. Len(seen) /\ Passed \in 0 .. Len(seen)
  BY <1>1
<1>3. seen \in Seq(Byte)
  BY <1>1 DEF Typed
<1>4. QED BY <1>1, <1>2, <1>3, SearchTypes DEF Standing

\* Nothing was pushed since the last reset.
LEMMA NothingFound ==
    /\ Searches(<<>>)[0].handled = <<>> /\ Searches(<<>>)[0].stream = <<>>
    /\ Searches(<<>>)[0].discarded = 0
<1>1. <<>> \in Seq(Byte) /\ Len(<<>>) = 0 /\ 0 \in 0 .. Len(<<>>) /\ AsmLen \in Nat \ {0}
  BY MarkerLength
<1>2. Clear(<<>>, 0) /\ TailFrom(<<>>, 0) = 0
  BY <1>1 DEF Clear, TailFrom
<1>3. /\ Searches(<<>>)[0].handled = <<>>
      /\ Searches(<<>>)[0].stream = Drop(<<>>, TailFrom(<<>>, 0))
      /\ Searches(<<>>)[0].discarded = TailFrom(<<>>, 0) - 0
  BY <1>1, <1>2, SearchNone
<1>4. Drop(<<>>, 0) = <<>>
  <2>1. 1 \in Int /\ 0 \in Int /\ 0 < 1 /\ 0 + 1 = 1
    OBVIOUS
  <2>2. SubSeq(<<>>, 1, 0) = <<>>
    BY <2>1, SubSeqEmpty
  <2>3. QED BY <1>1, <2>1, <2>2 DEF Drop
<1>5. QED BY <1>2, <1>3, <1>4

LEMMA CutAtStart ==
    ASSUME seen = <<>>, stream = <<>>, pc = "ready",
           before = [handled |-> handled, discarded |-> discarded],
           NEW S, handled \in Seq(S), discarded \in Nat
    PROVE  CutInv
<1>1. handled \o <<>> = handled
  BY ConcatEmptySeq
<1>2. Len(stream) < Len(Marker) + FrameLen
  <2>1. Len(stream) = 0 /\ AsmLen \in Nat \ {0} /\ FrameLen \in Nat \ {0}
    BY MarkerLength
  <2>2. QED BY <2>1 DEF AsmLen
<1>3. QED BY <1>1, <1>2, NothingFound DEF CutInv, ScanOK, CutsInvisible, InOneGo

LEMMA CutPush ==
    ASSUME FoundInv, Typed', CutInv, Push PROVE CutInv'
<1>1. PICK n \in 1 .. Len(wire) : /\ stream' = stream \o SubSeq(wire, 1, n)
                                  /\ seen' = seen \o SubSeq(wire, 1, n)
  BY DEF Push
<1>2. /\ pc = "ready" /\ pc' = "scan"
      /\ handled' = handled /\ discarded' = discarded /\ before' = before
  BY DEF Push
<1>3. Standing
  BY StandingHolds
<1>4. /\ stream \in Seq(Byte) /\ seen \in Seq(Byte) /\ seen' \in Seq(Byte)
      /\ Len(seen) \in Nat /\ Len(stream) \in Nat /\ Typed
  BY <1>3, LenProperties DEF Standing, Typed
<1>5. Len(stream') = Len(stream) + n /\ Len(seen') = Len(seen) + n /\ n \in Nat
  BY <1>1, <1>4, Joined
<1>6. Passed' = Passed
  BY <1>4, <1>5 DEF Passed
<1>7. Continues(seen, seen')
  <2>1. \A i \in 1 .. Len(seen) : seen'[i] = seen[i]
    BY <1>1, <1>4, Joined
  <2>2. Len(seen) <= Len(seen')
    BY <1>4, <1>5
  <2>3. QED BY <2>1, <2>2 DEF Continues
<1>8. /\ handled = before.handled \o Searches(seen)[0].handled
      /\ discarded = before.discarded + Searches(seen)[0].discarded
      /\ stream = Searches(seen)[0].stream
  BY <1>2 DEF CutInv, CutsInvisible, InOneGo
<1>9. Kept(seen, 0) = Passed
  BY <1>8 DEF Kept, Passed
<1>10. PICK p : p = Passed /\ p \in 0 .. Len(seen) /\ p \in 0 .. Len(seen')
  <2>1. Passed \in 0 .. Len(seen) /\ Passed \in 0 .. Len(seen')
    BY <1>3, <1>4, <1>5 DEF Standing
  <2>2. QED BY <2>1
<1>11. /\ Searches(seen')[0].handled = Searches(seen)[0].handled \o Searches(seen')[p].handled
       /\ Searches(seen')[0].discarded =
            Searches(seen)[0].discarded + Searches(seen')[p].discarded
       /\ Searches(seen')[0].stream = Searches(seen')[p].stream
  <2>1. 0 \in 0 .. Len(seen) /\ Kept(seen, 0) = p
    BY <1>3, <1>9, <1>10 DEF Standing
  <2>2. QED BY <1>4, <1>7, <2>1, Cut
<1>12. /\ before.handled \in Seq(0 .. MaxFrames) /\ before.discarded \in Nat
       /\ Searches(seen)[0].handled \in Seq(0 .. MaxFrames)
       /\ Searches(seen)[0].discarded \in Nat
       /\ Searches(seen')[p].handled \in Seq(0 .. MaxFrames)
       /\ Searches(seen')[p].discarded \in Nat
  <2>1. WellFound(seen', p)
    BY <1>4, <1>10, SearchTypes
  <2>2. QED BY <1>3, <2>1 DEF Standing, Typed, WellFound
<1>13. handled \o Searches(seen')[p].handled = before.handled \o Searches(seen')[0].handled
  <2>1. (before.handled \o Searches(seen)[0].handled) \o Searches(seen')[p].handled =
          before.handled \o (Searches(seen)[0].handled \o Searches(seen')[p].handled)
    BY <1>12, FramesInThree
  <2>2. QED BY <1>8, <1>11, <2>1
<1>14. discarded + Searches(seen')[p].discarded =
         before.discarded + Searches(seen')[0].discarded
  BY <1>8, <1>11, <1>12
<1>15. ScanOK'
  BY <1>2, <1>6, <1>10, <1>11, <1>13, <1>14 DEF ScanOK, Rest, InOneGo
<1>16. QED BY <1>2, <1>15 DEF CutInv, CutsInvisible

\* What a turn finds, by the bytes that are left.
LEMMA CutTurn ==
    ASSUME FoundInv, CutInv, pc = "scan"
    PROVE  /\ Standing
           /\ handled \o Rest.handled = before.handled \o InOneGo.handled
           /\ discarded + Rest.discarded = before.discarded + InOneGo.discarded
           /\ Rest.stream = InOneGo.stream
           /\ Rest = Turn(seen, Searches(seen), Passed)
<1>1. Standing
  BY StandingHolds
<1>2. Rest = Turn(seen, Searches(seen), Passed)
  BY <1>1, SearchIs DEF Standing, Rest, Typed
<1>3. QED BY <1>1, <1>2 DEF CutInv, ScanOK

LEMMA CutStop ==
    ASSUME FoundInv, CutInv, NoMarker \/ Incomplete PROVE CutInv'
<1>1. /\ Standing /\ pc = "scan" /\ pc' = "ready" /\ stream = Drop(seen, Passed)
      /\ handled' = handled /\ seen' = seen /\ before' = before
      /\ handled \o Rest.handled = before.handled \o InOneGo.handled
      /\ discarded + Rest.discarded = before.discarded + InOneGo.discarded
      /\ Rest.stream = InOneGo.stream
      /\ Rest = Turn(seen, Searches(seen), Passed)
  BY CutTurn DEF NoMarker, Incomplete, link, Standing
<1>2. /\ stream \in Seq(Byte) /\ Len(stream) \in Nat /\ discarded \in Nat
      /\ handled \in Seq(0 .. MaxFrames)
      /\ AsmLen \in Nat \ {0} /\ FrameLen \in Nat \ {0}
  BY <1>1, LenProperties, MarkerLength DEF Standing, Typed
<1>3. /\ Rest.handled = <<>> /\ Rest.stream = stream' /\ discarded' = discarded + Rest.discarded
      /\ Len(stream') < AsmLen + FrameLen
  <2>1. CASE NoMarker
    <3>1. Rest = [handled |-> <<>>, stream |-> TailKept(stream),
                  discarded |-> Len(stream) - Len(TailKept(stream))]
      BY <1>1, <2>1 DEF NoMarker, Turn
    <3>2. PICK d \in 0 .. Len(stream) :
             /\ TailKept(stream) = Drop(stream, d)
             /\ d = IF Len(stream) > AsmLen - 1 THEN Len(stream) - (AsmLen - 1) ELSE 0
      BY <1>2, TailKeptIs
    <3>3. Len(TailKept(stream)) = Len(stream) - d
      BY <1>2, <3>2, DropIs
    <3>4. /\ Len(TailKept(stream)) \in Nat /\ Len(TailKept(stream)) < AsmLen + FrameLen
      <4>1. CASE Len(stream) > AsmLen - 1
        BY <1>2, <3>2, <3>3, <4>1
      <4>2. CASE ~(Len(stream) > AsmLen - 1)
        <5>1. d = 0 /\ Len(TailKept(stream)) = Len(stream)
          BY <1>2, <3>2, <3>3, <4>2
        <5>2. QED BY <1>2, <4>2, <5>1
      <4>3. QED BY <4>1, <4>2
    <3>5. discarded + Len(stream) - Len(TailKept(stream)) =
            discarded + (Len(stream) - Len(TailKept(stream)))
      BY <1>2, <3>4
    <3>6. stream' = TailKept(stream)
      BY <2>1 DEF NoMarker
    <3>7. discarded' = discarded + Len(stream) - Len(TailKept(stream))
      BY <2>1 DEF NoMarker
    <3>8. QED BY <3>1, <3>4, <3>5, <3>6, <3>7
  <2>2. CASE Incomplete
    <3>1. Rest = [handled |-> <<>>, stream |-> Drop(stream, First(stream)),
                  discarded |-> First(stream)]
      BY <1>1, <2>2 DEF Incomplete, Turn
    <3>2. First(stream) \in Nat /\ First(stream) + AsmLen <= Len(stream)
      BY <1>2, <2>2, FirstIsFirst DEF Incomplete
    <3>3. Len(Drop(stream, First(stream))) = Len(stream) - First(stream)
      <4>1. First(stream) \in 0 .. Len(stream)
        BY <1>2, <3>2
      <4>2. QED BY <1>2, <4>1, DropIs
    <3>4. ~(Len(stream) >= First(stream) + AsmLen + FrameLen)
      BY <2>2 DEF Incomplete, Enough, AsmLen
    <3>5. Len(Drop(stream, First(stream))) < AsmLen + FrameLen
      BY <1>2, <3>2, <3>3, <3>4
    <3>6. stream' = Drop(stream, First(stream)) /\ discarded' = discarded + First(stream)
      BY <2>2 DEF Incomplete
    <3>7. QED BY <3>1, <3>5, <3>6
  <2>3. QED BY <2>1, <2>2
<1>4. handled \o <<>> = handled
  BY <1>2, ConcatEmptySeq
<1>5. InOneGo' = InOneGo
  BY <1>1 DEF InOneGo
<1>6. CutsInvisible'
  BY <1>1, <1>3, <1>4, <1>5 DEF CutsInvisible, AsmLen
<1>7. QED BY <1>1, <1>6 DEF CutInv, ScanOK

LEMMA CutFrame ==
    ASSUME FoundInv, CutInv, GoodFrame \/ BadFrame PROVE CutInv'
<1> DEFINE q == First(stream)
           ok == Passes(Candidate(stream))
           f == Candidate(stream)[1].frame
           h == IF ok THEN <<f>> ELSE <<>>
           d == q + IF ok THEN AsmLen + FrameLen ELSE 1
<1>1. /\ Standing /\ pc = "scan" /\ pc' = "scan" /\ stream = Drop(seen, Passed)
      /\ seen' = seen /\ before' = before
      /\ handled \o Rest.handled = before.handled \o InOneGo.handled
      /\ discarded + Rest.discarded = before.discarded + InOneGo.discarded
      /\ Rest.stream = InOneGo.stream
      /\ Rest = Turn(seen, Searches(seen), Passed)
  BY CutTurn DEF GoodFrame, BadFrame, link, Standing
<1>2. /\ Found(stream) # {} /\ Enough(stream) /\ discarded' = discarded + q
      /\ stream' = Drop(stream, d)
  <2>1. Found(stream) # {} /\ Enough(stream) /\ discarded' = discarded + q
    BY DEF GoodFrame, BadFrame
  <2>2. CASE ok
    <3>1. stream' = Drop(stream, q + Len(Marker) + FrameLen)
      BY <2>2 DEF GoodFrame, BadFrame
    <3>2. q \in Nat /\ AsmLen \in Nat /\ FrameLen \in Nat
      BY <2>1, AtCandidate
    <3>3. q + Len(Marker) + FrameLen = d
      BY <2>2, <3>2 DEF AsmLen
    <3>4. QED BY <2>1, <3>1, <3>3
  <2>3. CASE ~ok
    BY <2>1, <2>3 DEF GoodFrame, BadFrame
  <2>4. QED BY <2>2, <2>3
<1>3. IF ok THEN handled' = Append(handled, f) ELSE handled' = handled
  BY DEF GoodFrame, BadFrame
<1>4. /\ q \in Nat /\ d \in 0 .. Len(stream) /\ Len(stream) \in Nat /\ Passed \in Nat
      /\ stream \in Seq(Byte) /\ Passed + Len(stream) = Len(seen)
  <2>1. /\ q \in Nat /\ q + AsmLen + FrameLen \in 0 .. Len(stream) /\ q + 1 \in 0 .. Len(stream)
        /\ Len(stream) \in Nat /\ Passed \in Nat /\ stream \in Seq(Byte)
        /\ Passed + Len(stream) = Len(seen) /\ AsmLen \in Nat /\ FrameLen \in Nat
    BY <1>2, AtCandidate
  <2>2. q + (AsmLen + FrameLen) = q + AsmLen + FrameLen
    BY <2>1
  <2>3. QED BY <2>1, <2>2
<1>5. Passed' = Passed + d
  <2>1. Len(stream') = Len(stream) - d
    BY <1>2, <1>4, DropIs
  <2>2. QED BY <1>1, <1>4, <2>1 DEF Passed
<1>6. f \in 0 .. MaxFrames
  <2>1. 1 \in 1 .. FrameLen
    BY MarkerLength
  <2>2. Candidate(stream)[1] \in Byte
    BY <1>2, <1>4, <2>1, CandidateIs, ElementOfSeq
  <2>3. QED BY <2>2 DEF Byte
<1> DEFINE e == Passed + d
<1>7. e = Passed + q + IF ok THEN Len(Marker) + FrameLen ELSE 1
  <2>1. AsmLen \in Nat /\ FrameLen \in Nat /\ AsmLen = Len(Marker)
    BY MarkerLength DEF AsmLen
  <2>2. QED BY <1>4, <2>1
<1>8. Rest = [handled |-> h \o Searches(seen)[e].handled,
              stream |-> Searches(seen)[e].stream,
              discarded |-> q + Searches(seen)[e].discarded]
  BY <1>1, <1>2, <1>7 DEF Turn
<1> HIDE DEF q, ok, f, d
<1>9. /\ handled \in Seq(0 .. MaxFrames) /\ handled' = handled \o h
      /\ h \in Seq(0 .. MaxFrames) /\ discarded \in Nat
  <2>1. handled \in Seq(0 .. MaxFrames) /\ discarded \in Nat
    BY <1>1 DEF Standing, Typed
  <2>2. <<f>> \in Seq(0 .. MaxFrames) /\ <<>> \in Seq(0 .. MaxFrames)
    BY <1>6
  <2>3. handled \o <<>> = handled /\ Append(handled, f) = handled \o <<f>>
    BY <1>6, <2>1, ConcatEmptySeq, AppendIsConcat
  <2>4. QED BY <1>3, <2>1, <2>2, <2>3
<1>10. /\ Rest' = Searches(seen)[e] /\ InOneGo' = InOneGo
       /\ Rest'.handled \in Seq(0 .. MaxFrames) /\ Rest'.discarded \in Nat
  <2>1. Rest' = Searches(seen)[e] /\ InOneGo' = InOneGo
    BY <1>1, <1>5 DEF Rest, InOneGo
  <2>2. e \in 0 .. Len(seen)
    BY <1>4
  <2>3. WellFound(seen, e)
    BY <1>1, <2>2, SearchTypes DEF Standing, Typed
  <2>4. QED BY <2>1, <2>3 DEF WellFound
<1> HIDE DEF h, e
<1>11. handled' \o Rest'.handled = before.handled \o InOneGo.handled
  <2>1. (handled \o h) \o Rest'.handled = handled \o (h \o Rest'.handled)
    BY <1>9, <1>10, FramesInThree
  <2>2. Rest.handled = h \o Rest'.handled
    BY <1>8, <1>10
  <2>3. QED BY <1>1, <1>9, <2>1, <2>2
<1>12. discarded' + Rest'.discarded = before.discarded + InOneGo.discarded
  <2>1. Rest.discarded = q + Rest'.discarded
    BY <1>8, <1>10
  <2>2. discarded' + Rest'.discarded = discarded + (q + Rest'.discarded)
    BY <1>2, <1>4, <1>9, <1>10
  <2>3. QED BY <1>1, <2>1, <2>2
<1>13. Rest'.stream = InOneGo.stream
  BY <1>1, <1>8, <1>10
<1>14. ScanOK'
  BY <1>1, <1>10, <1>11, <1>12, <1>13 DEF ScanOK
<1>15. QED BY <1>1, <1>14 DEF CutInv, CutsInvisible

SearchInv == FoundInv /\ CutInv

LEMMA SearchInit == SyncInit => SearchInv
<1> SUFFICES ASSUME SyncInit PROVE SearchInv
  OBVIOUS
<1>1. FoundInv
  BY FoundInit
<1>2. /\ seen = <<>> /\ stream = <<>> /\ pc = "ready" /\ handled = <<>> /\ discarded = 0
      /\ before = [handled |-> handled, discarded |-> discarded]
  BY DEF SyncInit
<1>3. CutInv
  BY <1>2, EmptySeq, CutAtStart
<1>4. QED BY <1>1, <1>3 DEF SearchInv

LEMMA SearchStep == SearchInv /\ [SyncNext]_syncVars => SearchInv'
<1> SUFFICES ASSUME SearchInv, [SyncNext]_syncVars PROVE SearchInv'
  OBVIOUS
<1>1. FoundInv /\ CutInv /\ FoundInv' /\ Typed'
  BY FoundStep DEF SearchInv, FoundInv
<1>2. CASE SendFrame \/ SendNoise \/ Damage \/ UNCHANGED syncVars
  <2>1. UNCHANGED <<seen, before, pc, stream, handled, discarded>>
    BY <1>2 DEF SendFrame, SendNoise, Damage, syncVars, link
  <2>2. InOneGo' = InOneGo /\ Rest' = Rest
    BY <2>1 DEF InOneGo, Rest, Passed
  <2>3. CutInv'
    BY <1>1, <2>1, <2>2 DEF CutInv, ScanOK, CutsInvisible
  <2>4. QED BY <1>1, <2>3 DEF SearchInv
<1>3. CASE Push
  BY <1>1, <1>3, CutPush DEF SearchInv
<1>4. CASE Reset
  <2>1. /\ seen' = <<>> /\ stream' = <<>> /\ pc' = "ready"
        /\ before' = [handled |-> handled', discarded |-> discarded']
    BY <1>4 DEF Reset
  <2>2. handled' \in Seq(0 .. MaxFrames) /\ discarded' \in Nat
    BY <1>1 DEF FoundInv, Typed
  <2>3. handled' \o <<>> = handled'
    BY <2>2, ConcatEmptySeq
  <2>4. Len(stream') < Len(Marker) + FrameLen
    <3>1. Len(stream') = 0 /\ AsmLen \in Nat \ {0} /\ FrameLen \in Nat \ {0}
      BY <2>1, MarkerLength
    <3>2. QED BY <3>1 DEF AsmLen
  <2>5. CutInv'
    BY <2>1, <2>2, <2>3, <2>4, NothingFound DEF CutInv, ScanOK, CutsInvisible, InOneGo
  <2>6. QED BY <1>1, <2>5 DEF SearchInv
<1>5. CASE Scan
  BY <1>1, <1>5, CutStop, CutFrame DEF Scan, SearchInv
<1>6. QED BY <1>2, <1>3, <1>4, <1>5 DEF SyncNext

\* The inductive invariant holds of the search in every state (push_stream and
\* reset of frames.rs): where it has passed, nothing it should have found is left,
\* and it is where one search of all the bytes would be.
THEOREM SearchInvariance == SyncSpec => []SearchInv
BY SearchInit, SearchStep, PTL DEF SyncSpec

\* Whatever noise, false markers and damaged frames come between, and wherever
\* datagrams are cut, push_stream finds every undamaged frame, in order and once.
THEOREM UndamagedFramesAreFound == SyncSpec => []UndamagedFramesFound
<1>1. SearchInv => UndamagedFramesFound
  BY FoundInvFinds DEF SearchInv
<1>2. QED BY <1>1, SearchInvariance, PTL

\* Whatever the bytes, what push_stream finds, discards and keeps is what one push
\* of all of them gives, and less than a marker and a frame is kept.
THEOREM CutsAreInvisible == SyncSpec => []CutsInvisible
<1>1. SearchInv => CutsInvisible
  BY DEF SearchInv, CutInv
<1>2. QED BY <1>1, SearchInvariance, PTL

-----------------------------------------------------------------------------
(***************************************************************************)
(* The inductive invariant: the rules are applied to what the report would *)
(* read if the gateway stood still from now on.                            *)
(***************************************************************************)

Loaded == {ReadOrder[i] : i \in 1 .. next - 1}
Merged == [k \in Counters |-> IF k \in Loaded THEN read[k] ELSE counts[k]]

\* Clients come and go; every other counter only grows.
Growing == Counters \ {"ws_clients_connected"}

\* What was looked up was received.
HandledOK == counts["frames_received"] = 0 => task = "idle" /\ counts["frames_unmatched"] = 0

LoadedOK == \A k \in Growing : k \in Loaded => read[k] <= counts[k]

WatchOK ==
    /\ always \subseteq Findings(Merged)
    /\ Findings(Merged) \ Shares \subseteq once
    /\ next <= Loads => always \subseteq Findings(counts)
    /\ <<"CG-511", "warning">> \in always => Merged["frames_received"] > 0

HInv ==
    /\ TypeOK
    /\ HandledOK
    /\ next > 0 => LoadedOK /\ WatchOK

-----------------------------------------------------------------------------
(* The rules, finding by finding. *)

Codes ==
    {<<"CG-501", "info">>, <<"CG-502", "error">>, <<"CG-503", "warning">>,
     <<"CG-504", "warning">>, <<"CG-505", "warning">>, <<"CG-506", "warning">>,
     <<"CG-507", "warning">>, <<"CG-508", "warning">>, <<"CG-509", "info">>,
     <<"CG-510", "error">>, <<"CG-511", "warning">>, <<"CG-512", "warning">>,
     <<"CG-513", "error">>, <<"CG-513", "warning">>, <<"CG-513", "info">>,
     <<"CG-514", "warning">>, <<"CG-514", "info">>}

LEMMA HealthCodes ==
    ASSUME NEW c, NEW f
    PROVE  f \in assess_health(c) <=>
            \/ f = <<"CG-501", "info">> /\ c["frames_received"] = 0
            \/ /\ f = <<"CG-502", "error">>
               /\ c["telemetry_parse_errors"] > 0 /\ c["telemetry_frames_emitted"] = 0
            \/ /\ f = <<"CG-503", "warning">>
               /\ ~(c["telemetry_parse_errors"] > 0 /\ c["telemetry_frames_emitted"] = 0)
               /\ c["telemetry_parse_errors"] > 0
               /\ c["telemetry_parse_errors"] * 10
                     > c["telemetry_parse_errors"] + c["telemetry_frames_emitted"]
            \/ f = <<"CG-504", "warning">> /\ c["oversized_dropped"] > 0
            \/ f = <<"CG-505", "warning">> /\ c["recv_errors"] > 0
            \/ f = <<"CG-506", "warning">> /\ ~scene.tracking
            \/ f = <<"CG-507", "warning">> /\ scene.tracking /\ c["tracking_errors"] > 0
            \/ /\ f = <<"CG-508", "warning">>
               /\ c["telemetry_frames_emitted"] >= 10
               /\ c["anomaly_frames"] * 2 > c["telemetry_frames_emitted"]
            \/ /\ f = <<"CG-509", "info">>
               /\ c["frames_received"] > 0 /\ c["ws_clients_connected"] = 0
            \/ f = <<"CG-510", "error">> /\ c["serialize_errors"] > 0
BY SMTT(60) DEF assess_health, When

LEMMA RfCodes ==
    ASSUME NEW c, NEW f
    PROVE  f \in assess_rf(c) <=>
            \/ f = <<"CG-512", "warning">> /\ scene.rf /\ c["samples_invalid"] > 0
            \/ /\ f = <<"CG-511", "warning">> /\ scene.rf
               /\ \/ c["frames_received"] > 0 /\ c["samples_received"] = 0
                  \/ c["frames_unmatched"] >= 10 /\ c["frames_unmatched"] > c["frames_matched"]
BY ZenonT(60) DEF assess_rf, When

Rejected(c) == c["frames_crc_error"] + c["frames_invalid"]

LEMMA FramingCodes ==
    ASSUME NEW c, NEW f
    PROVE  f \in assess_framing(c) <=>
            \/ f = <<"CG-513", "error">> /\ scene.tm /\ c["datagrams"] # 0 /\ c["frames_ok"] = 0
            \/ /\ f = <<"CG-513", "warning">> /\ scene.tm /\ c["datagrams"] # 0 /\ c["frames_ok"] # 0
               /\ Rejected(c) * 10 > c["frames_ok"] + Rejected(c)
            \/ /\ f = <<"CG-513", "info">> /\ scene.tm /\ c["datagrams"] # 0 /\ c["frames_ok"] # 0
               /\ c["vc_frame_gaps"] > 0
BY ZenonT(60) DEF assess_framing, When, Rejected

LEMMA HistoryCodes ==
    ASSUME NEW c, NEW f
    PROVE  f \in assess_history(c) <=>
            \/ f = <<"CG-514", "warning">> /\ (c["persist_errors"] > 0 \/ c["persist_dropped"] > 0)
            \/ f = <<"CG-514", "info">> /\ c["load_skipped"] > 0
BY ZenonT(60) DEF assess_history, When

\* What each finding says of the counters.
Says(c, f) ==
    /\ f = <<"CG-501", "info">> => c["frames_received"] = 0
    /\ f = <<"CG-502", "error">> =>
          c["telemetry_parse_errors"] > 0 /\ c["telemetry_frames_emitted"] = 0
    /\ f = <<"CG-503", "warning">> =>
          /\ c["telemetry_parse_errors"] > 0
          /\ ~(c["telemetry_parse_errors"] > 0 /\ c["telemetry_frames_emitted"] = 0)
          /\ c["telemetry_parse_errors"] * 10
               > c["telemetry_parse_errors"] + c["telemetry_frames_emitted"]
    /\ f = <<"CG-504", "warning">> => c["oversized_dropped"] > 0
    /\ f = <<"CG-505", "warning">> => c["recv_errors"] > 0
    /\ f = <<"CG-506", "warning">> => ~scene.tracking
    /\ f = <<"CG-507", "warning">> => scene.tracking /\ c["tracking_errors"] > 0
    /\ f = <<"CG-508", "warning">> =>
          /\ c["telemetry_frames_emitted"] >= 10
          /\ c["anomaly_frames"] * 2 > c["telemetry_frames_emitted"]
    /\ f = <<"CG-509", "info">> => c["frames_received"] > 0 /\ c["ws_clients_connected"] = 0
    /\ f = <<"CG-510", "error">> => c["serialize_errors"] > 0
    /\ f = <<"CG-511", "warning">> =>
          /\ scene.rf
          /\ \/ c["frames_received"] > 0 /\ c["samples_received"] = 0
             \/ c["frames_unmatched"] >= 10 /\ c["frames_unmatched"] > c["frames_matched"]
    /\ f = <<"CG-512", "warning">> => scene.rf /\ c["samples_invalid"] > 0
    /\ f = <<"CG-513", "error">> => scene.tm /\ c["datagrams"] # 0 /\ c["frames_ok"] = 0
    /\ f = <<"CG-513", "warning">> =>
          /\ scene.tm /\ c["datagrams"] # 0 /\ c["frames_ok"] # 0
          /\ Rejected(c) * 10 > c["frames_ok"] + Rejected(c)
    /\ f = <<"CG-513", "info">> =>
          /\ scene.tm /\ c["datagrams"] # 0 /\ c["frames_ok"] # 0
          /\ c["vc_frame_gaps"] > 0
    /\ f = <<"CG-514", "warning">> => c["persist_errors"] > 0 \/ c["persist_dropped"] > 0
    /\ f = <<"CG-514", "info">> => c["load_skipped"] > 0

LEMMA FindingsSay ==
    ASSUME NEW c, NEW f
    PROVE  f \in Findings(c) <=> f \in Codes /\ Says(c, f)
<1>1. f \in Findings(c) => f \in Codes /\ Says(c, f)
  <2>1. f \in assess_health(c) => f \in Codes /\ Says(c, f)
    BY HealthCodes DEF Says, Codes
  <2>2. f \in assess_rf(c) => f \in Codes /\ Says(c, f)
    BY RfCodes DEF Says, Codes
  <2>3. f \in assess_framing(c) => f \in Codes /\ Says(c, f)
    BY FramingCodes DEF Says, Codes
  <2>4. f \in assess_history(c) => f \in Codes /\ Says(c, f)
    BY HistoryCodes DEF Says, Codes
  <2>5. QED BY <2>1, <2>2, <2>3, <2>4 DEF Findings
<1>2. ASSUME f \in Codes, Says(c, f) PROVE f \in Findings(c)
  <2>1. f \in assess_health(c) \/ f \in assess_rf(c) \/ f \in assess_framing(c) \/ f \in assess_history(c)
    BY <1>2, HealthCodes, RfCodes, FramingCodes, HistoryCodes DEF Says, Codes
  <2>2. QED BY <2>1 DEF Findings
<1>3. QED BY <1>1, <1>2

-----------------------------------------------------------------------------
(* The order of the loads. *)

LEMMA OrderOfLoads ==
    ASSUME NEW i \in 1 .. Loads
    PROVE  /\ ReadOrder[i] \in Counters
           /\ ReadOrder[i] = "frames_received" => i = 1
           /\ ReadOrder[i] = "telemetry_frames_emitted" => i = 4
           /\ ReadOrder[i] = "telemetry_parse_errors" => i = 5
           /\ ReadOrder[i] = "anomaly_frames" => i = 6
           /\ ReadOrder[i] = "ws_clients_connected" => i = 9
           /\ ReadOrder[i] = "samples_received" => i = 10
           /\ ReadOrder[i] = "frames_matched" => i = 12
           /\ ReadOrder[i] = "frames_unmatched" => i = 13
           /\ ReadOrder[i] = "datagrams" => i = 14
           /\ ReadOrder[i] = "frames_ok" => i = 15
           /\ ReadOrder[i] = "frames_crc_error" => i = 16
           /\ ReadOrder[i] = "frames_invalid" => i = 17
BY SMTT(60) DEF ReadOrder, Loads, Counters, Seen

LEMMA LoadsDiffer ==
    ASSUME NEW i \in 1 .. Loads, NEW j \in 1 .. Loads, ReadOrder[i] = ReadOrder[j]
    PROVE  i = j
BY SMTT(60) DEF ReadOrder, Loads

LEMMA AllLoaded ==
    ASSUME NEW k \in Counters
    PROVE  \E i \in 1 .. Loads : ReadOrder[i] = k
BY SMTT(60) DEF ReadOrder, Loads, Counters, Seen

\* The whole is read before the part.
WholeFirst(L) ==
    /\ "telemetry_parse_errors" \in L => "telemetry_frames_emitted" \in L
    /\ "anomaly_frames" \in L => "telemetry_frames_emitted" \in L
    /\ "ws_clients_connected" \in L => "frames_received" \in L
    /\ "frames_matched" \in L => "samples_received" \in L
    /\ "frames_unmatched" \in L => "frames_matched" \in L
    /\ "frames_ok" \in L => "datagrams" \in L
    /\ "frames_crc_error" \in L => "frames_ok" \in L
    /\ "frames_invalid" \in L => "frames_ok" \in L

LEMMA Before ==
    ASSUME next \in 0 .. Loads + 1
    PROVE  WholeFirst(Loaded)
<1>1. \A i \in 1 .. Loads : i < next => ReadOrder[i] \in Loaded
  BY DEF Loaded, Loads
<1>2. \A k \in Loaded : \E i \in 1 .. Loads : i < next /\ ReadOrder[i] = k
  BY DEF Loaded, Loads
<1>3. /\ ReadOrder[1] = "frames_received" /\ ReadOrder[4] = "telemetry_frames_emitted"
      /\ ReadOrder[10] = "samples_received" /\ ReadOrder[12] = "frames_matched"
      /\ ReadOrder[14] = "datagrams" /\ ReadOrder[15] = "frames_ok"
  BY DEF ReadOrder
<1>4. "telemetry_parse_errors" \in Loaded => 5 < next
  BY <1>2, OrderOfLoads
<1>5. "anomaly_frames" \in Loaded => 6 < next
  BY <1>2, OrderOfLoads
<1>6. "ws_clients_connected" \in Loaded => 9 < next
  BY <1>2, OrderOfLoads
<1>7. "frames_matched" \in Loaded => 12 < next
  BY <1>2, OrderOfLoads
<1>8. "frames_unmatched" \in Loaded => 13 < next
  BY <1>2, OrderOfLoads
<1>9. "frames_ok" \in Loaded => 15 < next
  BY <1>2, OrderOfLoads
<1>10. "frames_crc_error" \in Loaded => 16 < next
  BY <1>2, OrderOfLoads
<1>11. "frames_invalid" \in Loaded => 17 < next
  BY <1>2, OrderOfLoads
<1>12. {1, 4, 10, 12, 14, 15} \subseteq 1 .. Loads
  BY DEF Loads
<1>13. QED BY <1>1, <1>3, <1>4, <1>5, <1>6, <1>7, <1>8, <1>9, <1>10, <1>11, <1>12 DEF WholeFirst

\* A load changes nothing in what the report would read.
LEMMA LoadKeepsMerged ==
    ASSUME TypeOK, Load, UNCHANGED counts
    PROVE  /\ Merged' = Merged /\ read' \in [Counters -> Nat]
           /\ LoadedOK => LoadedOK'
<1> DEFINE k == ReadOrder[next]
<1>1. next \in 1 .. Loads /\ next' = next + 1 /\ k \in Counters
      /\ read' = [read EXCEPT ![k] = counts[k]]
  BY OrderOfLoads DEF Load
<1>2. Loaded' = Loaded \cup {k}
  BY <1>1 DEF Loaded, Loads
<1>3. k \notin Loaded
  BY <1>1, LoadsDiffer DEF Loaded, Loads
<1>4. \A j \in Counters : read'[j] = IF j = k THEN counts[k] ELSE read[j]
  BY <1>1 DEF TypeOK
<1>5. \A j \in Counters : (IF j \in Loaded' THEN read'[j] ELSE counts'[j])
                             = IF j \in Loaded THEN read[j] ELSE counts[j]
  BY <1>2, <1>3, <1>4
<1>6. Merged' = Merged
  BY <1>5 DEF Merged
<1>7. LoadedOK => LoadedOK'
  <2> SUFFICES ASSUME LoadedOK, NEW j \in Growing, j \in Loaded' PROVE read'[j] <= counts'[j]
    BY DEF LoadedOK
  <2>1. j \in Counters /\ counts[j] \in Nat
    BY DEF Growing, TypeOK
  <2>2. CASE j = k
    BY <1>4, <2>1, <2>2
  <2>3. CASE j # k
    BY <1>2, <1>4, <2>1, <2>3 DEF LoadedOK
  <2>4. QED BY <2>2, <2>3
<1>8. read' \in [Counters -> Nat]
  BY <1>1 DEF TypeOK
<1>9. QED BY <1>6, <1>7, <1>8

-----------------------------------------------------------------------------
(* The gateway at work. *)

LEMMA BumpMoves ==
    ASSUME TypeOK, NEW k \in Counters, Bump(k)
    PROVE  /\ counts' \in [Counters -> Nat]
           /\ \A j \in Counters : counts'[j] >= counts[j]
           /\ \A j \in Counters : j # k => counts'[j] = counts[j]
<1>1. scene.most[k] \in Nat
  BY ScenesAssumption DEF TypeOK
<1> DEFINE n == IF counts[k] < scene.most[k] THEN counts[k] + 1 ELSE counts[k]
<1>2. n \in Nat /\ n >= counts[k]
  BY <1>1 DEF TypeOK
<1>3. counts' = [counts EXCEPT ![k] = n]
  BY DEF Bump
<1> HIDE DEF n
<1>4. QED BY <1>2, <1>3 DEF TypeOK

Tasks == {"idle", "frames", "accepted", "packet", "looked", "tracked", "checked", "emitted"}

\* How a step of the gateway moves the counters.
Moves ==
    /\ counts' \in [Counters -> Nat]
    /\ \A j \in Growing : counts'[j] >= counts[j]
    /\ task' \in Tasks

LEMMA BumpIsMove ==
    ASSUME TypeOK, NEW k \in Counters, Bump(k), task' \in Tasks
    PROVE  Moves
BY BumpMoves DEF Moves, Growing

LEMMA StillIsMove ==
    ASSUME TypeOK, UNCHANGED counts, task' \in Tasks
    PROVE  Moves
<1>1. \A j \in Growing : counts[j] \in Nat
  BY DEF TypeOK, Growing
<1>2. QED BY <1>1 DEF Moves, TypeOK

LEMMA WorkMoves ==
    ASSUME TypeOK, HandledOK, Work
    PROVE  Moves /\ HandledOK'
<1> USE DEF Counters, Seen, Tasks, Become
<1>1. CASE (Count \/ Connect) /\ UNCHANGED task
  <2>1. PICK k \in Counters \ {"frames_unmatched"} : Bump(k)
    BY <1>1 DEF Count, Connect
  <2>2. task' \in Tasks
    BY <1>1 DEF TypeOK
  <2>3. Moves
    BY <2>1, <2>2, BumpIsMove
  <2>4. counts'["frames_unmatched"] = counts["frames_unmatched"]
        /\ counts'["frames_received"] >= counts["frames_received"]
    BY <2>1, BumpMoves
  <2>5. counts["frames_received"] \in Nat /\ counts'["frames_received"] \in Nat
    BY <2>3 DEF Moves, TypeOK
  <2>6. QED BY <1>1, <2>3, <2>4, <2>5 DEF HandledOK
<1>2. CASE Disconnect /\ UNCHANGED task
  <2>1. counts' = [counts EXCEPT !["ws_clients_connected"] = counts["ws_clients_connected"] - 1]
        /\ counts["ws_clients_connected"] - 1 \in Nat
    BY <1>2 DEF Disconnect, TypeOK
  <2>2. \A j \in Growing : counts'[j] = counts[j] /\ counts[j] \in Nat
    BY <2>1 DEF TypeOK, Growing
  <2>3. counts' \in [Counters -> Nat] /\ task' \in Tasks
    BY <1>2, <2>1 DEF TypeOK
  <2>4. Moves
    BY <2>2, <2>3 DEF Moves
  <2>5. {"frames_received", "frames_unmatched"} \subseteq Growing
    BY DEF Growing
  <2>6. QED BY <1>2, <2>2, <2>4, <2>5 DEF HandledOK
\* The pipeline works on what was received.
<1>3. ASSUME counts["frames_received"] > 0, Moves PROVE Moves /\ HandledOK'
  <2>1. counts'["frames_received"] >= counts["frames_received"] /\ counts'["frames_received"] \in Nat
        /\ counts["frames_received"] \in Nat
    BY <1>3 DEF Moves, Growing, TypeOK
  <2>2. QED BY <1>3, <2>1 DEF HandledOK
<1>4. ASSUME task # "idle", Moves PROVE Moves /\ HandledOK'
  <2>1. counts["frames_received"] > 0
    BY <1>4 DEF HandledOK, TypeOK
  <2>2. QED BY <1>3, <1>4, <2>1
<1>5. CASE HandleDatagram
  <2>1. counts["frames_received"] > 0 /\ task' \in Tasks
    BY <1>5 DEF HandleDatagram
  <2>2. Bump("datagrams") \/ UNCHANGED counts
    BY <1>5 DEF HandleDatagram
  <2>3. Moves
    BY <2>1, <2>2, BumpIsMove, StillIsMove
  <2>4. QED BY <1>3, <2>1, <2>3
<1>6. CASE HandleFrame
  <2>1. task # "idle" /\ task' \in Tasks
        /\ (UNCHANGED counts \/ \E k \in Counters : Bump(k))
    BY <1>6 DEF HandleFrame
  <2>2. QED BY <1>4, <2>1, BumpIsMove, StillIsMove
<1>7. CASE AcceptFrame
  <2>1. task # "idle" /\ task' \in Tasks
        /\ (UNCHANGED counts \/ \E k \in Counters : Bump(k))
    BY <1>7 DEF AcceptFrame, BumpOrNot
  <2>2. QED BY <1>4, <2>1, BumpIsMove, StillIsMove
<1>8. CASE Reject
  <2>1. task # "idle" /\ task' \in Tasks /\ \E k \in Counters : Bump(k)
    BY <1>8 DEF Reject, Done
  <2>2. QED BY <1>4, <2>1, BumpIsMove
<1>9. CASE Lookup
  <2>1. task # "idle" /\ task' \in Tasks
        /\ (UNCHANGED counts \/ \E k \in Counters : Bump(k))
    BY <1>9 DEF Lookup
  <2>2. QED BY <1>4, <2>1, BumpIsMove, StillIsMove
<1>10. CASE Track
  <2>1. task # "idle" /\ task' \in Tasks
        /\ (UNCHANGED counts \/ \E k \in Counters : Bump(k))
    BY <1>10 DEF Track, BumpOrNot
  <2>2. QED BY <1>4, <2>1, BumpIsMove, StillIsMove
<1>11. CASE Check
  <2>1. task # "idle" /\ task' \in Tasks
        /\ (UNCHANGED counts \/ \E k \in Counters : Bump(k))
    BY <1>11 DEF Check, BumpOrNot
  <2>2. QED BY <1>4, <2>1, BumpIsMove, StillIsMove
<1>12. CASE Serialize
  <2>1. task # "idle" /\ task' \in Tasks /\ \E k \in Counters : Bump(k)
    BY <1>12 DEF Serialize, Done
  <2>2. QED BY <1>4, <2>1, BumpIsMove
<1>13. CASE Record
  <2>1. task # "idle" /\ task' \in Tasks
        /\ (UNCHANGED counts \/ \E k \in Counters : Bump(k))
    BY <1>13 DEF Record, BumpOrNot, Done
  <2>2. QED BY <1>4, <2>1, BumpIsMove, StillIsMove
<1>14. QED BY <1>1, <1>2, <1>5, <1>6, <1>7, <1>8, <1>9, <1>10, <1>11, <1>12, <1>13 DEF Work

-----------------------------------------------------------------------------
(* A step of the gateway between two loads: what would be read goes from m *)
(* to n, the counters are then c, and those in L were read already.        *)

Between(m, n, c, L) ==
    /\ m \in [Counters -> Nat] /\ n \in [Counters -> Nat] /\ c \in [Counters -> Nat]
    /\ \A k \in Counters : k \in L => n[k] = m[k]
    /\ \A k \in Counters : k \notin L => n[k] = c[k]
    /\ \A k \in Growing : m[k] <= n[k] /\ n[k] <= c[k]
    /\ WholeFirst(L)

LEMMA CounterNames ==
    /\ Growing \subseteq Counters /\ Seen \subseteq Growing
    /\ {"telemetry_frames_emitted", "telemetry_parse_errors", "anomaly_frames",
        "frames_matched", "frames_unmatched", "frames_ok", "frames_crc_error", "frames_invalid",
        "frames_received", "samples_received", "datagrams", "vc_frame_gaps"} \subseteq Growing
    /\ "ws_clients_connected" \in Counters
BY DEF Growing, Counters, Seen

\* What was so before and is so after is still found.
LEMMA StillFound ==
    ASSUME NEW m, NEW n, NEW c, NEW L, Between(m, n, c, L),
           NEW f \in Codes, Says(m, f), Says(c, f),
           f = <<"CG-511", "warning">> => m["frames_received"] > 0
    PROVE  Says(n, f)
<1>1. /\ \A k \in Growing : m[k] \in Nat /\ n[k] \in Nat /\ c[k] \in Nat /\ m[k] <= n[k] /\ n[k] <= c[k]
      /\ \A k \in Growing : k \in L => n[k] = m[k]
      /\ \A k \in Growing : k \notin L => n[k] = c[k]
  BY CounterNames DEF Between
<1>2. WholeFirst(L)
  BY DEF Between
<1>3. CASE f = <<"CG-503", "warning">>
  <2>1. CASE "telemetry_frames_emitted" \in L
    BY <1>1, <1>3, <2>1, CounterNames, SMTT(30) DEF Says
  <2>2. CASE "telemetry_frames_emitted" \notin L
    <3>1. "telemetry_parse_errors" \notin L
      BY <1>2, <2>2 DEF WholeFirst
    <3>2. QED BY <1>1, <1>3, <2>2, <3>1, CounterNames, SMTT(30) DEF Says
  <2>3. QED BY <2>1, <2>2
<1>4. CASE f = <<"CG-508", "warning">>
  <2>1. CASE "telemetry_frames_emitted" \in L
    BY <1>1, <1>4, <2>1, CounterNames, SMTT(30) DEF Says
  <2>2. CASE "telemetry_frames_emitted" \notin L
    <3>1. "anomaly_frames" \notin L
      BY <1>2, <2>2 DEF WholeFirst
    <3>2. QED BY <1>1, <1>4, <2>2, <3>1, CounterNames, SMTT(30) DEF Says
  <2>3. QED BY <2>1, <2>2
<1>5. CASE f = <<"CG-509", "info">>
  BY <1>1, <1>5, CounterNames, SMTT(30) DEF Says, Between
<1>6. CASE f = <<"CG-511", "warning">>
  <2> DEFINE M == m["frames_unmatched"] >= 10 /\ m["frames_unmatched"] > m["frames_matched"]
             C == c["frames_unmatched"] >= 10 /\ c["frames_unmatched"] > c["frames_matched"]
             N == n["frames_unmatched"] >= 10 /\ n["frames_unmatched"] > n["frames_matched"]
  <2>1. /\ scene.rf /\ n["frames_received"] > 0
        /\ m["samples_received"] = 0 \/ M
        /\ c["samples_received"] = 0 \/ C
    BY <1>1, <1>6, CounterNames, SMTT(30) DEF Says
  <2>2. n["samples_received"] = 0 \/ N => Says(n, f)
    BY <1>6, <2>1, SMTT(30) DEF Says
  <2>3. CASE "frames_matched" \in L
    <3>1. "samples_received" \in L
      BY <1>2, <2>3 DEF WholeFirst
    <3>2. QED BY <1>1, <2>1, <2>2, <2>3, <3>1, CounterNames, SMTT(30)
  <2>4. CASE "frames_matched" \notin L
    <3>1. "frames_unmatched" \notin L
      BY <1>2, <2>4 DEF WholeFirst
    <3>2. QED BY <1>1, <2>1, <2>2, <2>4, <3>1, CounterNames, SMTT(30)
  <2>5. QED BY <2>3, <2>4
<1>7. CASE f = <<"CG-513", "warning">>
  <2>1. /\ Rejected(m) \in Nat /\ Rejected(n) \in Nat /\ Rejected(m) <= Rejected(n)
    BY <1>1, CounterNames, SMTT(30) DEF Rejected
  <2>2. CASE "frames_ok" \in L
    BY <1>1, <1>7, <2>1, <2>2, CounterNames, SMTT(30) DEF Says
  <2>3. CASE "frames_ok" \notin L
    <3>1. "frames_crc_error" \notin L /\ "frames_invalid" \notin L
      BY <1>2, <2>3 DEF WholeFirst
    <3>2. Rejected(n) = Rejected(c) /\ n["frames_ok"] = c["frames_ok"]
      BY <1>1, <2>3, <3>1, CounterNames DEF Rejected
    <3>3. QED BY <1>1, <1>7, <3>2, CounterNames, SMTT(30) DEF Says
  <2>4. QED BY <2>2, <2>3
<1>8. CASE f \in {<<"CG-501", "info">>, <<"CG-502", "error">>, <<"CG-513", "error">>, <<"CG-513", "info">>}
  BY <1>1, <1>8, CounterNames, SMTT(30) DEF Says
<1>9. CASE f \in {<<"CG-504", "warning">>, <<"CG-505", "warning">>, <<"CG-506", "warning">>,
                  <<"CG-507", "warning">>, <<"CG-510", "error">>, <<"CG-512", "warning">>,
                  <<"CG-514", "warning">>, <<"CG-514", "info">>}
  BY <1>1, <1>9, CounterNames, SMTT(30) DEF Says, Seen
<1>10. QED BY <1>3, <1>4, <1>5, <1>6, <1>7, <1>8, <1>9 DEF Codes

\* What is found was so before or is so after, shares aside.
LEMMA FoundBefore ==
    ASSUME NEW m, NEW n, NEW c, NEW L, Between(m, n, c, L),
           NEW f \in Codes \ Shares, Says(n, f)
    PROVE  Says(m, f) \/ Says(c, f)
<1>1. /\ \A k \in Growing : m[k] \in Nat /\ n[k] \in Nat /\ c[k] \in Nat /\ m[k] <= n[k] /\ n[k] <= c[k]
      /\ \A k \in Growing : k \in L => n[k] = m[k]
      /\ \A k \in Growing : k \notin L => n[k] = c[k]
  BY CounterNames DEF Between
<1>2. WholeFirst(L)
  BY DEF Between
<1>3. CASE f = <<"CG-509", "info">>
  <2>1. "ws_clients_connected" \in L => n["ws_clients_connected"] = m["ws_clients_connected"]
    BY CounterNames DEF Between
  <2>2. "ws_clients_connected" \notin L => n["ws_clients_connected"] = c["ws_clients_connected"]
    BY CounterNames DEF Between
  <2>3. "ws_clients_connected" \in L => n["frames_received"] = m["frames_received"]
    BY <1>1, <1>2, CounterNames DEF WholeFirst
  <2>4. QED BY <1>1, <1>3, <2>1, <2>2, <2>3, CounterNames, SMTT(30) DEF Says
<1>4. CASE f = <<"CG-513", "error">>
  <2>1. CASE "datagrams" \in L
    BY <1>1, <1>4, <2>1, CounterNames, SMTT(30) DEF Says
  <2>2. CASE "datagrams" \notin L
    <3>1. "frames_ok" \notin L
      BY <1>2, <2>2 DEF WholeFirst
    <3>2. QED BY <1>1, <1>4, <2>2, <3>1, CounterNames, SMTT(30) DEF Says
  <2>3. QED BY <2>1, <2>2
<1>5. CASE f \in {<<"CG-501", "info">>, <<"CG-513", "info">>}
  BY <1>1, <1>5, CounterNames, SMTT(30) DEF Says
<1>6. CASE f \in {<<"CG-504", "warning">>, <<"CG-505", "warning">>, <<"CG-506", "warning">>,
                  <<"CG-507", "warning">>, <<"CG-510", "error">>, <<"CG-512", "warning">>,
                  <<"CG-514", "warning">>, <<"CG-514", "info">>}
  BY <1>1, <1>6, CounterNames, SMTT(30) DEF Says, Seen
<1>7. QED BY <1>3, <1>4, <1>5, <1>6 DEF Codes, Shares

-----------------------------------------------------------------------------
(* The invariant. *)

LEMMA HealthInit == Init => HInv
BY ScenesAssumption DEF Init, HInv, TypeOK, HandledOK, Loads

LEMMA BeginKeeps ==
    ASSUME HInv, Begin, UNCHANGED <<scene, workVars>>
    PROVE  HInv'
<1>1. /\ next' = 1 /\ counts' = counts /\ task' = task /\ scene' = scene
      /\ read' \in [Counters -> Nat]
      /\ always' = Findings(counts) /\ once' = Findings(counts)
  BY DEF Begin, workVars
<1>2. Loaded' = {}
  BY <1>1 DEF Loaded
<1>3. Merged' = counts
  BY <1>1, <1>2 DEF Merged, HInv, TypeOK
<1>4. Findings(Merged)' = Findings(counts) /\ Findings(counts)' = Findings(counts)
  BY <1>1, <1>3 DEF Findings, assess_health, assess_rf, assess_framing, assess_history
<1>5. <<"CG-511", "warning">> \in always' => Merged'["frames_received"] > 0
  <2> SUFFICES ASSUME <<"CG-511", "warning">> \in Findings(counts)
               PROVE  counts["frames_received"] > 0
    BY <1>1, <1>3
  <2>1. counts["frames_received"] > 0 \/ counts["frames_unmatched"] >= 10
    BY FindingsSay DEF Says
  <2>2. QED BY <2>1, CounterNames DEF HInv, HandledOK, TypeOK, Growing
<1>6. WatchOK'
  BY <1>1, <1>4, <1>5 DEF WatchOK
<1>7. LoadedOK'
  BY <1>2 DEF LoadedOK
<1>8. TypeOK' /\ HandledOK'
  BY <1>1 DEF HInv, TypeOK, HandledOK, Loads
<1>9. QED BY <1>6, <1>7, <1>8 DEF HInv

LEMMA LoadKeeps ==
    ASSUME HInv, Load, UNCHANGED <<scene, workVars>>
    PROVE  HInv'
<1>1. /\ next' = next + 1 /\ next \in 1 .. Loads /\ counts' = counts /\ task' = task /\ scene' = scene
      /\ UNCHANGED <<always, once>>
  BY DEF Load, workVars
<1>2. TypeOK /\ LoadedOK /\ WatchOK
  BY <1>1 DEF HInv
<1>3. Merged' = Merged /\ read' \in [Counters -> Nat] /\ LoadedOK'
  BY <1>1, <1>2, LoadKeepsMerged
<1>4. Findings(Merged)' = Findings(Merged) /\ Findings(counts)' = Findings(counts)
  BY <1>1, <1>3 DEF Findings, assess_health, assess_rf, assess_framing, assess_history
<1>5. WatchOK'
  BY <1>1, <1>2, <1>3, <1>4 DEF WatchOK
<1>6. TypeOK' /\ HandledOK'
  BY <1>1, <1>3 DEF HInv, TypeOK, HandledOK, Loads
<1>7. QED BY <1>3, <1>5, <1>6 DEF HInv

LEMMA WorkBetween ==
    ASSUME TypeOK, next > 0, LoadedOK, Moves, UNCHANGED <<scene, reportVars>>
    PROVE  Between(Merged, Merged', counts', Loaded) /\ LoadedOK'
<1>1. Loaded' = Loaded /\ read' = read /\ next' = next
  BY DEF reportVars, Loaded
<1>2. \A k \in Counters : Merged[k] = IF k \in Loaded THEN read[k] ELSE counts[k]
  BY DEF Merged
<1>3. \A k \in Counters : Merged'[k] = IF k \in Loaded THEN read[k] ELSE counts'[k]
  BY <1>1 DEF Merged
<1>4. counts' \in [Counters -> Nat] /\ \A k \in Growing : counts'[k] >= counts[k]
  BY DEF Moves
<1>5. Merged \in [Counters -> Nat] /\ Merged' \in [Counters -> Nat]
  BY <1>1, <1>4 DEF Merged, TypeOK
<1>6. \A k \in Growing : read[k] \in Nat /\ counts[k] \in Nat /\ counts'[k] \in Nat
  BY <1>4, CounterNames DEF TypeOK
<1>7. \A k \in Growing : Merged[k] <= Merged'[k] /\ Merged'[k] <= counts'[k]
  BY <1>2, <1>3, <1>4, <1>6, CounterNames DEF LoadedOK
<1>8. WholeFirst(Loaded)
  BY Before DEF TypeOK
<1>9. LoadedOK'
  BY <1>1, <1>4, <1>6 DEF LoadedOK
<1>10. QED BY <1>2, <1>3, <1>4, <1>5, <1>7, <1>8, <1>9 DEF Between

LEMMA WorkKeeps ==
    ASSUME HInv, Work, Watch, UNCHANGED <<scene, reportVars>>
    PROVE  HInv'
<1>1. TypeOK /\ HandledOK /\ scene' = scene /\ next' = next /\ read' = read
  BY DEF HInv, reportVars
<1>2. Moves /\ HandledOK'
  BY <1>1, WorkMoves
<1>3. TypeOK'
  BY <1>1, <1>2 DEF TypeOK, Moves, Tasks
<1>4. ASSUME next > 0 PROVE LoadedOK' /\ WatchOK'
  <2>1. LoadedOK /\ WatchOK
    BY <1>4 DEF HInv
  <2>2. Between(Merged, Merged', counts', Loaded) /\ LoadedOK'
    BY <1>1, <1>2, <1>4, <2>1, WorkBetween
  <2>3. Findings(Merged)' = Findings(Merged') /\ Findings(counts)' = Findings(counts')
    BY <1>1 DEF Findings, assess_health, assess_rf, assess_framing, assess_history
  <2>4. CASE next \in 1 .. Loads
    <3>1. always' = always \cap Findings(counts') /\ once' = once \cup Findings(counts')
      BY <2>3, <2>4 DEF Watch
    <3>2. Merged'["frames_received"] >= Merged["frames_received"]
          /\ Merged["frames_received"] \in Nat /\ Merged'["frames_received"] \in Nat
      BY <2>2, CounterNames DEF Between
    <3>3. <<"CG-511", "warning">> \in always' => Merged'["frames_received"] > 0
      BY <2>1, <3>1, <3>2 DEF WatchOK
    <3>4. always' \subseteq Findings(Merged')
      <4> SUFFICES ASSUME NEW f \in always' PROVE f \in Findings(Merged')
        OBVIOUS
      <4>1. f \in Findings(Merged) /\ f \in Findings(counts') /\ f \in always
        BY <2>1, <3>1 DEF WatchOK
      <4>2. f \in Codes /\ Says(Merged, f) /\ Says(counts', f)
        BY <4>1, FindingsSay
      <4>3. f = <<"CG-511", "warning">> => Merged["frames_received"] > 0
        BY <2>1, <4>1 DEF WatchOK
      <4>4. Says(Merged', f)
        BY <2>2, <4>2, <4>3, StillFound
      <4>5. QED BY <4>2, <4>4, FindingsSay
    <3>5. Findings(Merged') \ Shares \subseteq once'
      <4> SUFFICES ASSUME NEW f \in Findings(Merged') \ Shares PROVE f \in once'
        OBVIOUS
      <4>1. f \in Codes \ Shares /\ Says(Merged', f)
        BY FindingsSay
      <4>2. Says(Merged, f) \/ Says(counts', f)
        BY <2>2, <4>1, FoundBefore
      <4>3. f \in Findings(Merged) \/ f \in Findings(counts')
        BY <4>1, <4>2, FindingsSay
      <4>4. QED BY <2>1, <3>1, <4>3 DEF WatchOK
    <3>6. QED BY <2>2, <2>3, <3>1, <3>3, <3>4, <3>5 DEF WatchOK
  \* The report is made: nothing that was read changes any more.
  <2>5. CASE next \notin 1 .. Loads
    <3>1. UNCHANGED <<always, once>>
      BY <1>1, <2>5 DEF Watch
    <3>2. next = Loads + 1
      BY <1>1, <1>4, <2>5 DEF TypeOK, Loads
    <3>3. Counters \subseteq Loaded
      BY <3>2, AllLoaded DEF Loaded, Loads
    <3>4. Merged' = Merged
      BY <2>2, <3>3 DEF Between
    <3>5. Findings(Merged)' = Findings(Merged)
      BY <2>3, <3>4
    <3>6. ~(next' <= Loads)
      BY <1>1, <3>2 DEF Loads
    <3>7. WatchOK'
      BY <2>1, <3>1, <3>4, <3>5, <3>6 DEF WatchOK
    <3>8. QED BY <2>2, <3>7
  <2>6. QED BY <2>4, <2>5
<1>5. QED BY <1>1, <1>2, <1>3, <1>4 DEF HInv

LEMMA HealthStep == HInv /\ [Next]_vars => HInv'
<1> SUFFICES ASSUME HInv, [Next]_vars PROVE HInv'
  OBVIOUS
<1>1. CASE Next
  BY <1>1, BeginKeeps, LoadKeeps, WorkKeeps DEF Next
<1>2. CASE UNCHANGED vars
  <2>1. Loaded' = Loaded /\ Merged' = Merged /\ counts' = counts /\ scene' = scene
    BY <1>2 DEF vars, Loaded, Merged
  <2>2. Findings(Merged)' = Findings(Merged) /\ Findings(counts)' = Findings(counts)
    BY <2>1 DEF Findings, assess_health, assess_rf, assess_framing, assess_history
  <2>3. WatchOK => WatchOK'
    BY <1>2, <2>1, <2>2 DEF WatchOK, vars
  <2>4. LoadedOK => LoadedOK'
    BY <1>2, <2>1 DEF LoadedOK, vars
  <2>5. QED BY <1>2, <2>3, <2>4 DEF vars, HInv, TypeOK, HandledOK
<1>3. QED BY <1>1, <1>2

-----------------------------------------------------------------------------
(* What follows from it. *)

\* The word of the status and the findings, for any counters.
LEMMA StatusAgrees ==
    ASSUME NEW c \in [Counters -> Nat]
    PROVE  LET found == Severities(Findings(c)) IN
           Status(c) =
            IF "error" \in found THEN "problem"
            ELSE IF "warning" \in found THEN "attention"
            ELSE IF <<"CG-501", "info">> \in Findings(c) THEN "waiting" ELSE "ok"
<1>1. \A s : s \in Severities(Findings(c)) <=>
                \/ s \in Severities(assess_health(c)) \/ s \in Severities(assess_rf(c))
                \/ s \in Severities(assess_framing(c)) \/ s \in Severities(assess_history(c))
  BY DEF Severities, Findings
<1>2. <<"CG-501", "info">> \in Findings(c) <=> c["frames_received"] = 0
  <2>1. <<"CG-501", "info">> \in Findings(c) => c["frames_received"] = 0
    BY FindingsSay DEF Says
  <2>2. c["frames_received"] = 0 => <<"CG-501", "info">> \in Findings(c)
    BY HealthCodes DEF Findings
  <2>3. QED BY <2>1, <2>2
<1>3. QED BY <1>1, <1>2 DEF Status, Base, WithExtra

LEMMA HealthTells == HInv => ReportTells
<1> SUFFICES ASSUME HInv PROVE ReportTells
  OBVIOUS
<1>1. ASSUME Reported PROVE Merged = read /\ WatchOK
  <2>1. next = Loads + 1
    BY <1>1 DEF Reported
  <2>2. Counters \subseteq Loaded
    BY <2>1, AllLoaded DEF Loaded, Loads
  <2>3. QED BY <2>1, <2>2 DEF Merged, HInv, TypeOK, Loads
<1>2. NothingOverlooked /\ NothingInvented
  BY <1>1 DEF NothingOverlooked, NothingInvented, WatchOK
<1>3. StatusTells
  BY StatusAgrees DEF StatusTells, HInv, TypeOK
<1>4. QED BY <1>2, <1>3 DEF ReportTells

\* The inductive invariant: the findings on what was read so far, completed with what
\* the counters say now, lie between what held all the while and what held at some
\* time (health_report).
THEOREM HealthInvariance == Spec => []HInv
BY HealthInit, HealthStep, PTL DEF Spec

\* A status report made while everything moves leaves out nothing that was wrong all
\* the while, invents nothing but shares, and its word is the worst of its findings
\* (health_report, assess_health and with_extra_findings).
THEOREM ReportsCanBeReliedOn == Spec => []ReportTells
BY HealthInvariance, HealthTells, PTL
=============================================================================
